-------------------------- MODULE MCEvidenceStore --------------------------
(* Instance of EvidenceStore for TLC: the requests are interchangeable. *)
EXTENDS EvidenceStore, TLC

ReqSymmetry == Permutations(Reqs)
=============================================================================
