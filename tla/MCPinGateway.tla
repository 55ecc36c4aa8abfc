---------------------------- MODULE MCPinGateway ----------------------------
(* Instance of PinGateway for TLC: the requests are interchangeable. *)
EXTENDS PinGateway, TLC

ReqSymmetry == Permutations(Reqs)
=============================================================================
