---------------------------- MODULE MCTrustStore ----------------------------
(* Instance of TrustStore for TLC: a root certificate and a CRL, two runs. *)
EXTENDS TrustStore

MCItems == <<"root/NEAC.der", "crl/NEAC.crl">>
=============================================================================
