------------------------------ MODULE MCBridge ------------------------------
(* Instance of Bridge for TLC; every constant has its value in the cfg. *)
EXTENDS Bridge
=============================================================================
