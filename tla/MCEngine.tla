------------------------------- MODULE MCEngine -------------------------------
(* Instance of Engine for TLC: two in-process modules around a bridged one. *)
EXTENDS Engine

MCOrder == <<"first", "bridged", "last">>
===============================================================================
