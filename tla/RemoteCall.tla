------------------------------ MODULE RemoteCall ------------------------------
(***************************************************************************)
(* What core/bridge promises to whoever calls a helper: an operation is    *)
(* asked for at most twice ("restart MOT lan & thu lai") and runs at most  *)
(* once each time it was asked for; the caller is told once.  "ok" means   *)
(* that it ran and will not run again.  Told of an error the caller cannot *)
(* know: it may have run, be running, or run yet.  Told that the helper is *)
(* not available, it knows that nothing will run any more.                 *)
(***************************************************************************)
EXTENDS Naturals

CONSTANT Callers

VARIABLES
    tries,  \* [Callers -> times the operation was asked for]
    ran,    \* [Callers -> times it was run]
    told    \* [Callers -> what the caller was told, "none" before]

vars == <<tries, ran, told>>

Init ==
    /\ tries = [c \in Callers |-> 0] /\ ran = [c \in Callers |-> 0]
    /\ told = [c \in Callers |-> "none"]

Ask(c) ==
    /\ told[c] = "none" /\ tries[c] < 2
    /\ tries' = [tries EXCEPT ![c] = @ + 1]
    /\ UNCHANGED <<ran, told>>

Run(c) ==
    /\ told[c] \in {"none", "error"} /\ ran[c] < tries[c]
    /\ ran' = [ran EXCEPT ![c] = @ + 1]
    /\ UNCHANGED <<tries, told>>

Succeed(c) ==
    /\ told[c] = "none" /\ ran[c] > 0
    /\ told' = [told EXCEPT ![c] = "ok"]
    /\ UNCHANGED <<tries, ran>>

\* An error is the second one: the first is answered by asking again.
Fail(c) ==
    /\ told[c] = "none" /\ tries[c] = 2
    /\ told' = [told EXCEPT ![c] = "error"]
    /\ UNCHANGED <<tries, ran>>

Refuse(c) ==
    /\ told[c] = "none" /\ tries[c] < 2
    /\ told' = [told EXCEPT ![c] = "unavailable"]
    /\ UNCHANGED <<tries, ran>>

Next == \E c \in Callers : Ask(c) \/ Run(c) \/ Succeed(c) \/ Fail(c) \/ Refuse(c)

Spec == Init /\ [][Next]_vars
===============================================================================
