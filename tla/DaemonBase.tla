----------------------------- MODULE DaemonBase -----------------------------
(***************************************************************************)
(* What the session store and the rate limiter of the daemon share: the    *)
(* HTTP requests, the USB tokens, and the monotonic clock both read.  One  *)
(* unit of time is an arbitrary slice of real time; MaxTime bounds the     *)
(* model, not the daemon.                                                  *)
(***************************************************************************)
EXTENDS Naturals

CONSTANTS Reqs,      \* HTTP requests; a login request names the session it opens
          Tokens,    \* USB tokens
          MaxTime

ASSUME MaxTimeAssumption == MaxTime \in Nat

VARIABLE now

ClockTypeOK == now \in 0 .. MaxTime

\* time.monotonic goes on
Tick == now < MaxTime /\ now' = now + 1
=============================================================================
