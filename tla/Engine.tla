-------------------------------- MODULE Engine --------------------------------
(***************************************************************************)
(* core/pkcs11_engine.py over core/pkcs11_ops.py: enumerations of tokens   *)
(* and direct calls (read a token's certificates, sign) that run at the    *)
(* same time in one daemon.  An enumeration gives every module a worker    *)
(* thread of its own, waits for it up to a deadline, and goes on; a worker *)
(* that was given up keeps running, and keeps the lock it holds.           *)
(*                                                                         *)
(* In-process operations share one lock, _PKCS11_LOCK.  Operations on a    *)
(* module of another architecture take the lock of the BridgeManager that  *)
(* the enumeration made for itself (Bridge.tla); the manager's deadlines   *)
(* end them, whatever the module does.                                     *)
(*                                                                         *)
(* Time: an operation that returns at all returns before the deadline, so  *)
(* a wait is overdue when it is for a thread that is stuck.                *)
(***************************************************************************)
EXTENDS Naturals, Sequences

CONSTANTS Enums,     \* calls of enumerate_detailed
          Directs,   \* calls of read_certificates or sign
          Order,     \* the modules, in the order discovery lists them
          Bridged,   \* modules that need the bridge
          Nobody     \* a lock is free

Places == DOMAIN Order
Workers == Enums \X Places
InProcess == {i \in Places : Order[i] \notin Bridged}

ASSUME EngineAssumption ==
    /\ Order \in Seq(STRING)
    /\ Nobody \notin Workers \cup Directs
    /\ Workers \cap Directs = {}

VARIABLES
    hangs,      \* modules that do not always return (external)
    pos,        \* [Enums -> the module at hand]
    step,       \* [Enums -> idle, start, join, close, done]
    worker,     \* [Workers -> none, lock, run, stuck, done]
    report,     \* [Workers -> none, answered, timeout]
    bridgeLock, \* [Enums -> holder of the manager's lock]
    closed,     \* [Enums -> BridgeManager._closed]
    opsLock,    \* holder of _PKCS11_LOCK
    direct,     \* [Directs -> idle, lock, run, stuck, done]
    target      \* [Directs -> the place of its module]

enumVars == <<pos, step, report>>
directVars == <<direct, target>>
lockVars == <<bridgeLock, opsLock>>
vars == <<hangs, enumVars, worker, lockVars, closed, directVars>>

Init ==
    /\ hangs \in SUBSET {Order[i] : i \in Places}
    /\ pos = [e \in Enums |-> 1]
    /\ step = [e \in Enums |-> "idle"]
    /\ worker = [w \in Workers |-> "none"]
    /\ report = [w \in Workers |-> "none"]
    /\ bridgeLock = [e \in Enums |-> Nobody]
    /\ closed = [e \in Enums |-> FALSE]
    /\ opsLock = Nobody
    /\ direct = [d \in Directs |-> "idle"]
    /\ target \in [Directs -> InProcess]

-----------------------------------------------------------------------------
\* The module returns, or, if it is one of those, may never return.
Outcomes(i) == {"run"} \cup IF Order[i] \in hangs THEN {"stuck"} ELSE {}

Set(f, x, v) == [f EXCEPT ![x] = v]

StepTo(e, s) == step' = Set(step, e, s)

\* enumerate_detailed is called.
Begin(e) ==
    /\ step[e] = "idle"
    /\ StepTo(e, "start")
    /\ UNCHANGED <<hangs, pos, report, worker, lockVars, closed, directVars>>

\* _run_with_timeout starts a thread for the next module ...
StartWorker(e) ==
    /\ step[e] = "start" /\ pos[e] \in Places
    /\ worker' = Set(worker, <<e, pos[e]>>, "lock")
    /\ StepTo(e, "join")
    /\ UNCHANGED <<hangs, pos, report, lockVars, closed, directVars>>

\* ... and the report of that module is written, one way or the other.
Reported(e, what) ==
    /\ report' = Set(report, <<e, pos[e]>>, what)
    /\ pos' = Set(pos, e, pos[e] + 1)
    /\ StepTo(e, "start")
    /\ UNCHANGED <<hangs, worker, lockVars, closed, directVars>>

\* Tokens, or the error the module raised.
Joined(e) ==
    /\ step[e] = "join" /\ worker[<<e, pos[e]>>] = "done"
    /\ Reported(e, "answered")

\* Bug: operations over the bridge take _PKCS11_LOCK, too.
UsesOpsLock_Always(w) == TRUE

\* Worker w loads its module into this process.
UsesOpsLock(w) == w[2] \in InProcess

\* The holder of the lock that worker w needs.
LockOf(w) == IF UsesOpsLock(w) THEN opsLock ELSE bridgeLock[w[1]]

Stuck(x) == \/ x \in Workers /\ worker[x] = "stuck"
            \/ x \in Directs /\ direct[x] = "stuck"
Overdue(w) == worker[w] = "stuck" \/ (worker[w] = "lock" /\ Stuck(LockOf(w)))

\* Bug: the worker is joined without a timeout.
GiveUp_Never(e) == FALSE

\* TimeoutError: the worker is left behind.
GiveUp(e) ==
    /\ step[e] = "join" /\ Overdue(<<e, pos[e]>>)
    /\ Reported(e, "timeout")

\* All modules seen: the manager is closed, which takes its lock.
Finish(e) ==
    /\ step[e] = "start" /\ pos[e] \notin Places
    /\ StepTo(e, "close")
    /\ UNCHANGED <<hangs, pos, report, worker, lockVars, closed, directVars>>

CloseManager(e) ==
    /\ step[e] = "close" /\ bridgeLock[e] = Nobody
    /\ closed' = Set(closed, e, TRUE)
    /\ StepTo(e, "done")
    /\ UNCHANGED <<hangs, pos, report, worker, lockVars, directVars>>

-----------------------------------------------------------------------------
(* Worker threads *)

Hold(w, by) == IF UsesOpsLock(w)
               THEN opsLock' = by /\ UNCHANGED bridgeLock
               ELSE bridgeLock' = Set(bridgeLock, w[1], by) /\ UNCHANGED opsLock

\* The lock is taken and the module entered; a manager that was closed in the
\* meantime refuses.
Enter(w) ==
    /\ worker[w] = "lock" /\ LockOf(w) = Nobody
    /\ IF w[2] \notin InProcess /\ closed[w[1]]
       THEN worker' = Set(worker, w, "done") /\ UNCHANGED lockVars
       ELSE /\ \E outcome \in Outcomes(w[2]) : worker' = Set(worker, w, outcome)
            /\ Hold(w, w)
    /\ UNCHANGED <<hangs, enumVars, closed, directVars>>

\* Who has the lock when worker w leaves its module.
After(w) == Nobody

Leave(w) ==
    /\ worker' = Set(worker, w, "done")
    /\ Hold(w, After(w))
    /\ UNCHANGED <<hangs, enumVars, closed, directVars>>

Return(w) == worker[w] = "run" /\ Leave(w)

\* The second deadline of BridgeManager.call has passed.
BridgeEnds(w) == worker[w] = "stuck" /\ w[2] \notin InProcess /\ Leave(w)

-----------------------------------------------------------------------------
(* Direct calls, which no deadline guards *)

Ask(d) ==
    /\ direct[d] = "idle"
    /\ direct' = Set(direct, d, "lock")
    /\ UNCHANGED <<hangs, enumVars, worker, lockVars, closed, target>>

EnterDirect(d) ==
    /\ direct[d] = "lock" /\ opsLock = Nobody
    /\ \E outcome \in Outcomes(target[d]) : direct' = Set(direct, d, outcome)
    /\ opsLock' = d
    /\ UNCHANGED <<hangs, enumVars, worker, bridgeLock, closed, target>>

ReturnDirect(d) ==
    /\ direct[d] = "run"
    /\ direct' = Set(direct, d, "done")
    /\ opsLock' = Nobody
    /\ UNCHANGED <<hangs, enumVars, worker, bridgeLock, closed, target>>

EnumStep(e) == StartWorker(e) \/ Joined(e) \/ GiveUp(e) \/ Finish(e) \/ CloseManager(e)
WorkerStep(w) == Enter(w) \/ Return(w) \/ BridgeEnds(w)
DirectStep(d) == EnterDirect(d) \/ ReturnDirect(d)

Next == \/ \E e \in Enums : Begin(e) \/ EnumStep(e)
        \/ \E w \in Workers : WorkerStep(w)
        \/ \E d \in Directs : Ask(d) \/ DirectStep(d)

Spec == Init /\ [][Next]_vars

\* Threads run.  A stuck operation has no step, so nothing is owed for it.
FairSpec == /\ Spec
            /\ \A e \in Enums : WF_vars(EnumStep(e))
            /\ \A w \in Workers : WF_vars(WorkerStep(w))
            /\ \A d \in Directs : WF_vars(DirectStep(d))

-----------------------------------------------------------------------------
(***************************************************************************)
(* Threads have their types, and each lock is held by a thread that is     *)
(* inside an operation the lock is for.                                    *)
(***************************************************************************)
TypeOK ==
    /\ hangs \subseteq {Order[i] : i \in Places}
    /\ pos \in [Enums -> 1 .. Len(Order) + 1]
    /\ step \in [Enums -> {"idle", "start", "join", "close", "done"}]
    /\ worker \in [Workers -> {"none", "lock", "run", "stuck", "done"}]
    /\ report \in [Workers -> {"none", "answered", "timeout"}]
    /\ closed \in [Enums -> BOOLEAN]
    /\ direct \in [Directs -> {"idle", "lock", "run", "stuck", "done"}]
    /\ target \in [Directs -> InProcess]
    /\ opsLock \in Directs \cup (Enums \X InProcess) \cup {Nobody}
    /\ bridgeLock \in [Enums -> (Enums \X (Places \ InProcess)) \cup {Nobody}]
    /\ \A e \in Enums : bridgeLock[e] # Nobody => bridgeLock[e][1] = e

OnlyBridgedHang == \A i \in InProcess : Order[i] \notin hangs

(***************************************************************************)
(* A module of another architecture that hangs costs no in-process module  *)
(* its answer, in this enumeration or another one (pkcs11_engine.py:       *)
(* "CO LAP LOI").                                                          *)
(***************************************************************************)
BridgedHangContained ==
    OnlyBridgedHang =>
        \A e \in Enums, i \in InProcess : report[<<e, i>>] # "timeout"

(***************************************************************************)
(* Every enumeration ends, whichever modules hang: each join has its       *)
(* deadline, and closing the manager waits only for bridge calls, which    *)
(* have theirs (_run_with_timeout, enumerate_detailed).                    *)
(***************************************************************************)
EnumerationEnds == \A e \in Enums : step[e] = "start" ~> step[e] = "done"

(***************************************************************************)
(* A hang on the other side of the bridge keeps no direct call from        *)
(* returning, although an abandoned worker sits on a lock meanwhile        *)
(* (pkcs11_ops._PKCS11_LOCK, BridgeManager._lock).                         *)
(***************************************************************************)
DirectCallsReturn ==
    \A d \in Directs : (direct[d] = "lock" /\ OnlyBridgedHang) ~> direct[d] = "done"

(***************************************************************************)
(* Whichever modules hang, enumerations end, and so do direct calls unless *)
(* it is an in-process module that hangs (pkcs11_engine.py, manager.py).   *)
(***************************************************************************)
CallsEnd == EnumerationEnds /\ DirectCallsReturn
===============================================================================
