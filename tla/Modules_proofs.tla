---------------------------- MODULE Modules_proofs -----------------------------
(***************************************************************************)
(* Proofs about the PKCS#11 modules: how they are found (Discovery and     *)
(* Aggregator) and what they may hang in (Engine), for any libraries,      *)
(* names, documents and tools, and any number of scans, enumerations and   *)
(* direct calls.                                                           *)
(*                                                                         *)
(* The engine: the invariant says which threads can be stuck and who can   *)
(* hold which lock: an in-process lock is never held by a thread that      *)
(* waits beyond the bridge.                                                *)
(*                                                                         *)
(* Discovery: the invariant relates what every scan has found to what it   *)
(* has heard from the tiers up to now and to the files that were there all *)
(* along, or at some time, while it ran; it holds whatever the other       *)
(* scans, the cache and the file system do in between.                     *)
(*                                                                         *)
(* The merge: after any number of copies, every certificate seen is kept   *)
(* in a copy that no other copy is better than.                            *)
(***************************************************************************)
EXTENDS Engine, Aggregator, FiniteSetTheorems, SequenceTheorems, WellFoundedInduction, TLAPS

-----------------------------------------------------------------------------
(* The engine *)

\* A thread is stuck only in a module that hangs.
StuckInHung == /\ \A w \in Workers : worker[w] = "stuck" => Order[w[2]] \in hangs
               /\ \A d \in Directs : direct[d] = "stuck" => Order[target[d]] \in hangs

\* An enumeration waits for the worker of a module.
JoinsModule == \A e \in Enums : step[e] = "join" => pos[e] \in Places

IInv == TypeOK /\ JoinsModule /\ StuckInHung /\ BridgedHangContained

-----------------------------------------------------------------------------
(***************************************************************************)
(* A worker is an enumeration and a place, and an in-process place is one. *)
(***************************************************************************)
LEMMA WorkerParts ==
    ASSUME NEW w \in Workers
    PROVE  /\ w[1] \in Enums /\ w[2] \in Places
           /\ w = <<w[1], w[2]>>
           /\ w[2] \in InProcess => w \in Enums \X InProcess
           /\ w[2] \notin InProcess => w \in Enums \X (Places \ InProcess)
BY DEF Workers, InProcess

(***************************************************************************)
(* While the modules in this process return, an in-process worker is never *)
(* overdue: neither it nor the holder of _PKCS11_LOCK is stuck.            *)
(***************************************************************************)
LEMMA NotOverdue ==
    ASSUME TypeOK, StuckInHung, OnlyBridgedHang,
           NEW w \in Workers, w[2] \in InProcess
    PROVE  ~Overdue(w)
<1>1. worker[w] # "stuck"
  BY DEF StuckInHung, OnlyBridgedHang
<1>2. LockOf(w) = opsLock
  BY DEF LockOf, UsesOpsLock
<1>3. ~Stuck(opsLock)
  <2>1. CASE opsLock = Nobody
    BY <2>1, EngineAssumption DEF Stuck
  <2>2. CASE opsLock \in Directs
    <3>1. direct[opsLock] # "stuck"
      BY <2>2 DEF StuckInHung, OnlyBridgedHang, TypeOK
    <3> QED BY <2>2, <3>1, EngineAssumption DEF Stuck
  <2>3. CASE opsLock \in Enums \X InProcess
    <3>1. opsLock \in Workers /\ opsLock[2] \in InProcess
      BY <2>3 DEF Workers, InProcess
    <3>2. worker[opsLock] # "stuck"
      BY <3>1 DEF StuckInHung, OnlyBridgedHang
    <3> QED BY <3>1, <3>2, EngineAssumption DEF Stuck
  <2> QED BY <2>1, <2>2, <2>3 DEF TypeOK
<1> QED BY <1>1, <1>2, <1>3 DEF Overdue

(***************************************************************************)
(* Taking or leaving the lock of a worker keeps the locks well typed.      *)
(***************************************************************************)
LEMMA HoldKeepsLocks ==
    ASSUME TypeOK, NEW w \in Workers, NEW by \in {w, Nobody}, Hold(w, by)
    PROVE  /\ opsLock' \in Directs \cup (Enums \X InProcess) \cup {Nobody}
           /\ bridgeLock' \in [Enums -> (Enums \X (Places \ InProcess)) \cup {Nobody}]
           /\ \A e \in Enums : bridgeLock'[e] # Nobody => bridgeLock'[e][1] = e
<1>1. CASE w[2] \in InProcess
  BY <1>1, WorkerParts DEF TypeOK, Hold, UsesOpsLock
<1>2. CASE w[2] \notin InProcess
  <2>1. bridgeLock' = [bridgeLock EXCEPT ![w[1]] = by] /\ opsLock' = opsLock
    BY <1>2 DEF Hold, UsesOpsLock, Set
  <2>2. by \in (Enums \X (Places \ InProcess)) \cup {Nobody}
    BY <1>2, WorkerParts
  <2>3. by # Nobody => by[1] = w[1]
    OBVIOUS
  <2>4. w[1] \in Enums
    BY WorkerParts
  <2> QED BY <2>1, <2>2, <2>3, <2>4 DEF TypeOK
<1> QED BY <1>1, <1>2

-----------------------------------------------------------------------------
(***************************************************************************)
(* The invariant holds initially.                                          *)
(***************************************************************************)
LEMMA InitIInv == Init => IInv
<1> SUFFICES ASSUME Init PROVE IInv
  OBVIOUS
<1>1. Len(Order) \in Nat
  BY EngineAssumption
<1>2. TypeOK
  BY <1>1 DEF Init, TypeOK
<1>3. StuckInHung
  BY DEF Init, StuckInHung
<1>4. BridgedHangContained
  BY DEF Init, BridgedHangContained, Workers, InProcess
<1>5. JoinsModule
  BY DEF Init, JoinsModule
<1> QED BY <1>2, <1>3, <1>4, <1>5 DEF IInv

(***************************************************************************)
(* The steps of an enumeration preserve the invariant.                     *)
(***************************************************************************)
LEMMA EnumStepIInv ==
    ASSUME IInv, NEW e \in Enums, Begin(e) \/ EnumStep(e)
    PROVE  IInv'
<1> USE DEF IInv
<1>0. Len(Order) \in Nat /\ Places = 1 .. Len(Order)
  BY EngineAssumption DEF Places
<1>1. CASE Begin(e)
  <2> USE <1>1 DEF Begin, StepTo, Set, enumVars, directVars, lockVars
  <2>1. TypeOK'
    BY DEF TypeOK
  <2>2. JoinsModule'
    BY DEF TypeOK, JoinsModule
  <2>3. StuckInHung' /\ BridgedHangContained'
    BY DEF StuckInHung, BridgedHangContained, OnlyBridgedHang
  <2> QED BY <2>1, <2>2, <2>3
<1>2. CASE StartWorker(e)
  <2> USE <1>2 DEF StartWorker, StepTo, Set, directVars, lockVars
  <2>0. <<e, pos[e]>> \in Workers
    BY DEF Workers
  <2>1. TypeOK'
    BY <2>0 DEF TypeOK
  <2>2. JoinsModule'
    BY DEF TypeOK, JoinsModule
  <2>3. StuckInHung'
    BY <2>0 DEF TypeOK, StuckInHung
  <2>4. BridgedHangContained'
    BY DEF BridgedHangContained, OnlyBridgedHang
  <2> QED BY <2>1, <2>2, <2>3, <2>4
<1>3. ASSUME NEW what \in {"answered", "timeout"}, step[e] = "join", Reported(e, what),
             what = "timeout" => Overdue(<<e, pos[e]>>)
      PROVE  IInv'
  <2> USE <1>3 DEF Reported, StepTo, Set, directVars, lockVars
  <2>0. <<e, pos[e]>> \in Workers /\ pos[e] \in Places /\ pos[e] + 1 \in 1 .. Len(Order) + 1
    BY <1>0 DEF JoinsModule, Workers
  <2>1. TypeOK'
    BY <2>0 DEF TypeOK
  <2>2. JoinsModule'
    BY DEF TypeOK, JoinsModule
  <2>3. StuckInHung'
    BY DEF StuckInHung
  <2>4. BridgedHangContained'
    <3> SUFFICES ASSUME OnlyBridgedHang', NEW f \in Enums, NEW i \in InProcess
                 PROVE  report'[<<f, i>>] # "timeout"
      BY DEF BridgedHangContained
    <3>1. OnlyBridgedHang
      BY DEF OnlyBridgedHang
    <3>2. <<f, i>> \in Workers
      BY DEF Workers, InProcess
    <3>3. report[<<f, i>>] # "timeout"
      BY <3>1 DEF BridgedHangContained
    <3>4. CASE <<f, i>> = <<e, pos[e]>>
      <4>1. pos[e] \in InProcess
        BY <3>4
      <4>2. ~Overdue(<<e, pos[e]>>)
        BY <2>0, <3>1, <4>1, NotOverdue
      <4>3. what # "timeout"
        BY <4>2
      <4> QED BY <3>2, <3>4, <4>3 DEF TypeOK
    <3>5. CASE <<f, i>> # <<e, pos[e]>>
      BY <3>2, <3>3, <3>5 DEF TypeOK
    <3> QED BY <3>4, <3>5
  <2> QED BY <2>1, <2>2, <2>3, <2>4
<1>4. CASE Joined(e)
  BY <1>3, <1>4 DEF Joined
<1>5. CASE GiveUp(e)
  BY <1>3, <1>5 DEF GiveUp
<1>6. CASE Finish(e)
  <2> USE <1>6 DEF Finish, StepTo, Set, directVars, lockVars
  <2>1. TypeOK'
    BY DEF TypeOK
  <2>2. JoinsModule'
    BY DEF TypeOK, JoinsModule
  <2>3. StuckInHung' /\ BridgedHangContained'
    BY DEF StuckInHung, BridgedHangContained, OnlyBridgedHang
  <2> QED BY <2>1, <2>2, <2>3
<1>7. CASE CloseManager(e)
  <2> USE <1>7 DEF CloseManager, StepTo, Set, directVars, lockVars
  <2>1. TypeOK'
    BY DEF TypeOK
  <2>2. JoinsModule'
    BY DEF TypeOK, JoinsModule
  <2>3. StuckInHung' /\ BridgedHangContained'
    BY DEF StuckInHung, BridgedHangContained, OnlyBridgedHang
  <2> QED BY <2>1, <2>2, <2>3
<1> QED BY <1>1, <1>2, <1>4, <1>5, <1>6, <1>7 DEF EnumStep

(***************************************************************************)
(* The steps of a worker preserve the invariant.                           *)
(***************************************************************************)
LEMMA WorkerStepIInv ==
    ASSUME IInv, NEW w \in Workers, WorkerStep(w)
    PROVE  IInv'
<1> USE DEF IInv
<1>0. /\ UNCHANGED <<hangs, enumVars, closed, directVars>>
      /\ \/ Hold(w, w) \/ Hold(w, Nobody) \/ UNCHANGED lockVars
      /\ \E s \in {"run", "stuck", "done"} :
            /\ worker' = [worker EXCEPT ![w] = s]
            /\ s = "stuck" => Order[w[2]] \in hangs
  <2>1. CASE Enter(w)
    <3>1. CASE w[2] \notin InProcess /\ closed[w[1]]
      BY <2>1, <3>1 DEF Enter, Set
    <3>2. CASE ~(w[2] \notin InProcess /\ closed[w[1]])
      <4>1. PICK s \in Outcomes(w[2]) : worker' = [worker EXCEPT ![w] = s]
        BY <2>1, <3>2 DEF Enter, Set
      <4>2. s \in {"run", "stuck"} /\ (s = "stuck" => Order[w[2]] \in hangs)
        BY <4>1 DEF Outcomes
      <4> QED BY <2>1, <3>2, <4>1, <4>2 DEF Enter
    <3> QED BY <3>1, <3>2
  <2>2. CASE Return(w)
    BY <2>2 DEF Return, Leave, After, Set
  <2>3. CASE BridgeEnds(w)
    BY <2>3 DEF BridgeEnds, Leave, After, Set
  <2> QED BY <2>1, <2>2, <2>3 DEF WorkerStep
<1>1. PICK s \in {"run", "stuck", "done"} :
            /\ worker' = [worker EXCEPT ![w] = s]
            /\ s = "stuck" => Order[w[2]] \in hangs
  BY <1>0
<1> USE <1>0 DEF enumVars, directVars
<1>2. TypeOK'
  <2>1. /\ opsLock' \in Directs \cup (Enums \X InProcess) \cup {Nobody}
        /\ bridgeLock' \in [Enums -> (Enums \X (Places \ InProcess)) \cup {Nobody}]
        /\ \A e \in Enums : bridgeLock'[e] # Nobody => bridgeLock'[e][1] = e
    <3>1. CASE \E by \in {w, Nobody} : Hold(w, by)
      BY <3>1, HoldKeepsLocks
    <3>2. CASE UNCHANGED lockVars
      BY <3>2 DEF lockVars, TypeOK
    <3> QED BY <3>1, <3>2
  <2> QED BY <1>1, <2>1 DEF TypeOK
<1>3. JoinsModule'
  BY DEF JoinsModule
<1>4. StuckInHung'
  BY <1>1 DEF TypeOK, StuckInHung
<1>5. BridgedHangContained'
  BY DEF BridgedHangContained, OnlyBridgedHang
<1> QED BY <1>2, <1>3, <1>4, <1>5

(***************************************************************************)
(* The steps of a direct call preserve the invariant.                      *)
(***************************************************************************)
LEMMA DirectStepIInv ==
    ASSUME IInv, NEW d \in Directs, Ask(d) \/ DirectStep(d)
    PROVE  IInv'
<1> USE DEF IInv
<1>1. /\ UNCHANGED <<hangs, enumVars, worker, bridgeLock, closed, target>>
      /\ opsLock' \in {opsLock, d, Nobody}
      /\ \E s \in {"lock", "run", "stuck", "done"} :
            /\ direct' = [direct EXCEPT ![d] = s]
            /\ s = "stuck" => Order[target[d]] \in hangs
  <2>1. CASE Ask(d)
    BY <2>1 DEF Ask, Set, lockVars
  <2>2. CASE EnterDirect(d)
    BY <2>2 DEF EnterDirect, Set, Outcomes
  <2>3. CASE ReturnDirect(d)
    BY <2>3 DEF ReturnDirect, Set
  <2> QED BY <2>1, <2>2, <2>3 DEF DirectStep
<1>2. PICK s \in {"lock", "run", "stuck", "done"} :
            /\ direct' = [direct EXCEPT ![d] = s]
            /\ s = "stuck" => Order[target[d]] \in hangs
  BY <1>1
<1> USE <1>1 DEF enumVars
<1>3. TypeOK'
  BY <1>2 DEF TypeOK
<1>4. JoinsModule'
  BY DEF JoinsModule
<1>5. StuckInHung'
  BY <1>2 DEF TypeOK, StuckInHung
<1>6. BridgedHangContained'
  BY DEF BridgedHangContained, OnlyBridgedHang
<1> QED BY <1>3, <1>4, <1>5, <1>6

(***************************************************************************)
(* Every step preserves the invariant.                                     *)
(***************************************************************************)
LEMMA NextIInv == IInv /\ [Next]_vars => IInv'
<1> SUFFICES ASSUME IInv, [Next]_vars PROVE IInv'
  OBVIOUS
<1>1. CASE Next
  BY <1>1, EnumStepIInv, WorkerStepIInv, DirectStepIInv DEF Next
<1>2. CASE UNCHANGED vars
  BY <1>2 DEF vars, enumVars, directVars, lockVars, IInv, TypeOK, JoinsModule,
              StuckInHung, BridgedHangContained, OnlyBridgedHang
<1> QED BY <1>1, <1>2

(***************************************************************************)
(* The invariant holds in every reachable state.                           *)
(***************************************************************************)
THEOREM EngineInductive == Spec => []IInv
BY InitIInv, NextIInv, PTL DEF Spec

(***************************************************************************)
(* Threads and locks have their types: nobody but a thread of an           *)
(* in-process operation ever holds _PKCS11_LOCK, and a manager's lock is   *)
(* held by a worker of its own enumeration (pkcs11_ops.py, manager.py).    *)
(***************************************************************************)
THEOREM EngineTypeCorrect == Spec => []TypeOK
<1>1. IInv => TypeOK
  BY DEF IInv
<1> QED BY <1>1, EngineInductive, PTL

(***************************************************************************)
(* However many enumerations overlap, and whichever modules hang beyond    *)
(* the bridge, no in-process module is reported as having timed out        *)
(* (pkcs11_engine.py _run_with_timeout).                                   *)
(***************************************************************************)
THEOREM HangStaysBehindBridge == Spec => []BridgedHangContained
<1>1. IInv => BridgedHangContained
  BY DEF IInv
<1> QED BY <1>1, EngineInductive, PTL

-----------------------------------------------------------------------------
(* Sequences *)

\* A set of numbers has a least element.
LEMMA LeastExists ==
    ASSUME NEW K, K \subseteq Nat, K # {}
    PROVE  \E k \in K : \A j \in K : k <= j
<1>1. PICK k \in K : \A j \in K : <<j, k>> \notin OpToRel(<, Nat)
  BY WFMin, NatLessThanWellFounded, Zenon
<1>2. \A j \in K : <<j, k>> \in Nat \X Nat /\ <<j, k>>[1] = j /\ <<j, k>>[2] = k
  OBVIOUS
<1>3. \A j \in K : ~(j < k)
  BY <1>1, <1>2, Zenon DEF OpToRel
<1> QED
  BY <1>3

\* A set of positions has a last one.
LEMMA LastPosition ==
    ASSUME NEW n \in Nat, NEW K \in SUBSET (1 .. n), K # {}
    PROVE  Max(K) \in K
<1> DEFINE B == {m \in Nat : \A k \in K : k <= m}
<1>1. n \in B
  OBVIOUS
<1>2. PICK m \in B : \A j \in B : m <= j
  BY <1>1, LeastExists
<1>3. m \in K
  <2> SUFFICES ASSUME m \notin K PROVE FALSE
    OBVIOUS
  <2>1. m \in Nat /\ \A k \in K : k <= m /\ k # m /\ k \in Nat
    OBVIOUS
  <2>2. m # 0
    <3>1. PICK k \in K : TRUE
      OBVIOUS
    <3>2. k \in 1 .. n /\ k <= m
      BY <2>1
    <3> QED
      BY <3>2
  <2>3. m - 1 \in B
    BY <2>1, <2>2
  <2> QED
    BY <1>2, <2>1, <2>3
<1>4. \A k \in K : m >= k
  BY <1>2
<1> QED
  BY <1>3, <1>4, Zenon DEF Max

\* Joining sequences over a set gives one.
LEMMA FlattenType ==
    ASSUME NEW S, NEW seqs \in Seq(Seq(S))
    PROVE  FlattenSeq(seqs) \in Seq(S)
<1> DEFINE N == Len(seqs)
           Body(g, m) == [i \in 1 .. m |-> IF i = 1 THEN seqs[i] ELSE g[i - 1] \o seqs[i]]
           Solves(g, m) == g = Body(g, m)
           K == {m \in 0 .. N : ~ \E g : Solves(g, m)}
<1>0. N \in Nat /\ \A i \in 1 .. N : seqs[i] \in Seq(S)
  BY ElementOfSeq, LenProperties
<1>1. K = {}
  <2> SUFFICES ASSUME K # {} PROVE FALSE
    OBVIOUS
  <2>1. PICK m \in K : \A j \in K : m <= j
    <3> HIDE DEF Solves, N
    <3>1. K \subseteq Nat
      BY <1>0
    <3> QED
      BY <3>1, LeastExists
  <2>2. m \in 0 .. N /\ ~ \E g : Solves(g, m)
    OBVIOUS
  <2>3. CASE m = 0
    <3>1. Solves([i \in 1 .. 0 |-> 0], 0)
      OBVIOUS
    <3> QED
      BY <2>2, <2>3, <3>1
  <2>4. CASE m # 0
    <3>0. m - 1 \in 0 .. N /\ ~(m <= m - 1)
      BY <1>0, <2>2, <2>4
    <3>1. m - 1 \notin K
      <4> HIDE DEF K
      <4> QED
        BY <2>1, <3>0
    <3>2. PICK g : Solves(g, m - 1)
      <4> HIDE DEF Solves, N
      <4> QED
        BY <3>0, <3>1
    <3> DEFINE h == [i \in 1 .. m |-> IF i = m THEN IF m = 1 THEN seqs[1] ELSE g[m - 1] \o seqs[m] ELSE g[i]]
    <3>3. \A i \in 1 .. m : h[i] = IF i = 1 THEN seqs[i] ELSE h[i - 1] \o seqs[i]
      <4> SUFFICES ASSUME NEW i \in 1 .. m
                   PROVE  h[i] = IF i = 1 THEN seqs[i] ELSE h[i - 1] \o seqs[i]
        OBVIOUS
      <4>1. CASE i = m
        <5>1. i # 1 => h[i - 1] = g[i - 1]
          BY <2>2, <4>1
        <5>2. h[i] = IF m = 1 THEN seqs[1] ELSE g[m - 1] \o seqs[m]
          BY <4>1
        <5> QED
          BY <4>1, <5>1, <5>2
      <4>2. CASE i # m
        <5>1. i \in 1 .. m - 1 /\ h[i] = g[i]
          BY <2>2, <4>2
        <5>2. g[i] = IF i = 1 THEN seqs[i] ELSE g[i - 1] \o seqs[i]
          BY <3>2, <5>1
        <5>3. i # 1 => h[i - 1] = g[i - 1]
          BY <2>2, <5>1
        <5> QED
          BY <5>1, <5>2, <5>3
      <4> QED
        BY <4>1, <4>2
    <3>4. DOMAIN h = 1 .. m /\ h = [i \in 1 .. m |-> h[i]]
      OBVIOUS
    <3> HIDE DEF h
    <3>5. Solves(h, m)
      BY <3>3, <3>4
    <3> QED
      BY <2>2, <3>5
  <2> QED
    BY <2>3, <2>4
<1>2. \E g : Solves(g, N)
  <2>1. N \in 0 .. N
    BY <1>0
  <2> HIDE DEF Solves, N
  <2> QED
    BY <1>1, <2>1
<1> DEFINE f == CHOOSE g : Solves(g, N)
<1>3. Solves(f, N)
  BY <1>2, Zenon
<1>4. FlattenSeq(seqs) = IF Len(seqs) = 0 THEN seqs ELSE f[Len(seqs)]
  BY Zenon DEF FlattenSeq
<1> HIDE DEF f
<1>5. CASE N = 0
  BY <1>4, <1>5, EmptySeq
<1>6. CASE N # 0
  <2> DEFINE Bad == {m \in Nat : m \in 1 .. N /\ f[m] \notin Seq(S)}
  <2>1. Bad = {}
    <3> SUFFICES ASSUME Bad # {} PROVE FALSE
      OBVIOUS
    <3>1. PICK m \in Bad : \A j \in Bad : m <= j
      BY LeastExists
    <3>2. m \in 1 .. N /\ f[m] = IF m = 1 THEN seqs[m] ELSE f[m - 1] \o seqs[m]
      BY <1>3
    <3>3. CASE m = 1
      BY <1>0, <3>1, <3>2, <3>3
    <3>4. CASE m # 1
      <4>1. m - 1 \in Nat /\ m - 1 \in 1 .. N /\ m - 1 \notin Bad
        BY <1>0, <3>1, <3>2, <3>4
      <4>2. f[m - 1] \in Seq(S) /\ seqs[m] \in Seq(S)
        BY <1>0, <3>2, <4>1
      <4>3. f[m - 1] \o seqs[m] \in Seq(S)
        BY <4>2, ConcatProperties
      <4> QED
        BY <3>1, <3>2, <3>4, <4>3
    <3> QED
      BY <3>3, <3>4
  <2>2. Len(seqs) \in 1 .. N
    BY <1>0, <1>6
  <2> QED
    BY <1>4, <1>6, <2>1, <2>2
<1> QED
  BY <1>5, <1>6

\* So does keeping some of its elements.
LEMMA KeptType ==
    ASSUME NEW S, NEW seq \in Seq(S), NEW T \in SUBSET DOMAIN seq
    PROVE  FlattenSeq([i \in DOMAIN seq |-> IF i \in T THEN <<seq[i]>> ELSE <<>>])
              \in Seq({seq[i] : i \in T})
<1> DEFINE E == {seq[i] : i \in T}
           g == [i \in DOMAIN seq |-> IF i \in T THEN <<seq[i]>> ELSE <<>>]
<1>1. \A i \in DOMAIN seq : g[i] \in Seq(E)
  <2> SUFFICES ASSUME NEW i \in DOMAIN seq PROVE g[i] \in Seq(E)
    OBVIOUS
  <2>1. CASE i \in T
    <3>1. g[i] = <<seq[i]>> /\ seq[i] \in E
      BY <2>1
    <3> HIDE DEF E, g
    <3> QED
      BY <3>1
  <2>2. CASE i \notin T
    BY <2>2
  <2> QED
    BY <2>1, <2>2
<1>2. Len(seq) \in Nat /\ DOMAIN seq = 1 .. Len(seq)
  BY LenProperties
<1>3. g \in Seq(Seq(E))
  <2>1. g = [i \in 1 .. Len(seq) |-> g[i]]
    BY <1>2
  <2> HIDE DEF g, E
  <2> QED
    BY <1>1, <1>2, <2>1, IsASeq
<1> HIDE DEF g, E
<1>4. FlattenSeq(g) \in Seq(E)
  BY <1>3, FlattenType
<1> QED
  BY <1>4 DEF g, E

LEMMA FlattenMapped ==
    ASSUME NEW S, NEW n \in Nat, NEW g, g = [i \in 1 .. n |-> g[i]], \A i \in 1 .. n : g[i] \in Seq(S)
    PROVE  FlattenSeq(g) \in Seq(S)
<1>1. g \in Seq(Seq(S))
  BY IsASeq
<1> QED
  BY <1>1, FlattenType

LEMMA Positions ==
    ASSUME NEW S, NEW seq \in Seq(S)
    PROVE  /\ Len(seq) \in Nat /\ DOMAIN seq = 1 .. Len(seq)
           /\ \A i \in DOMAIN seq : seq[i] \in S
BY LenProperties, ElementOfSeq

\* What the adapters hand over are paths.
LEMMA NamesType ==
    ASSUME NEW os \in Systems
    PROVE  FromSystem(os, Software) \in Seq(Names) /\ FromUser(os, Configured) \in Seq(Names)
<1>0. Software \in Seq(Products) /\ Configured \in Seq(Settings)
  BY DiscoveryAssumption
<1>1. FromSystem(os, Software) \in Seq(Names)
  <2> DEFINE by(how) == Kept(Software, LAMBDA s : s.how = how /\ Counts(s))
             names(found) == FlattenSeq([i \in DOMAIN found |-> found[i].names])
             all == [i \in DOMAIN Asked[os] |-> names(by(Asked[os][i]))]
  <2>1. ASSUME NEW how PROVE by(how) \in Seq(Products)
    <3> DEFINE T == {i \in DOMAIN Software : Software[i].how = how /\ Counts(Software[i])}
    <3>1. by(how) = FlattenSeq([i \in DOMAIN Software |-> IF i \in T THEN <<Software[i]>> ELSE <<>>])
      BY DEF Kept
    <3>2. \A i \in T : Software[i] \in Products
      BY <1>0, Positions
    <3>3. by(how) \in Seq({Software[i] : i \in T})
      <4> HIDE DEF by
      <4>1. T \in SUBSET DOMAIN Software
        OBVIOUS
      <4> HIDE DEF T
      <4> QED
        BY <1>0, <3>1, <4>1, KeptType
    <3> HIDE DEF by, T
    <3>4. {Software[i] : i \in T} \subseteq Products
      BY <3>2
    <3> QED
      BY <3>3, <3>4, SeqMonotonic
  <2>2. ASSUME NEW how PROVE names(by(how)) \in Seq(Names)
    <3> DEFINE b == by(how)
               g == [i \in DOMAIN b |-> b[i].names]
    <3> HIDE DEF by
    <3>1. Len(b) \in Nat /\ DOMAIN b = 1 .. Len(b) /\ \A i \in DOMAIN b : b[i] \in Products
      BY <2>1, Positions
    <3> HIDE DEF b
    <3>2. \A i \in 1 .. Len(b) : g[i] \in Seq(Names)
      BY <3>1 DEF Products
    <3>3. g = [i \in 1 .. Len(b) |-> g[i]]
      BY <3>1
    <3>4. FlattenSeq(g) \in Seq(Names)
      <4> HIDE DEF g
      <4> QED
        BY <3>1, <3>2, <3>3, FlattenMapped
    <3> QED
      BY <3>4 DEF b
  <2>3. /\ DOMAIN Asked[os] = 1 .. Len(Asked[os]) /\ Len(Asked[os]) \in Nat
    BY DEF Asked, Systems
  <2> HIDE DEF names, by
  <2>4. FlattenSeq(all) \in Seq(Names)
    <3>1. \A i \in 1 .. Len(Asked[os]) : all[i] \in Seq(Names)
      BY <2>2, <2>3
    <3>2. all = [i \in 1 .. Len(Asked[os]) |-> all[i]]
      BY <2>3
    <3> HIDE DEF all
    <3> QED
      BY <2>3, <3>1, <3>2, FlattenMapped
  <2> QED
    BY <2>4 DEF FromSystem, names, by
<1>2. FromUser(os, Configured) \in Seq(Names)
  <2> DEFINE ways == <<"variable", "file">>
                \o (IF os = "linux" THEN <<"p11-kit", "modules", "browser">> ELSE <<>>)
             by(how) == Kept(Configured, LAMBDA s : s.how = how /\ Says(s))
             per == [i \in DOMAIN ways |-> by(ways[i])]
             all == FlattenSeq(per)
  <2>1. ASSUME NEW how PROVE by(how) \in Seq(Settings)
    <3> DEFINE T == {i \in DOMAIN Configured : Configured[i].how = how /\ Says(Configured[i])}
    <3>1. by(how) = FlattenSeq([i \in DOMAIN Configured |-> IF i \in T THEN <<Configured[i]>> ELSE <<>>])
      BY DEF Kept
    <3>2. \A i \in T : Configured[i] \in Settings
      BY <1>0, Positions
    <3>3. by(how) \in Seq({Configured[i] : i \in T})
      <4> HIDE DEF by
      <4>1. T \in SUBSET DOMAIN Configured
        OBVIOUS
      <4> HIDE DEF T
      <4> QED
        BY <1>0, <3>1, <4>1, KeptType
    <3> HIDE DEF by, T
    <3>4. {Configured[i] : i \in T} \subseteq Settings
      BY <3>2
    <3> QED
      BY <3>3, <3>4, SeqMonotonic
  <2>3. Len(ways) \in Nat /\ DOMAIN ways = 1 .. Len(ways)
    <3> DEFINE W == {"variable", "file", "p11-kit", "modules", "browser"}
               more == IF os = "linux" THEN <<"p11-kit", "modules", "browser">> ELSE <<>>
    <3>1. /\ <<"variable", "file">> \in Seq(W)
          /\ <<"p11-kit", "modules", "browser">> \in Seq(W)
          /\ <<>> \in Seq(W)
      OBVIOUS
    <3>2. more \in Seq(W)
      BY <3>1, Zenon
    <3> HIDE DEF more, W
    <3>3. <<"variable", "file">> \o more \in Seq(W)
      BY <3>1, <3>2, ConcatProperties
    <3>4. ways \in Seq(W)
      BY <3>3 DEF more
    <3> HIDE DEF ways
    <3> QED
      BY <3>4, LenProperties
  <2> HIDE DEF ways, by
  <2>4. all \in Seq(Settings)
    <3>1. \A i \in 1 .. Len(ways) : per[i] \in Seq(Settings)
      BY <2>1, <2>3
    <3>2. per = [i \in 1 .. Len(ways) |-> per[i]]
      BY <2>3
    <3> HIDE DEF per
    <3> QED
      BY <2>3, <3>1, <3>2, FlattenMapped
  <2> HIDE DEF all
  <2>5. [i \in DOMAIN all |-> all[i].name] \in Seq(Names)
    <3>1. Len(all) \in Nat /\ DOMAIN all = 1 .. Len(all) /\ \A i \in DOMAIN all : all[i] \in Settings
      <4> HIDE DEF per
      <4> QED
        BY <2>4, Positions
    <3>2. \A i \in DOMAIN all : all[i].name \in Names
      BY <3>1 DEF Settings
    <3> QED
      BY <3>1, <3>2, IsASeq
  <2> QED
    BY <2>5 DEF FromUser, all, ways, by
<1> QED
  BY <1>1, <1>2

\* The golden table holds entries that passed, and says nothing of its own.
LEMMA IntelType ==
    ASSUME NEW os \in Systems
    PROVE  For(os) \in Seq({e \in Entries : Accepted(e)})
<1> DEFINE Good == {e \in Entries : Accepted(e)}
           docs == FlattenSeq(IntelDocs)
           read == Kept(docs, Accepted)
<1>1. docs \in Seq(Entries)
  BY DiscoveryAssumption, FlattenType
<1>2. read \in Seq(Good)
  <2> DEFINE T == {i \in DOMAIN docs : Accepted(docs[i])}
  <2> HIDE DEF docs
  <2>1. read = FlattenSeq([i \in DOMAIN docs |-> IF i \in T THEN <<docs[i]>> ELSE <<>>])
    BY DEF Kept
  <2>2. \A i \in T : docs[i] \in Good
    BY <1>1, Positions
  <2>3. T \in SUBSET DOMAIN docs
    OBVIOUS
  <2> HIDE DEF T, Good, read
  <2>4. read \in Seq({docs[i] : i \in T})
    BY <1>1, <2>1, <2>3, KeptType
  <2>5. {docs[i] : i \in T} \subseteq Good
    BY <2>2
  <2> QED
    BY <2>4, <2>5, SeqMonotonic
<1> DEFINE same(i) == {j \in DOMAIN read : read[j].id = read[i].id}
           one == [i \in DOMAIN read |->
                     IF \A j \in same(i) : i <= j THEN <<read[Max(same(i))]>> ELSE <<>>]
<1>3. Intel \in Seq(Good)
  <2>1. Intel = FlattenSeq(one)
    BY DEF Intel
  <2> HIDE DEF read, Good
  <2>2. Len(read) \in Nat /\ DOMAIN read = 1 .. Len(read) /\ \A i \in DOMAIN read : read[i] \in Good
    BY <1>2, Positions
  <2>3. \A i \in 1 .. Len(read) : one[i] \in Seq(Good)
    <3> SUFFICES ASSUME NEW i \in 1 .. Len(read) PROVE one[i] \in Seq(Good)
      OBVIOUS
    <3>1. same(i) # {} /\ same(i) \in SUBSET (1 .. Len(read))
      BY <2>2
    <3>2. Max(same(i)) \in DOMAIN read
      <4> HIDE DEF same
      <4> QED
        BY <2>2, <3>1, LastPosition
    <3> DEFINE r == read[Max(same(i))]
    <3>3. r \in Good
      BY <2>2, <3>2
    <3>4. one[i] = <<r>> \/ one[i] = <<>>
      BY <2>2
    <3> HIDE DEF r, one, same
    <3>5. <<r>> \in Seq(Good) /\ <<>> \in Seq(Good)
      BY <3>3
    <3> QED
      BY <3>4, <3>5
  <2>4. one = [i \in 1 .. Len(read) |-> one[i]]
    BY <2>2
  <2> HIDE DEF one
  <2> QED
    BY <2>1, <2>2, <2>3, <2>4, FlattenMapped
<1>4. For(os) \in Seq(Good)
  <2> DEFINE T == {i \in DOMAIN Intel : Intel[i].os \in {os, "any"}}
  <2>1. For(os) = FlattenSeq([i \in DOMAIN Intel |-> IF i \in T THEN <<Intel[i]>> ELSE <<>>])
    BY DEF For, Kept
  <2>2. \A i \in T : Intel[i] \in Good
    BY <1>3, Positions
  <2>3. T \in SUBSET DOMAIN Intel
    OBVIOUS
  <2> HIDE DEF T, Good
  <2>4. For(os) \in Seq({Intel[i] : i \in T})
    BY <1>3, <2>1, <2>3, KeptType
  <2>5. {Intel[i] : i \in T} \subseteq Good
    BY <2>2
  <2> QED
    BY <2>4, <2>5, SeqMonotonic
<1> QED
  BY <1>4

Hints == STRING \cup {NoHint}

\* What a tier may say.
Candidates(t) ==
    [file : Files, tier : {t}, source : Sources, track : {"A", "B"}, hint : Hints,
     confidence : 0 .. 100, label : {"confirmed", "documented"}, validated : BOOLEAN, bridge : {FALSE}]

LEMMA IndexedType ==
    ASSUME NEW os \in Systems, NEW n
    PROVE  Indexed(os, n).track \in {"A", "B"} /\ Indexed(os, n).hint \in Hints
<1> DEFINE known == {i \in DOMAIN For(os) : n \in Range(For(os)[i].names)}
           last == For(os)[Max(known)]
<1>1. CASE known = {}
  <2>0. "A" \in {"A", "B"}
    OBVIOUS
  <2>1. Indexed(os, n) = [track |-> "A", hint |-> NoHint]
    BY <1>1 DEF Indexed
  <2>2. NoHint \in Hints
    BY Zenon DEF Hints
  <2>3. Indexed(os, n).track = "A" /\ Indexed(os, n).hint = NoHint
    <3> HIDE DEF known, last
    <3> QED
      BY <2>1
  <2> QED
    BY <2>0, <2>2, <2>3, Zenon
<1>2. CASE known # {}
  <2>1. Indexed(os, n) = [track |-> last.track, hint |-> Hint(last)]
    BY <1>2 DEF Indexed
  <2>2. /\ Len(For(os)) \in Nat /\ DOMAIN For(os) = 1 .. Len(For(os))
        /\ \A i \in DOMAIN For(os) : For(os)[i] \in {e \in Entries : Accepted(e)}
    <3> DEFINE Good == {e \in Entries : Accepted(e)}
    <3>1. For(os) \in Seq(Good)
      BY IntelType
    <3> HIDE DEF Good
    <3>2. Len(For(os)) \in Nat /\ DOMAIN For(os) = 1 .. Len(For(os)) /\ \A i \in DOMAIN For(os) : For(os)[i] \in Good
      BY <3>1, Positions
    <3> QED
      BY <3>2 DEF Good
  <2>3. known \in SUBSET (1 .. Len(For(os)))
    BY <2>2
  <2>4. Max(known) \in DOMAIN For(os)
    <3> HIDE DEF known
    <3> QED
      BY <1>2, <2>2, <2>3, LastPosition
  <2>5. last \in Entries
    BY <2>2, <2>4
  <2> HIDE DEF last
  <2>6. last.track \in {"A", "B"} /\ last.chip \in STRING /\ last.ca \in STRING
    BY <2>5 DEF Entries
  <2>7. Hint(last) \in Hints
    BY <2>6, Zenon DEF Hint, Hints
  <2> QED
    BY <2>1, <2>6, <2>7
<1> QED
  BY <1>1, <1>2

LEMMA ClassifiedType ==
    ASSUME NEW os \in Systems, NEW names \in Seq(Names), NEW t \in 1 .. 3, NEW source \in Sources
    PROVE  Classified(os, names, t, source) \in Seq(Candidates(t))
<1>1. Len(names) \in Nat /\ DOMAIN names = 1 .. Len(names) /\ \A i \in DOMAIN names : names[i] \in Names
  BY Positions
<1> DEFINE c == Classified(os, names, t, source)
<1>2. c = [i \in 1 .. Len(names) |-> c[i]]
  BY <1>1 DEF Classified
<1>3. \A i \in 1 .. Len(names) : c[i] \in Candidates(t)
  <2> SUFFICES ASSUME NEW i \in 1 .. Len(names) PROVE c[i] \in Candidates(t)
    OBVIOUS
  <2>1. Real[names[i]] \in Files
    BY <1>1, DiscoveryAssumption
  <2>2. Indexed(os, names[i]).track \in {"A", "B"} /\ Indexed(os, names[i]).hint \in Hints
    BY IndexedType
  <2>3. c[i] = Said(Real[names[i]], t, source, Indexed(os, names[i]).track,
                    Indexed(os, names[i]).hint, 98, "confirmed")
    BY <1>1 DEF Classified
  <2>4. t \in 1 .. 4 /\ 98 \in 0 .. 100
    OBVIOUS
  <2> HIDE DEF c
  <2> QED
    BY <2>1, <2>2, <2>3, <2>4 DEF Said, Candidates
<1> HIDE DEF c
<1>4. c \in Seq(Candidates(t))
  BY <1>1, <1>2, <1>3, IsASeq
<1> QED
  BY <1>4 DEF c

LEMMA ByIntelType ==
    ASSUME NEW os \in Systems
    PROVE  ByIntel(os) \in Seq(Candidates(3))
<1> DEFINE Good == {e \in Entries : Accepted(e)}
           of(e) == [j \in DOMAIN e.names |->
                       Said(Real[e.names[j]], 3, "vendor_intel", e.track, Hint(e), Score(e), e.confidence)]
           all == [i \in DOMAIN For(os) |-> of(For(os)[i])]
<1>1. Len(For(os)) \in Nat /\ DOMAIN For(os) = 1 .. Len(For(os)) /\ \A i \in DOMAIN For(os) : For(os)[i] \in Good
  <2>1. For(os) \in Seq(Good)
    BY IntelType
  <2> HIDE DEF Good
  <2> QED
    BY <2>1, Positions
<1>2. ASSUME NEW e \in Good PROVE of(e) \in Seq(Candidates(3))
  <2>1. e \in Entries /\ Accepted(e)
    OBVIOUS
  <2>2. e.names \in Seq(Names)
    BY <2>1 DEF Entries
  <2>3. /\ Len(e.names) \in Nat /\ DOMAIN e.names = 1 .. Len(e.names)
        /\ \A j \in DOMAIN e.names : e.names[j] \in Names
    BY <2>2, Positions
  <2>4. ASSUME NEW j \in 1 .. Len(e.names) PROVE of(e)[j] \in Candidates(3)
    <3>1. e.names # <<>>
      BY <2>3
    <3>2. e.confidence \in {"confirmed", "documented"}
      BY <2>1, <3>1 DEF Entries, Accepted
    <3>3. Score(e) \in 0 .. 100
      BY <3>2 DEF Score
    <3>4. Real[e.names[j]] \in Files
      BY <2>3, DiscoveryAssumption
    <3>5. e.track \in {"A", "B"} /\ Hint(e) \in Hints
      <4>1. e.track \in {"A", "B"} /\ e.chip \in STRING /\ e.ca \in STRING
        BY <2>1 DEF Entries
      <4> QED
        BY <4>1, Zenon DEF Hint, Hints
    <3>6. of(e)[j] = Said(Real[e.names[j]], 3, "vendor_intel", e.track, Hint(e), Score(e), e.confidence)
      BY <2>3
    <3>7. 3 \in 1 .. 4 /\ "vendor_intel" \in Sources
      BY DEF Sources
    <3> HIDE DEF of
    <3> QED
      BY <3>2, <3>3, <3>4, <3>5, <3>6, <3>7 DEF Said, Candidates
  <2>5. of(e) = [j \in 1 .. Len(e.names) |-> of(e)[j]]
    BY <2>3
  <2> HIDE DEF of, Good
  <2> QED
    BY <2>3, <2>4, <2>5, IsASeq
<1> HIDE DEF of, Good
<1>3. \A i \in 1 .. Len(For(os)) : all[i] \in Seq(Candidates(3))
  BY <1>1, <1>2
<1>4. all = [i \in 1 .. Len(For(os)) |-> all[i]]
  BY <1>1
<1>5. ByIntel(os) = FlattenSeq(all)
  BY DEF ByIntel, of
<1> HIDE DEF all
<1> QED
  BY <1>1, <1>3, <1>4, <1>5, FlattenMapped

\* What the first three tiers say has the form of a candidate; no label is a guess.
LEMMA TiersType ==
    ASSUME NEW os \in Systems, NEW t \in 1 .. 3
    PROVE  Tiers[os][t] \in Seq(Candidates(t))
<1>1. /\ Classified(os, FromSystem(os, Software), 1, "system") \in Seq(Candidates(1))
      /\ Classified(os, FromUser(os, Configured), 2, "user_config") \in Seq(Candidates(2))
  BY NamesType, ClassifiedType DEF Sources
<1>2. ByIntel(os) \in Seq(Candidates(3))
  BY ByIntelType
<1> QED
  BY <1>1, <1>2 DEF Tiers

LEMMA TierEntries ==
    ASSUME NEW os \in Systems, NEW t \in 1 .. 3
    PROVE  /\ Len(Tiers[os][t]) \in Nat /\ DOMAIN Tiers[os][t] = 1 .. Len(Tiers[os][t])
           /\ \A i \in DOMAIN Tiers[os][t] : Tiers[os][t][i] \in Candidates(t)
BY TiersType, Positions

\* Places in a tier's list are numbers.
LEMMA TierPlaces ==
    ASSUME NEW os \in Systems, NEW t \in 1 .. 3, NEW i \in DOMAIN Tiers[os][t]
    PROVE  i \in Nat
<1> DEFINE l == Tiers[os][t]
<1>1. Len(l) \in Nat /\ DOMAIN l = 1 .. Len(l) /\ i \in DOMAIN l
  BY TierEntries
<1> HIDE DEF l
<1>2. i \in 1 .. Len(l)
  BY <1>1
<1> QED
  BY <1>1, <1>2

-----------------------------------------------------------------------------
(* Records *)

Records ==
    [file : Files, tier : 1 .. 4, source : Sources, track : {"A", "B"}, hint : Hints,
     confidence : 0 .. 100, label : {"confirmed", "documented"}, validated : BOOLEAN, bridge : BOOLEAN]

LEMMA CandidateIsRecord ==
    ASSUME NEW t \in 1 .. 4
    PROVE  Candidates(t) \subseteq Records
BY DEF Candidates, Records

LEMMA ProbedType ==
    ASSUME NEW file \in Files
    PROVE  /\ Probed(file) \in Candidates(4)
           /\ Probed(file).file = file /\ Probed(file).tier = 4 /\ Probed(file).validated
<1>1. NoHint \in Hints /\ "glob_probe" \in Sources /\ "B" \in {"A", "B"}
  BY Zenon DEF Hints, Sources
<1>2. "confirmed" \in {"confirmed", "documented"} /\ 95 \in 0 .. 100 /\ 4 \in 1 .. 4
  OBVIOUS
<1> QED
  BY <1>1, <1>2 DEF Said, Probed, Candidates

LEMMA AmendedIsRecord ==
    ASSUME NEW r \in Records, NEW c \in 0 .. 100, NEW h \in Hints, NEW v \in BOOLEAN
    PROVE  [r EXCEPT !.confidence = c, !.hint = h, !.validated = v] \in Records
BY DEF Records

\* What add() makes of two names of one file: the earlier tier says what the library is,
\* the better confidence and the first hint stay.
LEMMA MergedRight ==
    ASSUME NEW old \in Records, NEW new \in Records, old.file = new.file
    PROVE  LET m == Merged(old, new) IN
           /\ m \in Records /\ m.file = old.file
           /\ old.tier <= new.tier =>
                 m.tier = old.tier /\ m.source = old.source /\ m.track = old.track /\ m.label = old.label
           /\ m.tier <= old.tier /\ m.tier <= new.tier /\ m.tier \in {old.tier, new.tier}
           /\ m.confidence \in {old.confidence, new.confidence}
           /\ old.confidence <= m.confidence /\ new.confidence <= m.confidence
           /\ (m.hint = NoHint) <=> (old.hint = NoHint /\ new.hint = NoHint)
           /\ m.validated <=> (old.validated \/ new.validated)
<1> DEFINE first == IF new.tier < old.tier THEN new ELSE old
           m == Merged(old, new)
<1>1. first \in Records /\ first.file = old.file
  OBVIOUS
<1>2. m = [first EXCEPT !.confidence = IF new.confidence > old.confidence THEN new.confidence
                                       ELSE old.confidence,
                        !.hint = IF old.hint = NoHint THEN new.hint ELSE old.hint,
                        !.validated = old.validated \/ new.validated]
  BY DEF Merged
<1>3. /\ old.tier \in 1 .. 4 /\ new.tier \in 1 .. 4
      /\ old.confidence \in 0 .. 100 /\ new.confidence \in 0 .. 100
      /\ old.hint \in Hints /\ new.hint \in Hints
      /\ old.validated \in BOOLEAN /\ new.validated \in BOOLEAN
  BY DEF Records
<1>4. (old.tier <= new.tier => first = old) /\ (~(old.tier <= new.tier) => first = new)
  BY <1>3
<1> HIDE DEF first, m
<1>5. /\ m.file = first.file /\ m.tier = first.tier /\ m.source = first.source
      /\ m.track = first.track /\ m.label = first.label /\ m.bridge = first.bridge
      /\ m.confidence = IF new.confidence > old.confidence THEN new.confidence ELSE old.confidence
      /\ m.hint = IF old.hint = NoHint THEN new.hint ELSE old.hint
      /\ m.validated <=> (old.validated \/ new.validated)
  BY <1>1, <1>2 DEF Records
<1>6. m \in Records
  <2> DEFINE c == IF new.confidence > old.confidence THEN new.confidence ELSE old.confidence
             h == IF old.hint = NoHint THEN new.hint ELSE old.hint
             v == old.validated \/ new.validated
  <2>1. c \in 0 .. 100 /\ h \in Hints /\ v \in BOOLEAN
    BY <1>3
  <2>2. m = [first EXCEPT !.confidence = c, !.hint = h, !.validated = v]
    BY <1>2
  <2> HIDE DEF c, h, v
  <2> QED
    BY <1>1, <2>1, <2>2, AmendedIsRecord
<1>7. old.tier <= new.tier =>
         m.tier = old.tier /\ m.source = old.source /\ m.track = old.track /\ m.label = old.label
  BY <1>4, <1>5
<1>8. m.tier <= old.tier /\ m.tier <= new.tier /\ m.tier \in {old.tier, new.tier}
  <2> DEFINE x == old.tier
             y == new.tier
  <2>1. (x <= y => m.tier = x) /\ (~(x <= y) => m.tier = y)
    BY <1>4, <1>5
  <2>2. x \in 1 .. 4 /\ y \in 1 .. 4
    BY <1>3
  <2> HIDE DEF x, y
  <2>3. m.tier <= x /\ m.tier <= y /\ m.tier \in {x, y}
    BY <2>1, <2>2
  <2> QED
    BY <2>3 DEF x, y
<1>9. /\ m.confidence \in {old.confidence, new.confidence}
      /\ old.confidence <= m.confidence /\ new.confidence <= m.confidence
  <2> DEFINE x == old.confidence
             y == new.confidence
  <2>1. m.confidence = IF y > x THEN y ELSE x
    BY <1>5
  <2>2. x \in 0 .. 100 /\ y \in 0 .. 100
    BY <1>3
  <2> HIDE DEF x, y
  <2>3. m.confidence \in {x, y} /\ x <= m.confidence /\ y <= m.confidence
    BY <2>1, <2>2
  <2> QED
    BY <2>3 DEF x, y
<1>10. (m.hint = NoHint) <=> (old.hint = NoHint /\ new.hint = NoHint)
  BY <1>5
<1>11. m.file = old.file /\ (m.validated <=> (old.validated \/ new.validated))
  BY <1>1, <1>5
<1> QED
  BY <1>6, <1>7, <1>8, <1>9, <1>10, <1>11, Zenon DEF m

-----------------------------------------------------------------------------
(* What a scan has found, against what it has heard *)

\* Said by the tiers before t, or by t before n.
Heard(os, t, n, s) ==
    \E u \in 1 .. 3 : \E i \in DOMAIN Tiers[os][u] :
        s = Tiers[os][u][i] /\ (u < t \/ (u = t /\ i < n))

\* What a record rests on.
About(os, t, n, c, s) == s.file = c.file /\ (Heard(os, t, n, s) \/ (c.tier = 4 /\ s = Probed(c.file)))

Faithful(os, t, n, c) ==
    /\ \E s : /\ About(os, t, n, c, s)
             /\ s.tier = c.tier /\ s.source = c.source /\ s.track = c.track /\ s.label = c.label
    /\ \A s : About(os, t, n, c, s) => c.tier <= s.tier /\ s.confidence <= c.confidence
    /\ (c.hint = NoHint) <=> (\A s : About(os, t, n, c, s) => s.hint = NoHint)

\* The records of a scan that stands at n in tier t, with the files that were there
\* always and ever.
Right(os, t, n, found, always, ever) ==
    /\ \A i, j \in DOMAIN found : i # j => found[i].file # found[j].file
    /\ \A i \in DOMAIN found :
          /\ found[i].tier <= t /\ (found[i].tier = 4 => found[i].validated)
          /\ found[i].file \in ever
          /\ found[i].file \in always => Faithful(os, t, n, found[i])
    /\ \A s : Heard(os, t, n, s) /\ s.file \in always => \E i \in DOMAIN found : found[i].file = s.file

LEMMA HeardType ==
    ASSUME NEW os \in Systems, NEW t, NEW n, NEW s, Heard(os, t, n, s)
    PROVE  s \in Records /\ s.tier \in 1 .. 3 /\ (t \in Nat => s.tier <= t)
<1>1. PICK u, i : u \in 1 .. 3 /\ i \in DOMAIN Tiers[os][u] /\ s = Tiers[os][u][i] /\ (u < t \/ (u = t /\ i < n))
  BY DEF Heard
<1>2. s \in Candidates(u)
  BY <1>1, TierEntries
<1>3. s \in Records
  <2>1. u \in 1 .. 4
    BY <1>1
  <2> QED
    BY <1>2, <2>1, CandidateIsRecord
<1>4. s.tier = u
  BY <1>2 DEF Candidates
<1> QED
  BY <1>1, <1>3, <1>4

\* The next name is heard, and nothing else.
LEMMA HearNext ==
    ASSUME NEW os \in Systems, NEW t \in 1 .. 3, NEW n \in DOMAIN Tiers[os][t], NEW s
    PROVE  Heard(os, t, n + 1, s) <=> Heard(os, t, n, s) \/ s = Tiers[os][t][n]
<1>1. \A u \in 1 .. 3 : \A i \in DOMAIN Tiers[os][u] : i \in Nat
  BY TierPlaces, Zenon
<1>2. n \in Nat
  BY TierPlaces, Zenon
<1>3. ASSUME Heard(os, t, n + 1, s) PROVE Heard(os, t, n, s) \/ s = Tiers[os][t][n]
  <2>1. PICK u, i : u \in 1 .. 3 /\ i \in DOMAIN Tiers[os][u] /\ s = Tiers[os][u][i] /\ (u < t \/ (u = t /\ i < n + 1))
    BY <1>3 DEF Heard
  <2>2. u < t \/ (u = t /\ i < n) \/ (u = t /\ i = n)
    BY <1>1, <1>2, <2>1
  <2> QED
    BY <2>1, <2>2 DEF Heard
<1>4. ASSUME Heard(os, t, n, s) PROVE Heard(os, t, n + 1, s)
  <2>1. PICK u, i : u \in 1 .. 3 /\ i \in DOMAIN Tiers[os][u] /\ s = Tiers[os][u][i] /\ (u < t \/ (u = t /\ i < n))
    BY <1>4 DEF Heard
  <2>2. u < t \/ (u = t /\ i < n + 1)
    BY <1>1, <1>2, <2>1
  <2> QED
    BY <2>1, <2>2 DEF Heard
<1>5. Heard(os, t, n + 1, Tiers[os][t][n])
  <2>1. n < n + 1
    BY <1>2
  <2> QED
    BY <2>1 DEF Heard
<1> QED
  BY <1>3, <1>4, <1>5

\* At the end of a tier the next one begins.
LEMMA HearTier ==
    ASSUME NEW os \in Systems, NEW t \in 1 .. 3, NEW n \in Nat, n > Len(Tiers[os][t]), NEW s
    PROVE  Heard(os, t + 1, 1, s) <=> Heard(os, t, n, s)
<1>1. \A u \in 1 .. 3 : DOMAIN Tiers[os][u] = 1 .. Len(Tiers[os][u]) /\ Len(Tiers[os][u]) \in Nat
  BY TierEntries
<1>2. \A u \in 1 .. 3 : \A i \in DOMAIN Tiers[os][u] :
          (u < t + 1 \/ (u = t + 1 /\ i < 1)) <=> (u < t \/ (u = t /\ i < n))
  BY <1>1
<1> QED
  BY <1>2 DEF Heard

\* A scan that has begun has heard nothing.
LEMMA HearNothing ==
    ASSUME NEW os \in Systems, NEW s
    PROVE  ~ Heard(os, 1, 1, s)
<1>1. \A u \in 1 .. 3 : DOMAIN Tiers[os][u] = 1 .. Len(Tiers[os][u]) /\ Len(Tiers[os][u]) \in Nat
  BY TierEntries
<1> QED
  BY <1>1 DEF Heard

\* What is said of one file changes nothing for another.
LEMMA OthersStay ==
    ASSUME NEW os \in Systems, NEW t \in 1 .. 3, NEW n \in DOMAIN Tiers[os][t],
           NEW c, c.file # Tiers[os][t][n].file, Faithful(os, t, n, c)
    PROVE  Faithful(os, t, n + 1, c)
<1>1. \A x : About(os, t, n + 1, c, x) <=> About(os, t, n, c, x)
  BY HearNext DEF About
<1> QED
  BY <1>1 DEF Faithful

LEMMA MergeStaysFaithful ==
    ASSUME NEW os \in Systems, NEW t \in 1 .. 3, NEW n \in DOMAIN Tiers[os][t],
           NEW c \in Records, c.file = Tiers[os][t][n].file, c.tier <= t, Faithful(os, t, n, c)
    PROVE  Faithful(os, t, n + 1, Merged(c, Tiers[os][t][n]))
<1> DEFINE s == Tiers[os][t][n]
           m == Merged(c, s)
<1>1. s \in Records /\ s.tier = t /\ c.file = s.file /\ c.tier <= s.tier
  <2>1. s \in Candidates(t)
    BY TierEntries
  <2>2. t \in 1 .. 4
    OBVIOUS
  <2>3. s \in Records
    BY <2>1, <2>2, CandidateIsRecord
  <2> QED
    BY <2>1, <2>3 DEF Candidates
<1>2. /\ m \in Records /\ m.file = c.file
      /\ m.tier = c.tier /\ m.source = c.source /\ m.track = c.track /\ m.label = c.label
      /\ m.tier <= s.tier /\ c.confidence <= m.confidence /\ s.confidence <= m.confidence
      /\ (m.hint = NoHint) <=> (c.hint = NoHint /\ s.hint = NoHint)
  <2> HIDE DEF s
  <2> QED
    BY <1>1, MergedRight
<1>3. \A x : About(os, t, n + 1, m, x) <=> About(os, t, n, c, x) \/ x = s
  <2>1. c.tier # 4
    BY DEF Records
  <2> HIDE DEF m
  <2> QED
    BY <1>2, <2>1, HearNext DEF About
<1>4. \A x : About(os, t, n, c, x) => x.confidence \in 0 .. 100
  <2>1. c.tier # 4
    BY DEF Records
  <2>2. \A x : About(os, t, n, c, x) => x \in Records
    BY <2>1, HeardType DEF About
  <2> QED
    BY <2>2 DEF Records
<1>5. c.confidence \in 0 .. 100 /\ m.confidence \in 0 .. 100
  <2> HIDE DEF m
  <2> QED
    BY <1>2 DEF Records
<1> HIDE DEF m, s
<1>6. \E x : /\ About(os, t, n + 1, m, x)
            /\ x.tier = m.tier /\ x.source = m.source /\ x.track = m.track /\ x.label = m.label
  BY <1>2, <1>3 DEF Faithful
<1>7. \A x : About(os, t, n + 1, m, x) => m.tier <= x.tier /\ x.confidence <= m.confidence
  <2> SUFFICES ASSUME NEW x, About(os, t, n + 1, m, x) PROVE m.tier <= x.tier /\ x.confidence <= m.confidence
    OBVIOUS
  <2>1. CASE x = s
    BY <1>2, <2>1
  <2>2. CASE About(os, t, n, c, x)
    <3>1. c.tier <= x.tier /\ x.confidence <= c.confidence
      BY <2>2 DEF Faithful
    <3>2. x.confidence \in 0 .. 100
      BY <1>4, <2>2
    <3>3. m.tier <= x.tier
      BY <1>2, <3>1
    <3>4. x.confidence <= m.confidence
      <4>1. c.confidence <= m.confidence
        BY <1>2
      <4>2. \A i, j, k \in 0 .. 100 : i <= j /\ j <= k => i <= k
        OBVIOUS
      <4> QED
        BY <1>5, <3>1, <3>2, <4>1, <4>2
    <3> QED
      BY <3>3, <3>4
  <2> QED
    BY <1>3, <2>1, <2>2
<1>8. (m.hint = NoHint) <=> (\A x : About(os, t, n + 1, m, x) => x.hint = NoHint)
  <2>1. (c.hint = NoHint) <=> (\A x : About(os, t, n, c, x) => x.hint = NoHint)
    BY DEF Faithful
  <2> QED
    BY <1>2, <1>3, <2>1
<1> QED
  BY <1>6, <1>7, <1>8, Zenon DEF Faithful, m, s

\* A name looked up leaves the records right.
LEMMA LookedUp ==
    ASSUME NEW os \in Systems, NEW t \in 1 .. 3, NEW n \in DOMAIN Tiers[os][t],
           NEW found \in Seq(Records), NEW always, NEW ever, always \subseteq files, files \subseteq ever,
           Right(os, t, n, found, always, ever)
    PROVE  LET now == Collect(found, Tiers[os][t][n]) IN
           now \in Seq(Records) /\ Right(os, t, n + 1, now, always, ever)
<1> DEFINE s == Tiers[os][t][n]
           now == Collect(found, s)
<1>0. n \in Nat
  BY TierPlaces, Zenon
<1>1. s \in Records /\ s.tier = t /\ t # 4
  <2>1. s \in Candidates(t)
    BY TierEntries
  <2>2. t \in 1 .. 4
    OBVIOUS
  <2>3. s \in Records
    BY <2>1, <2>2, CandidateIsRecord
  <2>4. t # 4
    OBVIOUS
  <2> HIDE DEF s
  <2>5. s.tier = t
    BY <2>1 DEF Candidates
  <2> QED
    BY <2>3, <2>4, <2>5
<1>2. /\ Len(found) \in Nat /\ DOMAIN found = 1 .. Len(found)
      /\ \A i \in DOMAIN found : found[i] \in Records
  BY Positions
<1>3. /\ \A i, j \in DOMAIN found : i # j => found[i].file # found[j].file
      /\ \A i \in DOMAIN found :
            /\ found[i].tier <= t /\ (found[i].tier = 4 => found[i].validated)
            /\ found[i].file \in ever
            /\ found[i].file \in always => Faithful(os, t, n, found[i])
      /\ \A x : Heard(os, t, n, x) /\ x.file \in always => \E i \in DOMAIN found : found[i].file = x.file
  BY DEF Right
<1>4. \A x : Heard(os, t, n + 1, x) <=> Heard(os, t, n, x) \/ x = s
  BY HearNext
<1>5. \A c : c.file # s.file /\ Faithful(os, t, n, c) => Faithful(os, t, n + 1, c)
  BY OthersStay
<1>6. CASE s.file \notin files
  <2>1. now = found
    BY <1>6 DEF Collect
  <2>2. s.file \notin always
    BY <1>6
  <2> HIDE DEF s, now
  <2>3. \A i \in DOMAIN found : found[i].file \in always => Faithful(os, t, n + 1, found[i])
    BY <1>3, <1>5, <2>2
  <2>4. \A x : Heard(os, t, n + 1, x) /\ x.file \in always => \E i \in DOMAIN found : found[i].file = x.file
    BY <1>3, <1>4, <2>2
  <2>5. Right(os, t, n + 1, found, always, ever)
    BY <1>3, <2>3, <2>4 DEF Right
  <2> QED
    BY <2>1, <2>5 DEF now, s
<1>7. CASE s.file \in files /\ \E k \in DOMAIN found : found[k].file = s.file
  <2>1. PICK k \in DOMAIN found : found[k].file = s.file
    BY <1>7
  <2> DEFINE m == Merged(found[k], s)
  <2>2. now = [i \in DOMAIN found |-> IF found[i].file = s.file THEN Merged(found[i], s) ELSE found[i]]
    BY <1>7 DEF Collect
  <2>3. \A i \in DOMAIN found : (i = k => found[i].file = s.file) /\ (i # k => found[i].file # s.file)
    BY <1>3, <2>1
  <2>4. /\ m \in Records /\ m.file = found[k].file /\ m.tier = found[k].tier
        /\ m.validated <=> (found[k].validated \/ s.validated)
    <3>1. found[k] \in Records /\ found[k].tier <= s.tier
      BY <1>1, <1>2, <1>3
    <3> HIDE DEF s
    <3> QED
      BY <1>1, <2>1, <3>1, MergedRight
  <2>5. found[k].file \in always => Faithful(os, t, n + 1, m)
    BY <1>2, <1>3, <2>1, MergeStaysFaithful
  <2> HIDE DEF now, s, m
  <2>6. /\ DOMAIN now = DOMAIN found
        /\ \A i \in DOMAIN found : now[i] = IF i = k THEN m ELSE found[i]
    BY <2>2, <2>3 DEF m
  <2>7. \A i \in DOMAIN found : now[i] \in Records /\ now[i].file = found[i].file /\ now[i].tier = found[i].tier
    BY <1>2, <2>4, <2>6
  <2>8. now \in Seq(Records)
    <3>1. now = [i \in 1 .. Len(found) |-> now[i]]
      BY <1>2, <2>2, <2>6
    <3> QED
      BY <1>2, <2>7, <3>1, IsASeq
  <2>9. \A i \in DOMAIN now :
          /\ now[i].tier <= t /\ (now[i].tier = 4 => now[i].validated)
          /\ now[i].file \in ever
    BY <1>3, <2>1, <2>4, <2>6, <2>7
  <2>10. \A i \in DOMAIN now : now[i].file \in always => Faithful(os, t, n + 1, now[i])
    BY <1>3, <1>5, <2>3, <2>5, <2>6, <2>7
  <2>11. \A x : Heard(os, t, n + 1, x) /\ x.file \in always => \E i \in DOMAIN now : now[i].file = x.file
    BY <1>3, <1>4, <2>1, <2>6, <2>7
  <2>12. \A i, j \in DOMAIN now : i # j => now[i].file # now[j].file
    BY <1>3, <2>6, <2>7
  <2>13. Right(os, t, n + 1, now, always, ever)
    BY <2>9, <2>10, <2>11, <2>12 DEF Right
  <2> QED
    BY <2>8, <2>13 DEF now, s
<1>8. CASE s.file \in files /\ \A k \in DOMAIN found : found[k].file # s.file
  <2>1. now = Append(found, s)
    BY <1>8 DEF Collect
  <2> DEFINE l == Len(found) + 1
  <2>2. s.file \in always => Faithful(os, t, n + 1, s)
    <3> SUFFICES ASSUME s.file \in always PROVE Faithful(os, t, n + 1, s)
      OBVIOUS
    <3> HIDE DEF s
    <3>1. \A x : About(os, t, n + 1, s, x) <=> x = s
      BY <1>1, <1>3, <1>4, <1>8 DEF About
    <3>2. s.tier <= s.tier /\ s.confidence <= s.confidence
      <4>1. s.tier \in 0 .. 100 /\ s.confidence \in 0 .. 100
        BY <1>1 DEF Records
      <4>2. \A i \in 0 .. 100 : i <= i
        OBVIOUS
      <4> QED
        BY <4>1, <4>2, Zenon
    <3> QED
      BY <3>1, <3>2 DEF Faithful
  <2> HIDE DEF now, s
  <2>3. /\ now \in Seq(Records) /\ DOMAIN now = 1 .. l /\ l \in DOMAIN now /\ now[l] = s
        /\ \A i \in DOMAIN found : i \in DOMAIN now /\ i # l /\ now[i] = found[i]
        /\ \A i \in DOMAIN now : i # l => i \in DOMAIN found
    BY <1>1, <1>2, <2>1, AppendProperties
  <2> HIDE DEF l
  <2>4. \A i \in DOMAIN now :
          /\ now[i].tier <= t /\ (now[i].tier = 4 => now[i].validated)
          /\ now[i].file \in ever
    <3> SUFFICES ASSUME NEW i \in DOMAIN now
                 PROVE  /\ now[i].tier <= t /\ (now[i].tier = 4 => now[i].validated)
                        /\ now[i].file \in ever
      OBVIOUS
    <3>1. CASE i = l
      BY <1>1, <1>8, <2>3, <3>1
    <3>2. CASE i # l
      BY <1>3, <2>3, <3>2
    <3> QED
      BY <3>1, <3>2
  <2>5. \A i \in DOMAIN now : now[i].file \in always => Faithful(os, t, n + 1, now[i])
    BY <1>3, <1>5, <1>8, <2>2, <2>3
  <2>6. \A x : Heard(os, t, n + 1, x) /\ x.file \in always => \E i \in DOMAIN now : now[i].file = x.file
    BY <1>3, <1>4, <2>3
  <2>7. \A i, j \in DOMAIN now : i # j => now[i].file # now[j].file
    BY <1>3, <1>8, <2>3
  <2>8. Right(os, t, n + 1, now, always, ever)
    BY <2>4, <2>5, <2>6, <2>7 DEF Right
  <2> QED
    BY <2>3, <2>8 DEF now, s
<1> QED
  BY <1>6, <1>7, <1>8

\* A scan that begins has nothing to answer for.
LEMMA NothingFound ==
    ASSUME NEW os \in Systems, NEW always, NEW ever
    PROVE  <<>> \in Seq(Records) /\ Right(os, 1, 1, <<>>, always, ever)
BY HearNothing DEF Right

\* The end of a tier changes nothing.
LEMMA TierEnds ==
    ASSUME NEW os \in Systems, NEW t \in 1 .. 3, NEW n \in Nat, n > Len(Tiers[os][t]),
           NEW found \in Seq(Records), NEW always, NEW ever, Right(os, t, n, found, always, ever)
    PROVE  Right(os, t + 1, 1, found, always, ever)
<1>1. \A s : Heard(os, t + 1, 1, s) <=> Heard(os, t, n, s)
  BY HearTier
<1>2. \A c, s : About(os, t + 1, 1, c, s) <=> About(os, t, n, c, s)
  BY <1>1 DEF About
<1>3. \A c : Faithful(os, t + 1, 1, c) <=> Faithful(os, t, n, c)
  BY <1>2 DEF Faithful
<1>4. \A i \in DOMAIN found : found[i].tier <= t => found[i].tier <= t + 1
  <2>1. \A i \in DOMAIN found : found[i].tier \in 1 .. 4
    <3>1. \A i \in DOMAIN found : found[i] \in Records
      BY Positions
    <3> QED
      BY <3>1 DEF Records
  <2> QED
    BY <2>1
<1> QED
  BY <1>1, <1>3, <1>4 DEF Right

\* Nor does a file that comes or goes.
LEMMA FilesCome ==
    ASSUME NEW os, NEW t, NEW n, NEW found, NEW always, NEW ever, NEW always2, NEW ever2,
           always2 \subseteq always, ever \subseteq ever2, Right(os, t, n, found, always, ever)
    PROVE  Right(os, t, n, found, always2, ever2)
BY DEF Right

\* A file that a probe found, and no tier had named.
LEMMA ProbeRight ==
    ASSUME NEW os \in Systems, NEW n, NEW found \in Seq(Records), NEW file \in Files,
           NEW always, NEW ever, always \subseteq files, files \subseteq ever,
           file \notin Listed(found), Right(os, 4, n, found, always, ever)
    PROVE  LET now == Collect(found, Probed(file)) IN
           /\ now \in Seq(Records) /\ Right(os, 4, n, now, always, ever)
           /\ Listed(found) \subseteq Listed(now) /\ Listed(now) \subseteq Listed(found) \cup {file}
           /\ file \in files => file \in Listed(now)
<1> DEFINE s == Probed(file)
           now == Collect(found, s)
<1>0. \A i \in DOMAIN found : found[i].file # file
  BY DEF Listed
<1>1. s \in Records /\ s.file = file /\ s.tier = 4 /\ s.validated
  <2>1. 4 \in 1 .. 4
    OBVIOUS
  <2> QED
    BY <2>1, ProbedType, CandidateIsRecord
<1>2. /\ Len(found) \in Nat /\ DOMAIN found = 1 .. Len(found)
      /\ \A i \in DOMAIN found : found[i] \in Records
  BY Positions
<1>3. CASE file \notin files
  <2>1. now = found
    BY <1>1, <1>3 DEF Collect
  <2> HIDE DEF now
  <2> QED
    BY <1>3, <2>1 DEF now, s
<1>4. CASE file \in files
  <2>1. now = Append(found, s)
    BY <1>0, <1>1, <1>4 DEF Collect
  <2> DEFINE l == Len(found) + 1
  <2> HIDE DEF now, s
  <2>2. /\ now \in Seq(Records) /\ DOMAIN now = 1 .. l /\ l \in DOMAIN now /\ now[l] = s
        /\ \A i \in DOMAIN found : i \in DOMAIN now /\ i # l /\ now[i] = found[i]
        /\ \A i \in DOMAIN now : i # l => i \in DOMAIN found
    BY <1>1, <1>2, <2>1, AppendProperties
  <2> HIDE DEF l
  <2>3. /\ \A i, j \in DOMAIN found : i # j => found[i].file # found[j].file
        /\ \A i \in DOMAIN found :
              /\ found[i].tier <= 4 /\ (found[i].tier = 4 => found[i].validated)
              /\ found[i].file \in ever
              /\ found[i].file \in always => Faithful(os, 4, n, found[i])
        /\ \A x : Heard(os, 4, n, x) /\ x.file \in always => \E i \in DOMAIN found : found[i].file = x.file
    BY DEF Right
  <2>4. file \in always => Faithful(os, 4, n, s)
    <3> SUFFICES ASSUME file \in always PROVE Faithful(os, 4, n, s)
      OBVIOUS
    <3>1. \A x : About(os, 4, n, s, x) <=> x = s
      BY <1>0, <1>1, <2>3 DEF About, s
    <3>2. s.tier <= s.tier /\ s.confidence <= s.confidence
      <4>1. s.tier \in 0 .. 100 /\ s.confidence \in 0 .. 100
        BY <1>1 DEF Records
      <4>2. \A i \in 0 .. 100 : i <= i
        OBVIOUS
      <4> QED
        BY <4>1, <4>2, Zenon
    <3> QED
      BY <3>1, <3>2 DEF Faithful
  <2>5. \A i \in DOMAIN now :
          /\ now[i].tier <= 4 /\ (now[i].tier = 4 => now[i].validated)
          /\ now[i].file \in ever
    <3> SUFFICES ASSUME NEW i \in DOMAIN now
                 PROVE  /\ now[i].tier <= 4 /\ (now[i].tier = 4 => now[i].validated)
                        /\ now[i].file \in ever
      OBVIOUS
    <3>1. CASE i = l
      BY <1>1, <1>4, <2>2, <3>1
    <3>2. CASE i # l
      BY <2>2, <2>3, <3>2
    <3> QED
      BY <3>1, <3>2
  <2>6. \A i \in DOMAIN now : now[i].file \in always => Faithful(os, 4, n, now[i])
    BY <1>1, <2>2, <2>3, <2>4
  <2>7. \A x : Heard(os, 4, n, x) /\ x.file \in always => \E i \in DOMAIN now : now[i].file = x.file
    BY <2>2, <2>3
  <2>8. \A i, j \in DOMAIN now : i # j => now[i].file # now[j].file
    BY <1>0, <1>1, <2>2, <2>3
  <2>9. Right(os, 4, n, now, always, ever)
    BY <2>5, <2>6, <2>7, <2>8 DEF Right
  <2>10. Listed(now) = Listed(found) \cup {file}
    BY <1>1, <2>2 DEF Listed
  <2> QED
    BY <1>4, <2>2, <2>9, <2>10 DEF now, s
<1> QED
  BY <1>3, <1>4

LEMMA ProbedRecords ==
    ASSUME NEW found \in Seq(Records), NEW file \in Files, file \notin Listed(found)
    PROVE  Collect(found, Probed(file)) \in Seq(Records)
<1>1. \A i \in DOMAIN found : found[i].file # file
  BY DEF Listed
<1>2. Probed(file).file = file /\ Probed(file) \in Records
  <2>1. 4 \in 1 .. 4
    OBVIOUS
  <2> QED
    BY <2>1, ProbedType, CandidateIsRecord
<1>3. Collect(found, Probed(file)) = found \/ Collect(found, Probed(file)) = Append(found, Probed(file))
  BY <1>1, <1>2 DEF Collect
<1> QED
  BY <1>2, <1>3, AppendProperties

\* needs_arch_bridge() flags nothing the daemon can load, and away from macOS every library
\* of one architecture that it cannot.
LEMMA FlagIsRight ==
    ASSUME NEW h \in Hosts, NEW slices \in SUBSET Arches
    PROVE  /\ NeedsBridge(h, slices) => slices # {} /\ ~Loads(h.arch, slices)
           /\ ~NeedsBridge(h, slices) /\ ~Loads(h.arch, slices) =>
                 Cardinality(slices) # 1 \/ h.os = "macos"
<1> DEFINE a == CHOOSE arch \in slices : TRUE
<1>1. h.arch \in Arches
  BY DEF Hosts
<1>2. IsFiniteSet(slices)
  <2>1. \A e : IsFiniteSet({e})
    BY FS_Singleton
  <2>2. Arches = (({"x86_64"} \cup {"x86_32"}) \cup {"arm64"}) \cup {"arm_32"}
    BY DEF Arches
  <2>3. IsFiniteSet(Arches)
    BY <2>1, <2>2, FS_Union
  <2> QED
    BY <2>3, FS_Subset
<1>3. Cardinality(slices) \in Nat /\ (Cardinality(slices) = 0 <=> slices = {})
  BY <1>2, FS_CardinalityType, FS_EmptySet
<1>4. CASE Cardinality(slices) = 1
  <2>1. PICK b : slices = {b}
    BY <1>2, <1>4, FS_Singleton
  <2>2. a = b /\ b \in Arches
    BY <2>1
  <2>3. BinaryArch(slices) = b
    BY <1>3, <1>4, <2>2 DEF BinaryArch
  <2>4. NeedsBridge(h, slices) <=> \/ Machine(b) # Machine(h.arch)
                                  \/ (h.os # "macos" /\ Bits(b) # Bits(h.arch))
    BY <2>2, <2>3 DEF NeedsBridge, Arches
  <2>5. Machine(b) = Machine(h.arch) /\ Bits(b) = Bits(h.arch) => b = h.arch
    BY <1>1, <2>2 DEF Arches, Machine, Bits
  <2>6. Loads(h.arch, slices) <=> b = h.arch
    BY <2>1 DEF Loads
  <2> QED
    BY <2>1, <2>4, <2>5, <2>6
<1>5. CASE Cardinality(slices) # 1
  <2>1. slices # {} => Cardinality(slices) > 1
    BY <1>3, <1>5
  <2>2. BinaryArch(slices) \in {"unknown", "universal"}
    BY <2>1 DEF BinaryArch
  <2> QED
    BY <1>5, <2>2 DEF NeedsBridge
<1> QED
  BY <1>4, <1>5

\* The flags of an answer, for files that stayed.
FlagsRight(found, always) ==
    \A i \in DOMAIN found :
        LET c == found[i] IN
        /\ c.bridge => ~Loads(host.arch, Slices[c.file])
        /\ c.file \in always /\ ~c.bridge /\ ~Loads(host.arch, Slices[c.file]) =>
              Cardinality(Slices[c.file]) # 1 \/ host.os = "macos"

Final(found, o) == [i \in DOMAIN o |-> Flagged(found)[o[i]]]

\* finalize() keeps every record once, and flags it.
LEMMA FinalRight ==
    ASSUME host \in Hosts, NEW t, NEW n, NEW found \in Seq(Records), NEW o \in Orders(found),
           NEW always, NEW ever, always \subseteq files, Right(host.os, t, n, found, always, ever)
    PROVE  LET now == Final(found, o) IN
           /\ now \in Seq(Records) /\ Right(host.os, t, n, now, always, ever)
           /\ FlagsRight(now, always) /\ Listed(now) = Listed(found)
<1> DEFINE now == Final(found, o)
           header(c) == IF c.file \in files THEN Slices[c.file] ELSE {}
           flagged(c) == [c EXCEPT !.bridge = NeedsBridge(host, header(c)),
                                   !.validated = @ \/ header(c) # {}]
<1>1. /\ Len(found) \in Nat /\ DOMAIN found = 1 .. Len(found)
      /\ \A i \in DOMAIN found : found[i] \in Records
  BY Positions
<1>2. /\ o \in [DOMAIN found -> DOMAIN found]
      /\ \A k \in DOMAIN found : \E i \in DOMAIN found : o[i] = k
      /\ \A i, j \in DOMAIN found : i < j => Sooner(found, o[i], o[j])
  BY DEF Orders, Surjection
<1>3. \A i, j \in DOMAIN found : i # j => o[i] # o[j]
  <2>1. \A k \in DOMAIN found : ~ Sooner(found, k, k)
    <3> SUFFICES ASSUME NEW k \in DOMAIN found PROVE ~ Sooner(found, k, k)
      OBVIOUS
    <3>1. found[k].tier \in 1 .. 4 /\ found[k].confidence \in 0 .. 100 /\ k \in Nat
      BY <1>1 DEF Records
    <3>2. ~(found[k].tier < found[k].tier) /\ ~(found[k].confidence > found[k].confidence) /\ ~(k < k)
      <4>1. \A i \in 1 .. 4 : ~(i < i)
        OBVIOUS
      <4>2. \A i \in 0 .. 100 : ~(i > i)
        OBVIOUS
      <4>3. \A i \in Nat : ~(i < i)
        OBVIOUS
      <4> QED
        BY <3>1, <4>1, <4>2, <4>3, Zenon
    <3> QED
      BY <3>2 DEF Sooner
  <2>2. \A i, j \in DOMAIN found : i # j => i < j \/ j < i
    BY <1>1
  <2> QED
    BY <1>2, <2>1, <2>2
<1>4. \A i \in DOMAIN found : now[i] = flagged(found[o[i]])
  BY <1>2 DEF Flagged, Final
<1>5. DOMAIN now = DOMAIN found
  BY <1>2 DEF Final
<1>5a. now = [i \in 1 .. Len(found) |-> now[i]]
  BY <1>1, <1>2 DEF Final
<1>6. ASSUME NEW c \in Records
      PROVE  /\ flagged(c) \in Records /\ flagged(c).file = c.file /\ flagged(c).tier = c.tier
             /\ flagged(c).source = c.source /\ flagged(c).track = c.track /\ flagged(c).label = c.label
             /\ flagged(c).confidence = c.confidence /\ flagged(c).hint = c.hint
             /\ c.validated => flagged(c).validated
             /\ flagged(c).bridge = NeedsBridge(host, header(c))
  <2>1. NeedsBridge(host, header(c)) \in BOOLEAN /\ (header(c) # {}) \in BOOLEAN
    BY DEF NeedsBridge
  <2> HIDE DEF header
  <2> QED
    BY <2>1 DEF Records
<1> HIDE DEF now, flagged
<1>6a. \A i \in DOMAIN now : /\ o[i] \in DOMAIN found /\ found[o[i]] \in Records
                             /\ now[i] = flagged(found[o[i]]) /\ now[i].file = found[o[i]].file
  <2> SUFFICES ASSUME NEW i \in DOMAIN now
               PROVE  /\ o[i] \in DOMAIN found /\ found[o[i]] \in Records
                      /\ now[i] = flagged(found[o[i]]) /\ now[i].file = found[o[i]].file
    OBVIOUS
  <2>1. i \in DOMAIN found
    BY <1>5
  <2>2. o[i] \in DOMAIN found
    BY <1>2, <2>1
  <2>3. found[o[i]] \in Records /\ now[i] = flagged(found[o[i]])
    BY <1>1, <1>4, <2>1, <2>2, Zenon
  <2> QED
    BY <1>6, <2>2, <2>3
<1>6b. \A k \in DOMAIN found : \E i \in DOMAIN now : o[i] = k
  BY <1>2, <1>5, Zenon
<1>7. now \in Seq(Records)
  <2>1. ASSUME NEW i \in 1 .. Len(found) PROVE now[i] \in Records
    <3>1. o[i] \in DOMAIN found
      BY <1>1, <1>2
    <3>2. found[o[i]] \in Records
      BY <1>1, <3>1
    <3>3. now[i] = flagged(found[o[i]])
      BY <1>1, <1>4
    <3> QED
      BY <1>6, <3>2, <3>3
  <2> QED
    BY <1>1, <1>5a, <2>1, IsASeq
<1>8. Right(host.os, t, n, now, always, ever)
  <2>1. \A c, d : /\ d.file = c.file /\ d.tier = c.tier /\ d.source = c.source /\ d.track = c.track
                  /\ d.label = c.label /\ d.confidence = c.confidence /\ d.hint = c.hint
                  /\ Faithful(host.os, t, n, c)
                  => Faithful(host.os, t, n, d)
    BY DEF Faithful, About
  <2>2. \A i \in DOMAIN found :
          /\ found[i].tier <= t /\ (found[i].tier = 4 => found[i].validated)
          /\ found[i].file \in ever
          /\ found[i].file \in always => Faithful(host.os, t, n, found[i])
    BY DEF Right
  <2>3. \A i \in DOMAIN now :
          /\ now[i].tier <= t /\ (now[i].tier = 4 => now[i].validated)
          /\ now[i].file \in ever
          /\ now[i].file \in always => Faithful(host.os, t, n, now[i])
    <3> SUFFICES ASSUME NEW i \in DOMAIN now
                 PROVE  /\ now[i].tier <= t /\ (now[i].tier = 4 => now[i].validated)
                        /\ now[i].file \in ever
                        /\ now[i].file \in always => Faithful(host.os, t, n, now[i])
      OBVIOUS
    <3> DEFINE c == found[o[i]]
               d == now[i]
    <3>1. o[i] \in DOMAIN found /\ d = flagged(c) /\ c \in Records
      BY <1>6a, Zenon
    <3>2. /\ c.tier <= t /\ (c.tier = 4 => c.validated)
          /\ c.file \in ever
          /\ c.file \in always => Faithful(host.os, t, n, c)
      BY <2>2, <3>1
    <3> HIDE DEF c, d
    <3>3. /\ d.file = c.file /\ d.tier = c.tier /\ d.source = c.source /\ d.track = c.track
          /\ d.label = c.label /\ d.confidence = c.confidence /\ d.hint = c.hint
          /\ c.validated => d.validated
      BY <1>6, <3>1
    <3>4. d.file \in always => Faithful(host.os, t, n, d)
      BY <2>1, <3>2, <3>3
    <3> QED
      BY <3>2, <3>3, <3>4 DEF d
  <2>4. \A i \in DOMAIN now : o[i] \in DOMAIN found /\ now[i].file = found[o[i]].file
    BY <1>6a, Zenon
  <2>5. \A i, j \in DOMAIN now : i # j => now[i].file # now[j].file
    <3>1. \A i, j \in DOMAIN found : i # j => found[i].file # found[j].file
      BY DEF Right
    <3>2. ASSUME NEW i \in DOMAIN now, NEW j \in DOMAIN now, i # j PROVE now[i].file # now[j].file
      <4>1. o[i] \in DOMAIN found /\ o[j] \in DOMAIN found /\ o[i] # o[j]
        BY <1>3, <1>5, <2>4, <3>2, Zenon
      <4>2. found[o[i]].file # found[o[j]].file
        BY <3>1, <4>1, Zenon
      <4>3. now[i].file = found[o[i]].file /\ now[j].file = found[o[j]].file
        BY <2>4, Zenon
      <4> QED
        BY <4>2, <4>3, Zenon
    <3> QED
      BY <3>2, Zenon
  <2>6. \A x : Heard(host.os, t, n, x) /\ x.file \in always => \E i \in DOMAIN now : now[i].file = x.file
    <3>1. \A x : Heard(host.os, t, n, x) /\ x.file \in always => \E k \in DOMAIN found : found[k].file = x.file
      BY DEF Right
    <3>2. ASSUME NEW x, Heard(host.os, t, n, x), x.file \in always
          PROVE  \E i \in DOMAIN now : now[i].file = x.file
      <4>1. PICK k \in DOMAIN found : found[k].file = x.file
        BY <3>1, <3>2, Zenon
      <4>2. PICK i \in DOMAIN now : o[i] = k
        BY <1>6b, Zenon
      <4> QED
        BY <2>4, <4>1, <4>2, Zenon
    <3> QED
      BY <3>2, Zenon
  <2> QED
    BY <2>3, <2>5, <2>6 DEF Right
<1>9. Listed(now) = Listed(found)
  <2>1. \A i \in DOMAIN now : o[i] \in DOMAIN found /\ now[i].file = found[o[i]].file
    BY <1>6a, Zenon
  <2>2. \A f : (\E i \in DOMAIN now : now[i].file = f) <=> \E k \in DOMAIN found : found[k].file = f
    <3>1. ASSUME NEW i \in DOMAIN now PROVE \E k \in DOMAIN found : found[k].file = now[i].file
      BY <2>1
    <3>2. ASSUME NEW k \in DOMAIN found PROVE \E i \in DOMAIN now : now[i].file = found[k].file
      <4>1. PICK i \in DOMAIN now : o[i] = k
        BY <1>6b, Zenon
      <4> QED
        BY <2>1, <4>1, Zenon
    <3> QED
      BY <3>1, <3>2, Zenon
  <2> QED
    BY <2>2, Zenon DEF Listed
<1>10. FlagsRight(now, always)
  <2> SUFFICES ASSUME NEW i \in DOMAIN now
               PROVE  /\ now[i].bridge => ~Loads(host.arch, Slices[now[i].file])
                      /\ now[i].file \in always /\ ~now[i].bridge /\ ~Loads(host.arch, Slices[now[i].file]) =>
                            Cardinality(Slices[now[i].file]) # 1 \/ host.os = "macos"
    BY DEF FlagsRight
  <2> DEFINE c == found[o[i]]
  <2>1. o[i] \in DOMAIN found /\ now[i] = flagged(c) /\ c \in Records
    BY <1>6a, Zenon
  <2> HIDE DEF c
  <2>2. now[i].file = c.file /\ now[i].bridge = NeedsBridge(host, header(c))
    BY <1>6, <2>1
  <2>3. Slices[c.file] \in SUBSET Arches
    <3>1. c.file \in Files
      BY <2>1 DEF Records
    <3> QED
      BY <3>1, DiscoveryAssumption
  <2>4. ~ NeedsBridge(host, {})
    BY FlagIsRight
  <2>5. c.file \in files => header(c) = Slices[c.file]
    OBVIOUS
  <2>6. c.file \notin files => header(c) = {}
    OBVIOUS
  <2> HIDE DEF header
  <2>7. now[i].bridge => NeedsBridge(host, Slices[c.file])
    BY <2>2, <2>4, <2>5, <2>6
  <2>8. c.file \in always => now[i].bridge = NeedsBridge(host, Slices[c.file])
    BY <2>2, <2>5
  <2> QED
    BY <2>2, <2>3, <2>7, <2>8, FlagIsRight
<1> QED
  BY <1>7, <1>8, <1>9, <1>10 DEF now

-----------------------------------------------------------------------------
(* The inductive invariant *)

Later == {"proxy", "glob", "probe", "finalize", "truncate", "write"}
Busy == Later \cup {"cache", "tier"}

Scans == [pc : Busy \cup {"idle", "done", "killed", "failed"}, options : Options, found : Seq(Records),
          tier : 1 .. 4, next : Nat, shortcut : BOOLEAN, queue : SUBSET Files, capped : BOOLEAN,
          helper : {"none", "up"}, fromCache : BOOLEAN, at : Nat]

Typed ==
    /\ host \in Hosts /\ files \in SUBSET Files /\ changes \in Nat /\ clock \in Nat
    /\ \A w \in written : w.state = "whole" /\ w.found \in Seq(Records) /\ w.at \in Nat
                          /\ w.shortcut \in BOOLEAN /\ w.capped \in BOOLEAN
    /\ cache \in {NoCache, Torn} \cup written
    /\ scan \in [Procs -> Scans] /\ \A p \in Procs : scan[p].options \in Uses[p] \cup {NoOptions}
    /\ present \in [Procs -> [always : SUBSET Files, ever : SUBSET Files]]

\* A scan, against the files there were.
Sound(s, pr) ==
    /\ s.pc \in {"idle", "cache"} => s.found = <<>> /\ s.tier = 1 /\ s.next = 1
    /\ s.pc = "tier" => s.tier \in 1 .. 3 /\ s.next # 0
    /\ s.pc \in Later \/ (s.pc = "done" /\ ~s.fromCache) => s.tier = 4
    /\ s.fromCache => s.pc = "done" /\ \E w \in written : w.found = s.found /\ s.at - w.at <= Ttl
    /\ s.pc \in Busy => pr.always \subseteq files /\ files \subseteq pr.ever
    /\ s.pc \in Busy \/ (s.pc = "done" /\ ~s.fromCache) =>
          Right(host.os, s.tier, s.next, s.found, pr.always, pr.ever)
    /\ s.pc = "probe" => s.queue \cap Listed(s.found) = {}
    /\ s.pc \in {"probe", "finalize", "truncate", "write"} \/ (s.pc = "done" /\ ~s.fromCache) =>
          (s.options.deep /\ ~s.shortcut /\ ~s.capped =>
              \A f \in pr.always : Findable(f) => \/ f \in Listed(s.found)
                                                 \/ (s.pc = "probe" /\ f \in s.queue))
    /\ s.pc \in {"truncate", "write"} \/ (s.pc = "done" /\ ~s.fromCache) => FlagsRight(s.found, pr.always)

ScansInv == Typed /\ \A p \in Procs : Sound(scan[p], present[p])

LEMMA IdleType == Idle \in Scans
<1>1. NoOptions \in Options
  BY DEF Options, NoOptions
<1>2. <<>> \in Seq(Records)
  OBVIOUS
<1> QED
  BY <1>1, <1>2 DEF Idle, Scans

LEMMA ScansInit == AggInit => ScansInv
<1> SUFFICES ASSUME AggInit PROVE ScansInv
  OBVIOUS
<1>1. DiscInit
  BY DEF AggInit
<1>2. Typed
  <2>1. host \in Hosts /\ files \in SUBSET Files
    BY <1>1, DiscoveryAssumption DEF DiscInit
  <2>2. scan \in [Procs -> Scans] /\ \A p \in Procs : scan[p].options \in Uses[p] \cup {NoOptions}
    BY <1>1, IdleType DEF DiscInit, Idle
  <2>3. present \in [Procs -> [always : SUBSET Files, ever : SUBSET Files]]
    BY <1>1 DEF DiscInit
  <2> QED
    BY <1>1, <2>1, <2>2, <2>3 DEF DiscInit, Typed
<1>3. ASSUME NEW p \in Procs PROVE Sound(scan[p], present[p])
  <2>1. scan[p] = Idle
    BY <1>1 DEF DiscInit
  <2> QED
    BY <2>1 DEF Sound, Idle, Later, Busy
<1> QED
  BY <1>2, <1>3 DEF ScansInv

\* Soundness is about the machine, the files, and caches that only become more.
LEMMA SoundStays ==
    ASSUME NEW q \in Procs, NEW s, NEW pr, Sound(s, pr), scan'[q] = s, present'[q] = pr,
           host' = host, files' = files, written \subseteq written'
    PROVE  Sound(scan[q], present[q])'
<1>1. \A f : Findable(f)' <=> Findable(f)
  BY DEF Findable, ArchFor, HelperArch
<1>2. FlagsRight(scan[q].found, present[q].always)' <=> FlagsRight(s.found, pr.always)
  BY DEF FlagsRight
<1>3. s.fromCache => s.pc = "done" /\ \E w \in written' : w.found = s.found /\ s.at - w.at <= Ttl
  BY DEF Sound
<1> QED
  BY <1>1, <1>2, <1>3 DEF Sound

\* A step of one scan.
LEMMA OneScan ==
    ASSUME ScansInv, NEW p \in Procs, NEW s \in Scans, Change(p, s), s.options = scan[p].options,
           Sound(s, present[p]), written \subseteq written',
           \A w \in written' : w.state = "whole" /\ w.found \in Seq(Records) /\ w.at \in Nat
                              /\ w.shortcut \in BOOLEAN /\ w.capped \in BOOLEAN,
           cache' \in {NoCache, Torn} \cup written'
    PROVE  ScansInv'
<1>1. /\ host' = host /\ files' = files /\ changes' = changes /\ clock' = clock /\ present' = present
      /\ scan' = [scan EXCEPT ![p] = s]
  BY DEF Change, world
<1>2. Typed'
  BY <1>1 DEF ScansInv, Typed
<1>3. ASSUME NEW q \in Procs PROVE Sound(scan[q], present[q])'
  <2>1. CASE q = p
    <3>1. scan'[q] = s /\ present'[q] = present[p]
      BY <1>1, <2>1 DEF ScansInv, Typed
    <3> QED
      BY <1>1, <3>1, SoundStays
  <2>2. CASE q # p
    <3>1. Sound(scan[q], present[q])
      BY DEF ScansInv
    <3>2. scan'[q] = scan[q] /\ present'[q] = present[q]
      BY <1>1, <2>2 DEF ScansInv, Typed
    <3> QED
      BY <1>1, <3>1, <3>2, SoundStays
  <2> QED
    BY <2>1, <2>2
<1> QED
  BY <1>2, <1>3 DEF ScansInv

LEMMA QuietScan ==
    ASSUME ScansInv, NEW p \in Procs, NEW s \in Scans, Change(p, s), Stay, s.options = scan[p].options,
           Sound(s, present[p])
    PROVE  ScansInv'
<1>1. /\ written' = written /\ cache' = cache /\ cache \in {NoCache, Torn} \cup written
      /\ \A w \in written : w.state = "whole" /\ w.found \in Seq(Records) /\ w.at \in Nat
                          /\ w.shortcut \in BOOLEAN /\ w.capped \in BOOLEAN
  BY DEF Stay, ScansInv, Typed
<1> QED
  BY <1>1, OneScan

LEMMA StartScanSound == ASSUME ScansInv, NEW p \in Procs, StartScan(p) PROVE ScansInv'
<1>1. PICK o \in Uses[p] : scan' = [scan EXCEPT ![p].pc = IF o.cached THEN "cache" ELSE "tier",
                                                ![p].options = o]
  BY DEF StartScan
<1>2. /\ scan[p].pc = "idle" /\ present' = [present EXCEPT ![p] = [always |-> files, ever |-> files]]
      /\ host' = host /\ files' = files /\ changes' = changes /\ clock' = clock
      /\ cache' = cache /\ written' = written
  BY DEF StartScan, world
<1>3. scan \in [Procs -> Scans] /\ present \in [Procs -> [always : SUBSET Files, ever : SUBSET Files]]
      /\ files \in SUBSET Files /\ host \in Hosts
  BY DEF ScansInv, Typed
<1> DEFINE s == [scan[p] EXCEPT !.pc = IF o.cached THEN "cache" ELSE "tier", !.options = o]
           pr == [always |-> files, ever |-> files]
<1>4. o \in Options
  BY DiscoveryAssumption
<1>5. s \in Scans /\ s.options = o /\ s.pc \in {"cache", "tier"} /\ s.found = scan[p].found
      /\ s.tier = scan[p].tier /\ s.next = scan[p].next /\ s.fromCache = scan[p].fromCache
  <2> DEFINE q == scan[p]
             c == IF o.cached THEN "cache" ELSE "tier"
  <2>1. q \in Scans /\ c \in {"cache", "tier"} /\ s = [q EXCEPT !.pc = c, !.options = o]
    BY <1>3
  <2> HIDE DEF q, c, s
  <2>2. /\ s \in Scans /\ s.options = o /\ s.pc = c /\ s.found = q.found
        /\ s.tier = q.tier /\ s.next = q.next /\ s.fromCache = q.fromCache
    BY <1>4, <2>1 DEF Scans, Busy
  <2> QED
    BY <2>1, <2>2 DEF q
<1>6. scan' = [scan EXCEPT ![p] = s]
  BY <1>1, <1>3
<1> HIDE DEF s
<1>7. Sound(s, pr)
  <2>1. scan[p].found = <<>> /\ scan[p].tier = 1 /\ scan[p].next = 1 /\ ~scan[p].fromCache
    <3>1. Sound(scan[p], present[p])
      BY DEF ScansInv
    <3> QED
      BY <1>2, <1>3, <3>1 DEF Sound, Scans
  <2>2. Right(host.os, 1, 1, <<>>, files, files)
    <3>1. host.os \in Systems
      BY <1>3 DEF Hosts
    <3> QED
      BY <3>1, NothingFound
  <2> QED
    BY <1>5, <2>1, <2>2 DEF Sound, Later, Busy
<1>8. Typed'
  <2>1. scan' \in [Procs -> Scans] /\ \A q \in Procs : scan'[q].options \in Uses[q] \cup {NoOptions}
    BY <1>3, <1>5, <1>6 DEF ScansInv, Typed
  <2>2. present' \in [Procs -> [always : SUBSET Files, ever : SUBSET Files]]
    BY <1>2, <1>3
  <2> QED
    BY <1>2, <2>1, <2>2 DEF ScansInv, Typed
<1>9. ASSUME NEW q \in Procs PROVE Sound(scan[q], present[q])'
  <2>1. CASE q = p
    <3>1. scan'[q] = s /\ present'[q] = pr
      BY <1>2, <1>3, <1>6, <2>1
    <3> QED
      BY <1>2, <1>7, <3>1, SoundStays
  <2>2. CASE q # p
    <3>1. Sound(scan[q], present[q])
      BY DEF ScansInv
    <3>2. scan'[q] = scan[q] /\ present'[q] = present[q]
      BY <1>2, <1>3, <1>6, <2>2
    <3> QED
      BY <1>2, <3>1, <3>2, SoundStays
  <2> QED
    BY <2>1, <2>2
<1> QED
  BY <1>8, <1>9 DEF ScansInv

LEMMA ReadCacheSound == ASSUME ScansInv, NEW p \in Procs, ReadCache(p) PROVE ScansInv'
<1> DEFINE s == IF Usable
                THEN [scan[p] EXCEPT !.pc = "done", !.found = cache.found, !.fromCache = TRUE,
                                     !.at = clock, !.shortcut = cache.shortcut, !.capped = cache.capped]
                ELSE [scan[p] EXCEPT !.pc = "tier"]
<1>1. scan[p].pc = "cache" /\ Stay /\ Change(p, s)
  BY DEF ReadCache
<1>2. scan[p] \in Scans /\ Sound(scan[p], present[p]) /\ clock \in Nat
  BY DEF ScansInv, Typed
<1>3. CASE Usable
  <2>1. cache \in written
    BY <1>3 DEF Usable, NoCache, Torn, ScansInv, Typed
  <2>2. cache.found \in Seq(Records) /\ cache.shortcut \in BOOLEAN /\ cache.capped \in BOOLEAN
    BY <2>1 DEF ScansInv, Typed
  <2>3. s \in Scans
    BY <1>2, <1>3, <2>2 DEF Scans
  <2>4. s.pc = "done" /\ s.found = cache.found /\ s.fromCache /\ s.at = clock /\ s.options = scan[p].options
    BY <1>2, <1>3 DEF Scans
  <2> HIDE DEF s
  <2>5. Sound(s, present[p])
    BY <1>3, <2>1, <2>4 DEF Sound, Usable, Later, Busy
  <2> QED
    BY <1>1, <2>3, <2>4, <2>5, QuietScan
<1>4. CASE ~Usable
  <2>1. s \in Scans
    BY <1>2, <1>4 DEF Scans, Busy
  <2>2. /\ s.pc = "tier" /\ s.found = scan[p].found /\ s.tier = scan[p].tier /\ s.next = scan[p].next
        /\ s.fromCache = scan[p].fromCache /\ s.options = scan[p].options
    BY <1>2, <1>4 DEF Scans
  <2> HIDE DEF s
  <2>3. Sound(s, present[p])
    BY <1>1, <1>2, <2>2 DEF Sound, Later, Busy
  <2> QED
    BY <1>1, <2>1, <2>2, <2>3, QuietScan
<1> QED
  BY <1>3, <1>4

LEMMA LookUpSound == ASSUME ScansInv, NEW p \in Procs, LookUp(p) PROVE ScansInv'
<1> DEFINE said == Tiers[host.os][scan[p].tier]
           now == Collect(scan[p].found, said[scan[p].next])
           following == scan[p].next + 1
           s == [scan[p] EXCEPT !.found = now, !.next = following]
<1>1. scan[p].pc = "tier" /\ scan[p].next <= Len(said) /\ Stay /\ Change(p, s)
  BY DEF LookUp
<1>2. scan[p] \in Scans /\ Sound(scan[p], present[p]) /\ host.os \in Systems
  BY DEF ScansInv, Typed, Hosts
<1>3. scan[p].tier \in 1 .. 3 /\ scan[p].next \in Nat /\ scan[p].found \in Seq(Records)
  BY <1>1, <1>2 DEF Sound, Scans
<1>4. /\ present[p].always \subseteq files /\ files \subseteq present[p].ever
      /\ Right(host.os, scan[p].tier, scan[p].next, scan[p].found, present[p].always, present[p].ever)
      /\ ~scan[p].fromCache
  BY <1>1, <1>2 DEF Sound, Busy
<1>5. scan[p].next \in DOMAIN said
  <2>1. scan[p].next # 0
    BY <1>1, <1>2 DEF Sound
  <2> HIDE DEF said
  <2>2. Len(said) \in Nat /\ DOMAIN said = 1 .. Len(said)
    BY <1>2, <1>3, TierEntries DEF said
  <2> QED
    BY <1>1, <1>3, <2>1, <2>2
<1>6. now \in Seq(Records) /\ Right(host.os, scan[p].tier, scan[p].next + 1, now, present[p].always, present[p].ever)
  BY <1>2, <1>3, <1>4, <1>5, LookedUp
<1>7. following \in Nat /\ following # 0 /\ following = scan[p].next + 1
  BY <1>3
<1> HIDE DEF now, following
<1>8. /\ s \in Scans /\ s.pc = "tier" /\ s.found = now /\ s.tier = scan[p].tier
      /\ s.next = following /\ s.fromCache = scan[p].fromCache /\ s.options = scan[p].options
  BY <1>1, <1>2, <1>6, <1>7 DEF Scans
<1> HIDE DEF s
<1>9. Sound(s, present[p])
  <2>1. Right(host.os, s.tier, s.next, s.found, present[p].always, present[p].ever)
    BY <1>6, <1>7, <1>8
  <2> QED
    BY <1>3, <1>4, <1>7, <1>8, <2>1 DEF Sound, Later, Busy
<1> QED
  BY <1>1, <1>8, <1>9, QuietScan

LEMMA NextTierSound == ASSUME ScansInv, NEW p \in Procs, NextTier(p) PROVE ScansInv'
<1> DEFINE tier == scan[p].tier + 1
           pc == IF scan[p].tier < 3 THEN "tier"
                 ELSE IF scan[p].options.deep THEN "proxy" ELSE "finalize"
           s == [scan[p] EXCEPT !.tier = tier, !.next = 1, !.pc = pc]
<1>1. /\ scan[p].pc = "tier" /\ scan[p].next > Len(Tiers[host.os][scan[p].tier]) /\ Stay
      /\ Change(p, s)
  BY DEF NextTier
<1>2. scan[p] \in Scans /\ Sound(scan[p], present[p]) /\ host.os \in Systems
  BY DEF ScansInv, Typed, Hosts
<1>3. scan[p].tier \in 1 .. 3 /\ scan[p].next \in Nat /\ scan[p].found \in Seq(Records)
  BY <1>1, <1>2 DEF Sound, Scans
<1>4. /\ present[p].always \subseteq files /\ files \subseteq present[p].ever
      /\ Right(host.os, scan[p].tier, scan[p].next, scan[p].found, present[p].always, present[p].ever)
      /\ ~scan[p].fromCache
  BY <1>1, <1>2 DEF Sound, Busy
<1>5. Right(host.os, scan[p].tier + 1, 1, scan[p].found, present[p].always, present[p].ever)
  BY <1>1, <1>2, <1>3, <1>4, TierEnds
<1>6. tier \in 1 .. 4 /\ pc \in {"tier", "proxy", "finalize"}
  BY <1>3
<1>7. /\ pc = "tier" => tier \in 1 .. 3
      /\ pc # "tier" => tier = 4 /\ (pc = "finalize" => ~scan[p].options.deep)
  BY <1>3
<1> HIDE DEF tier, pc
<1>8. /\ s \in Scans /\ s.found = scan[p].found /\ s.tier = tier /\ s.next = 1 /\ s.pc = pc
      /\ s.fromCache = scan[p].fromCache /\ s.options = scan[p].options
  BY <1>2, <1>6 DEF Scans, Busy, Later
<1> HIDE DEF s
<1>9. Sound(s, present[p])
  <2>1. Right(host.os, s.tier, s.next, s.found, present[p].always, present[p].ever)
    BY <1>5, <1>8 DEF tier
  <2> QED
    BY <1>4, <1>6, <1>7, <1>8, <2>1 DEF Sound, Later, Busy
<1> QED
  BY <1>1, <1>8, <1>9, QuietScan

LEMMA TryProxySound == ASSUME ScansInv, NEW p \in Procs, TryProxy(p) PROVE ScansInv'
<1> DEFINE proxies == SelectSeq(scan[p].found, LAMBDA c : c.file \in Proxies)
           tried == host.os # "windows" /\ ~scan[p].options.force /\ proxies # <<>>
           file == Head(proxies).file
           answered == tried /\ Answers(p, file, FALSE) /\ Health[file] = "good"
           helper == IF tried THEN HelperAfter(p, file, FALSE) ELSE scan[p].helper
           s == [scan[p] EXCEPT !.shortcut = answered, !.helper = helper,
                                !.pc = IF answered THEN "finalize" ELSE "glob"]
<1>1. scan[p].pc = "proxy" /\ Stay /\ Change(p, s)
  BY DEF TryProxy
<1>2. scan[p] \in Scans /\ Sound(scan[p], present[p]) /\ scan[p].helper \in {"none", "up"}
  BY DEF ScansInv, Typed, Scans
<1>3. helper \in {"none", "up"}
  BY <1>2 DEF HelperAfter
<1>4. answered \in BOOLEAN
  BY DEF Answers, Loads
<1> HIDE DEF helper, answered
<1>5. /\ s \in Scans /\ s.found = scan[p].found /\ s.tier = scan[p].tier /\ s.next = scan[p].next
      /\ s.fromCache = scan[p].fromCache /\ s.options = scan[p].options
      /\ s.shortcut = answered /\ s.pc = IF answered THEN "finalize" ELSE "glob"
  BY <1>2, <1>3, <1>4 DEF Scans, Busy, Later
<1> HIDE DEF s
<1>6. Sound(s, present[p])
  BY <1>1, <1>2, <1>5 DEF Sound, Later, Busy
<1> QED
  BY <1>1, <1>5, <1>6, QuietScan

LEMMA GlobSound == ASSUME ScansInv, NEW p \in Procs, Glob(p) PROVE ScansInv'
<1> DEFINE hits == (Globbed \cap files) \ Listed(scan[p].found)
<1>1. PICK q \in SUBSET hits :
         Change(p, [scan[p] EXCEPT !.queue = q, !.capped = q # hits, !.pc = "probe"])
  BY DEF Glob
<1> DEFINE s == [scan[p] EXCEPT !.queue = q, !.capped = q # hits, !.pc = "probe"]
<1>2. scan[p].pc = "glob" /\ Stay /\ Change(p, s)
  BY <1>1 DEF Glob
<1>3. scan[p] \in Scans /\ Sound(scan[p], present[p])
  BY DEF ScansInv, Typed
<1>4. q \in SUBSET Files /\ (q # hits) \in BOOLEAN
  BY <1>1, DiscoveryAssumption
<1>5. /\ s \in Scans /\ s.found = scan[p].found /\ s.tier = scan[p].tier /\ s.next = scan[p].next
      /\ s.fromCache = scan[p].fromCache /\ s.options = scan[p].options
      /\ s.queue = q /\ (s.capped <=> q # hits) /\ s.pc = "probe"
  <2> HIDE DEF hits
  <2> QED
    BY <1>3, <1>4 DEF Scans, Busy, Later
<1> HIDE DEF s
<1>6. Sound(s, present[p])
  <2>1. s.queue \cap Listed(s.found) = {}
    BY <1>1, <1>5
  <2>2. present[p].always \subseteq files
    BY <1>2, <1>3 DEF Sound, Busy, Later
  <2>3. ~s.capped => \A f \in present[p].always : Findable(f) => f \in Listed(s.found) \/ f \in s.queue
    BY <1>5, <2>2 DEF Findable
  <2> QED
    BY <1>2, <1>3, <1>5, <2>1, <2>3 DEF Sound, Later, Busy
<1> QED
  BY <1>2, <1>5, <1>6, QuietScan

LEMMA ProbeSound == ASSUME ScansInv, NEW p \in Procs, Probe(p) PROVE ScansInv'
<1>1. scan[p].pc = "probe" /\ Stay
  BY DEF Probe
<1>2. scan[p] \in Scans /\ Sound(scan[p], present[p]) /\ host.os \in Systems
  BY DEF ScansInv, Typed, Hosts
<1>3. /\ scan[p].found \in Seq(Records) /\ scan[p].queue \in SUBSET Files
      /\ scan[p].helper \in {"none", "up"}
  BY <1>2 DEF Scans
<1>4. /\ present[p].always \subseteq files /\ files \subseteq present[p].ever
      /\ Right(host.os, 4, scan[p].next, scan[p].found, present[p].always, present[p].ever)
      /\ scan[p].tier = 4 /\ ~scan[p].fromCache /\ scan[p].queue \cap Listed(scan[p].found) = {}
      /\ scan[p].options.deep /\ ~scan[p].shortcut /\ ~scan[p].capped =>
            \A f \in present[p].always :
                Findable(f) => f \in Listed(scan[p].found) \/ f \in scan[p].queue
  BY <1>1, <1>2 DEF Sound, Busy, Later
<1>5. CASE scan[p].queue = {} /\ Change(p, [scan[p] EXCEPT !.pc = "finalize"])
  <2> DEFINE s == [scan[p] EXCEPT !.pc = "finalize"]
  <2>1. /\ s \in Scans /\ s.found = scan[p].found /\ s.tier = scan[p].tier /\ s.next = scan[p].next
        /\ s.fromCache = scan[p].fromCache /\ s.options = scan[p].options /\ s.pc = "finalize"
        /\ s.shortcut = scan[p].shortcut /\ s.capped = scan[p].capped
    BY <1>2 DEF Scans, Busy, Later
  <2>2. Change(p, s)
    BY <1>5
  <2> HIDE DEF s
  <2>3. Sound(s, present[p])
    BY <1>4, <1>5, <2>1 DEF Sound, Busy, Later
  <2> QED
    BY <1>1, <2>1, <2>2, <2>3, QuietScan
<1>6. ASSUME NEW file \in scan[p].queue,
             LET bridge == file \in files /\ NeedsBridge(host, Slices[file]) IN
             Change(p, [scan[p] EXCEPT !.queue = @ \ {file},
                          !.helper = HelperAfter(p, file, bridge),
                          !.found = IF Answers(p, file, bridge) THEN Collect(@, Probed(file)) ELSE @])
      PROVE  ScansInv'
  <2> DEFINE bridge == file \in files /\ NeedsBridge(host, Slices[file])
             helper == HelperAfter(p, file, bridge)
             now == IF Answers(p, file, bridge) THEN Collect(scan[p].found, Probed(file)) ELSE scan[p].found
             queue == scan[p].queue \ {file}
             s == [scan[p] EXCEPT !.queue = queue, !.helper = helper, !.found = now]
  <2>1. Change(p, s)
    BY <1>6
  <2>2. helper \in {"none", "up"}
    BY <1>3 DEF HelperAfter
  <2>3. file \in Files /\ file \notin Listed(scan[p].found)
    BY <1>3, <1>4
  <2> DEFINE more == Collect(scan[p].found, Probed(file))
  <2>4. /\ more \in Seq(Records) /\ Right(host.os, 4, scan[p].next, more, present[p].always, present[p].ever)
        /\ Listed(scan[p].found) \subseteq Listed(more) /\ Listed(more) \subseteq Listed(scan[p].found) \cup {file}
        /\ file \in files => file \in Listed(more)
    <3> DEFINE found == scan[p].found
               always == present[p].always
               ever == present[p].ever
               next == scan[p].next
    <3>1. /\ always \subseteq files /\ files \subseteq ever /\ Right(host.os, 4, next, found, always, ever)
      BY <1>4
    <3>2. /\ found \in Seq(Records) /\ host.os \in Systems /\ file \in Files
          /\ file \notin Listed(found)
      BY <1>2, <1>3, <2>3
    <3>3. more = Collect(found, Probed(file))
      OBVIOUS
    <3> HIDE DEF s, now, helper, bridge, queue, more, found, always, ever, next
    <3>4. Right(host.os, 4, next, Collect(found, Probed(file)), always, ever)
      BY <3>1, <3>2, ProbeRight
    <3>5. Collect(found, Probed(file)) \in Seq(Records)
      BY <3>2, ProbedRecords
    <3>6. /\ Listed(found) \subseteq Listed(Collect(found, Probed(file)))
          /\ Listed(Collect(found, Probed(file))) \subseteq Listed(found) \cup {file}
          /\ file \in files => file \in Listed(Collect(found, Probed(file)))
      BY <3>1, <3>2, <3>4, ProbeRight
    <3> QED
      BY <3>3, <3>4, <3>5, <3>6 DEF found, always, ever, next
  <2>5. /\ now \in Seq(Records) /\ Right(host.os, 4, scan[p].next, now, present[p].always, present[p].ever)
        /\ Listed(scan[p].found) \subseteq Listed(now) /\ Listed(now) \subseteq Listed(scan[p].found) \cup {file}
        /\ file \in files /\ Answers(p, file, bridge) => file \in Listed(now)
    BY <1>3, <1>4, <2>4
  <2>6. file \in present[p].always /\ Findable(file) => Answers(p, file, bridge)
    <3>1. NeedsBridge(host, Slices[file]) \in BOOLEAN
      BY DEF NeedsBridge
    <3>2. file \in files => bridge = NeedsBridge(host, Slices[file])
      BY <3>1
    <3> HIDE DEF bridge
    <3> QED
      BY <1>3, <1>4, <3>2 DEF Findable, Answers
  <2> HIDE DEF helper, now
  <2>7. /\ s \in Scans /\ s.found = now /\ s.tier = scan[p].tier /\ s.next = scan[p].next
        /\ s.fromCache = scan[p].fromCache /\ s.options = scan[p].options /\ s.pc = "probe"
        /\ s.shortcut = scan[p].shortcut /\ s.capped = scan[p].capped /\ s.queue = scan[p].queue \ {file}
    BY <1>1, <1>2, <1>3, <2>2, <2>5 DEF Scans, Busy, Later
  <2> HIDE DEF s, bridge
  <2>8. s.queue \cap Listed(s.found) = {}
    BY <1>4, <2>5, <2>7
  <2>9. s.options.deep /\ ~s.shortcut /\ ~s.capped =>
            \A f \in present[p].always : Findable(f) => f \in Listed(s.found) \/ f \in s.queue
    BY <1>4, <2>5, <2>6, <2>7
  <2>10. Sound(s, present[p])
    BY <1>4, <2>5, <2>7, <2>8, <2>9 DEF Sound, Busy, Later
  <2> QED
    BY <1>1, <2>1, <2>7, <2>10, QuietScan
<1> QED
  BY <1>5, <1>6 DEF Probe

LEMMA FinalizeSound == ASSUME ScansInv, NEW p \in Procs, Finalize(p) PROVE ScansInv'
<1> DEFINE now(o) == Final(scan[p].found, o)
           pc == IF scan[p].options.cached THEN "truncate" ELSE "done"
<1>1. PICK o \in Orders(scan[p].found) :
         Change(p, [scan[p] EXCEPT !.found = now(o), !.helper = "none", !.pc = pc])
  BY DEF Finalize, Final
<1> DEFINE s == [scan[p] EXCEPT !.found = now(o), !.helper = "none", !.pc = pc]
<1>2. scan[p].pc = "finalize" /\ Stay /\ Change(p, s)
  BY <1>1 DEF Finalize
<1>3. scan[p] \in Scans /\ Sound(scan[p], present[p]) /\ host \in Hosts
  BY DEF ScansInv, Typed
<1>4. /\ present[p].always \subseteq files /\ files \subseteq present[p].ever
      /\ Right(host.os, 4, scan[p].next, scan[p].found, present[p].always, present[p].ever)
      /\ scan[p].tier = 4 /\ ~scan[p].fromCache
      /\ scan[p].options.deep /\ ~scan[p].shortcut /\ ~scan[p].capped =>
            \A f \in present[p].always : Findable(f) => f \in Listed(scan[p].found)
  BY <1>2, <1>3 DEF Sound, Busy, Later
<1>5. /\ now(o) \in Seq(Records)
      /\ Right(host.os, 4, scan[p].next, now(o), present[p].always, present[p].ever)
      /\ FlagsRight(now(o), present[p].always) /\ Listed(now(o)) = Listed(scan[p].found)
  <2>1. scan[p].found \in Seq(Records)
    BY <1>3 DEF Scans
  <2>2. /\ present[p].always \subseteq files
        /\ Right(host.os, 4, scan[p].next, scan[p].found, present[p].always, present[p].ever)
    BY <1>4
  <2> DEFINE found == scan[p].found
             always == present[p].always
             ever == present[p].ever
             next == scan[p].next
             final == now(o)
  <2>3. /\ found \in Seq(Records) /\ o \in Orders(found) /\ always \subseteq files
        /\ Right(host.os, 4, next, found, always, ever)
        /\ final = Final(found, o)
    BY <2>1, <2>2
  <2> HIDE DEF s, pc, found, always, ever, next, final
  <2>4. /\ final \in Seq(Records) /\ Right(host.os, 4, next, final, always, ever)
        /\ FlagsRight(final, always) /\ Listed(final) = Listed(found)
    BY <1>3, <2>3, FinalRight
  <2> QED
    BY <2>4 DEF found, always, ever, next, final
<1>6. pc \in {"truncate", "done"}
  OBVIOUS
<1> HIDE DEF now, pc
<1>7. /\ s \in Scans /\ s.found = now(o) /\ s.tier = scan[p].tier /\ s.next = scan[p].next
      /\ s.fromCache = scan[p].fromCache /\ s.options = scan[p].options /\ s.pc = pc
      /\ s.shortcut = scan[p].shortcut /\ s.capped = scan[p].capped
  BY <1>3, <1>5, <1>6 DEF Scans, Busy, Later
<1> HIDE DEF s
<1>8. Sound(s, present[p])
  BY <1>4, <1>5, <1>6, <1>7 DEF Sound, Busy, Later
<1> QED
  BY <1>2, <1>7, <1>8, QuietScan

LEMMA TruncateCacheSound == ASSUME ScansInv, NEW p \in Procs, TruncateCache(p) PROVE ScansInv'
<1>1. scan[p].pc = "truncate" /\ written' = written
  BY DEF TruncateCache
<1>2. scan[p] \in Scans /\ Sound(scan[p], present[p]) /\ clock \in Nat
  BY DEF ScansInv, Typed
<1>3. \A w \in written : w.state = "whole" /\ w.found \in Seq(Records) /\ w.at \in Nat
                         /\ w.shortcut \in BOOLEAN /\ w.capped \in BOOLEAN
  BY DEF ScansInv, Typed
<1>4. CASE cache' = Torn /\ Change(p, [scan[p] EXCEPT !.pc = "write", !.at = clock])
  <2> DEFINE s == [scan[p] EXCEPT !.pc = "write", !.at = clock]
  <2>1. /\ s \in Scans /\ s.found = scan[p].found /\ s.tier = scan[p].tier /\ s.next = scan[p].next
        /\ s.fromCache = scan[p].fromCache /\ s.options = scan[p].options /\ s.pc = "write"
        /\ s.shortcut = scan[p].shortcut /\ s.capped = scan[p].capped
    BY <1>2 DEF Scans, Busy, Later
  <2>2. Change(p, s) /\ cache' \in {NoCache, Torn} \cup written' /\ written \subseteq written'
    BY <1>1, <1>4
  <2> HIDE DEF s
  <2>3. Sound(s, present[p])
    BY <1>1, <1>2, <2>1 DEF Sound, Busy, Later
  <2> QED
    BY <1>1, <1>3, <2>1, <2>2, <2>3, OneScan
<1>5. CASE cache' = cache /\ Change(p, [scan[p] EXCEPT !.pc = "done"])
  <2> DEFINE s == [scan[p] EXCEPT !.pc = "done"]
  <2>1. /\ s \in Scans /\ s.found = scan[p].found /\ s.tier = scan[p].tier /\ s.next = scan[p].next
        /\ s.fromCache = scan[p].fromCache /\ s.options = scan[p].options /\ s.pc = "done"
        /\ s.shortcut = scan[p].shortcut /\ s.capped = scan[p].capped
    BY <1>2 DEF Scans, Busy, Later
  <2>2. Change(p, s) /\ Stay
    BY <1>1, <1>5 DEF Stay
  <2> HIDE DEF s
  <2>3. Sound(s, present[p])
    BY <1>1, <1>2, <2>1 DEF Sound, Busy, Later
  <2> QED
    BY <2>1, <2>2, <2>3, QuietScan
<1> QED
  BY <1>4, <1>5 DEF TruncateCache

LEMMA WriteCacheSound == ASSUME ScansInv, NEW p \in Procs, WriteCache(p) PROVE ScansInv'
<1> DEFINE mine == [state |-> "whole", found |-> scan[p].found, shortcut |-> scan[p].shortcut,
                    capped |-> scan[p].capped, at |-> scan[p].at]
           s == [scan[p] EXCEPT !.pc = "done"]
<1>1. /\ scan[p].pc = "write" /\ Change(p, s)
      /\ \/ cache' = mine /\ written' = written \cup {mine}
         \/ (cache' = Torn \/ cache' = cache) /\ written' = written
  BY DEF WriteCache
<1>2. scan[p] \in Scans /\ Sound(scan[p], present[p])
  BY DEF ScansInv, Typed
<1>3. /\ \A w \in written : w.state = "whole" /\ w.found \in Seq(Records) /\ w.at \in Nat
                           /\ w.shortcut \in BOOLEAN /\ w.capped \in BOOLEAN
      /\ cache \in {NoCache, Torn} \cup written
  BY DEF ScansInv, Typed
<1>4. /\ mine.state = "whole" /\ mine.found \in Seq(Records) /\ mine.at \in Nat
      /\ mine.shortcut \in BOOLEAN /\ mine.capped \in BOOLEAN
  BY <1>2 DEF Scans
<1>5. /\ s \in Scans /\ s.found = scan[p].found /\ s.tier = scan[p].tier /\ s.next = scan[p].next
      /\ s.fromCache = scan[p].fromCache /\ s.options = scan[p].options /\ s.pc = "done"
      /\ s.shortcut = scan[p].shortcut /\ s.capped = scan[p].capped
  BY <1>2 DEF Scans, Busy, Later
<1> HIDE DEF mine, s
<1>6. written \subseteq written' /\ cache' \in {NoCache, Torn} \cup written'
  BY <1>1, <1>3
<1>7. \A w \in written' : w.state = "whole" /\ w.found \in Seq(Records) /\ w.at \in Nat
                          /\ w.shortcut \in BOOLEAN /\ w.capped \in BOOLEAN
  BY <1>1, <1>3, <1>4
<1>8. Sound(s, present[p])
  BY <1>1, <1>2, <1>5 DEF Sound, Busy, Later
<1> QED
  BY <1>1, <1>5, <1>6, <1>7, <1>8, OneScan

LEMMA StopSound == ASSUME ScansInv, NEW p \in Procs, ToolHangs(p) \/ Kill(p) PROVE ScansInv'
<1>1. scan[p] \in Scans /\ Sound(scan[p], present[p])
  BY DEF ScansInv, Typed
<1>2. <<>> \in Seq(Records)
  OBVIOUS
<1>3. CASE ToolHangs(p)
  <2> DEFINE s == [scan[p] EXCEPT !.pc = "failed", !.found = <<>>, !.helper = "none"]
  <2>1. Stay /\ Change(p, s) /\ scan[p].pc \in {"tier", "finalize"}
    BY <1>3 DEF ToolHangs
  <2>2. s \in Scans /\ s.options = scan[p].options /\ s.pc = "failed" /\ s.fromCache = scan[p].fromCache
    BY <1>1, <1>2 DEF Scans
  <2> HIDE DEF s
  <2>3. Sound(s, present[p])
    BY <1>1, <2>1, <2>2 DEF Sound, Busy, Later
  <2> QED
    BY <2>1, <2>2, <2>3, QuietScan
<1>4. CASE Kill(p)
  <2> DEFINE s == [scan[p] EXCEPT !.pc = "killed"]
  <2>1. Stay /\ Change(p, s) /\ scan[p].pc = "write"
    BY <1>4 DEF Kill
  <2>2. s \in Scans /\ s.options = scan[p].options /\ s.pc = "killed" /\ s.fromCache = scan[p].fromCache
    BY <1>1 DEF Scans
  <2> HIDE DEF s
  <2>3. Sound(s, present[p])
    BY <1>1, <2>1, <2>2 DEF Sound, Busy, Later
  <2> QED
    BY <2>1, <2>2, <2>3, QuietScan
<1> QED
  BY <1>3, <1>4

\* A file that comes or goes while the scan stands still.
LEMMA StaysSound ==
    ASSUME NEW q, NEW s, NEW old, NEW new, Sound(s, old), scan'[q] = s, present'[q] = new,
           host' = host, written' = written,
           new.always \subseteq old.always, old.ever \subseteq new.ever,
           s.pc \in Busy => new.always \subseteq files' /\ files' \subseteq new.ever
    PROVE  Sound(scan[q], present[q])'
<1>1. \A f : Findable(f)' <=> Findable(f)
  BY DEF Findable, ArchFor, HelperArch
<1>2. FlagsRight(s.found, old.always) => FlagsRight(scan[q].found, present[q].always)'
  BY DEF FlagsRight
<1>3. Right(host.os, s.tier, s.next, s.found, old.always, old.ever)
      => Right(host.os, s.tier, s.next, s.found, new.always, new.ever)
  <2> DEFINE a == old.always
             b == old.ever
             c == new.always
             d == new.ever
  <2>1. c \subseteq a /\ b \subseteq d
    OBVIOUS
  <2> HIDE DEF a, b, c, d
  <2>2. Right(host.os, s.tier, s.next, s.found, a, b) => Right(host.os, s.tier, s.next, s.found, c, d)
    BY <2>1, FilesCome, Zenon
  <2> QED
    BY <2>2 DEF a, b, c, d
<1>4. (\A f \in old.always : Findable(f) => f \in Listed(s.found) \/ (s.pc = "probe" /\ f \in s.queue))
      => \A f \in new.always : Findable(f)' => f \in Listed(s.found) \/ (s.pc = "probe" /\ f \in s.queue)
  BY <1>1
<1> QED
  BY <1>2, <1>3, <1>4 DEF Sound

LEMMA InstallOrRemoveSound ==
    ASSUME ScansInv, NEW f \in Files, InstallOrRemove(f) PROVE ScansInv'
<1>1. /\ changes' = changes + 1 /\ host' = host /\ clock' = clock /\ cache' = cache /\ scan' = scan
      /\ written' = written /\ files' \in SUBSET Files
      /\ present' = [p \in Procs |->
            IF p \in Running THEN [always |-> present[p].always \cap files',
                                   ever |-> present[p].ever \cup files'] ELSE present[p]]
  BY DEF InstallOrRemove, ScansInv, Typed
<1>2. \A p \in Procs : present[p] \in [always : SUBSET Files, ever : SUBSET Files]
  BY DEF ScansInv, Typed
<1>3. Typed'
  <2>1. \A p \in Procs : present'[p] \in [always : SUBSET Files, ever : SUBSET Files]
    <3> SUFFICES ASSUME NEW p \in Procs PROVE present'[p] \in [always : SUBSET Files, ever : SUBSET Files]
      OBVIOUS
    <3>1. CASE p \in Running
      <4>1. present'[p] = [always |-> present[p].always \cap files', ever |-> present[p].ever \cup files']
        BY <1>1, <3>1
      <4>2. present[p].always \cap files' \in SUBSET Files /\ present[p].ever \cup files' \in SUBSET Files
        BY <1>1, <1>2
      <4> QED
        BY <4>1, <4>2
    <3>2. CASE p \notin Running
      BY <1>1, <1>2, <3>2
    <3> QED
      BY <3>1, <3>2
  <2>2. present' \in [Procs -> [always : SUBSET Files, ever : SUBSET Files]]
    <3>1. present' = [p \in Procs |-> present'[p]]
      BY <1>1
    <3> QED
      BY <2>1, <3>1
  <2> QED
    BY <1>1, <2>2 DEF ScansInv, Typed
<1>5. ASSUME NEW p \in Procs PROVE Sound(scan[p], present[p])'
  <2>1. Sound(scan[p], present[p]) /\ scan[p] \in Scans
    BY DEF ScansInv, Typed
  <2>2. CASE p \in Running
    <3>1. present'[p] = [always |-> present[p].always \cap files', ever |-> present[p].ever \cup files']
      BY <1>1, <2>2
    <3>2. /\ present'[p].always \subseteq present[p].always /\ present[p].ever \subseteq present'[p].ever
          /\ present'[p].always \subseteq files' /\ files' \subseteq present'[p].ever
      BY <3>1
    <3>3. scan'[p] = scan[p]
      BY <1>1
    <3> QED
      BY <1>1, <2>1, <3>2, <3>3, StaysSound
  <2>3. CASE p \notin Running
    <3>1. present'[p] = present[p] /\ scan'[p] = scan[p]
      BY <1>1, <2>3
    <3>2. scan[p].pc \notin Busy
      BY <2>3 DEF Running, Busy, Later
    <3> QED
      BY <1>1, <2>1, <3>1, <3>2, StaysSound
  <2> QED
    BY <2>2, <2>3
<1> QED
  BY <1>3, <1>5 DEF ScansInv

LEMMA QuietWorld ==
    ASSUME ScansInv, clock' \in Nat, host' = host, files' = files, changes' = changes, cache' = cache,
           scan' = scan, written' = written, present' = present
    PROVE  ScansInv'
<1>1. Typed'
  BY DEF ScansInv, Typed
<1>2. ASSUME NEW p \in Procs PROVE Sound(scan[p], present[p])'
  <2>1. Sound(scan[p], present[p]) /\ scan'[p] = scan[p] /\ present'[p] = present[p]
    BY DEF ScansInv
  <2> QED
    BY <2>1, SoundStays
<1> QED
  BY <1>1, <1>2 DEF ScansInv

LEMMA ScansStep == ScansInv /\ [AggNext]_allVars => ScansInv'
<1> SUFFICES ASSUME ScansInv, [AggNext]_allVars PROVE ScansInv'
  OBVIOUS
<1>1. ASSUME NEW p \in Procs, StartScan(p) \/ Step(p) \/ Kill(p) PROVE ScansInv'
  BY <1>1, StartScanSound, ReadCacheSound, LookUpSound, NextTierSound, TryProxySound, GlobSound,
     ProbeSound, FinalizeSound, TruncateCacheSound, WriteCacheSound, StopSound DEF Step
<1>2. ASSUME NEW f \in Files, InstallOrRemove(f) PROVE ScansInv'
  BY <1>2, InstallOrRemoveSound
<1>3. CASE Tick
  <2>1. clock \in Nat
    BY DEF ScansInv, Typed
  <2> QED
    BY <1>3, <2>1, QuietWorld DEF Tick
<1>4. CASE UNCHANGED discVars
  <2>1. clock \in Nat
    BY DEF ScansInv, Typed
  <2> QED
    BY <1>4, <2>1, QuietWorld DEF discVars, world
<1>5. CASE AggNext
  BY <1>1, <1>2, <1>3, <1>4, <1>5 DEF AggNext, DiscNext, Enumerate, ReadToken, ReadStore, Merge
<1>6. CASE UNCHANGED allVars
  BY <1>4, <1>6 DEF allVars
<1> QED
  BY <1>5, <1>6

\* Every scan is sound at every moment, whatever the others, the files and the cache do
\* (discover() in discovery.py).
THEOREM ScansInductive == AggSpec => []ScansInv
<1> QED
  BY ScansInit, ScansStep, PTL DEF AggSpec

-----------------------------------------------------------------------------
(* What the runs check *)

\* Type correctness: every record any scan lists is a candidate of the right form, and the
\* cache is absent, torn, or one that was written whole (_Collector, _write_cache).
THEOREM DiscTypeCorrect == AggSpec => []DiscTypeOK
<1>1. ASSUME ScansInv PROVE DiscTypeOK
  <2>1. ASSUME NEW p \in Procs PROVE
          /\ scan[p].options \in Uses[p] \cup {NoOptions} /\ scan[p].helper \in {"none", "up"}
          /\ \A i \in DOMAIN scan[p].found : scan[p].found[i] \in Records
    <3>1. scan[p] \in Scans /\ scan[p].options \in Uses[p] \cup {NoOptions}
      BY <1>1 DEF ScansInv, Typed
    <3>2. scan[p].found \in Seq(Records) /\ scan[p].helper \in {"none", "up"}
      BY <3>1 DEF Scans
    <3> QED
      BY <3>1, <3>2, Positions
  <2>2. \A c \in Records : /\ c.file \in Files /\ c.tier \in 1 .. 4 /\ c.source \in Sources
                           /\ c.track \in {"A", "B"} /\ c.confidence \in 0 .. 100
    BY DEF Records
  <2> QED
    BY <1>1, <2>1, <2>2 DEF ScansInv, Typed, DiscTypeOK
<1> QED
  BY <1>1, ScansInductive, PTL

\* What an answer of a scan's own rests on.
LEMMA FreshIsSound ==
    ASSUME ScansInv, NEW p \in Procs, Fresh(p)
    PROVE  /\ Right(host.os, 4, scan[p].next, scan[p].found, present[p].always, present[p].ever)
           /\ FlagsRight(scan[p].found, present[p].always)
           /\ scan[p].options.deep /\ ~scan[p].shortcut /\ ~scan[p].capped =>
                 \A f \in present[p].always : Findable(f) => f \in Listed(scan[p].found)
           /\ scan[p].found \in Seq(Records) /\ host.os \in Systems
<1>1. Sound(scan[p], present[p]) /\ scan[p] \in Scans /\ host \in Hosts
  BY DEF ScansInv, Typed
<1>2. scan[p].pc \in {"done", "truncate", "write"} /\ ~scan[p].fromCache
  BY DEF Fresh, Answered
<1>3. scan[p].tier = 4
  BY <1>1, <1>2 DEF Sound, Later
<1>4. scan[p].found \in Seq(Records) /\ host.os \in Systems
  BY <1>1 DEF Scans, Hosts
<1> QED
  BY <1>1, <1>2, <1>3, <1>4 DEF Sound, Busy, Later

\* After the third tier all that the tiers say has been heard.
LEMMA AllHeard ==
    ASSUME NEW os, NEW n, NEW s
    PROVE  Heard(os, 4, n, s) <=> \E t \in 1 .. 3 : s \in Range(Tiers[os][t])
<1>1. \A t \in 1 .. 3 : t < 4
  OBVIOUS
<1> QED
  BY <1>1 DEF Heard, Range

\* SaidOf is what a record rests on.
LEMMA SaidIsAbout ==
    ASSUME NEW n, NEW found \in Seq(Records), NEW always, NEW ever, NEW i \in DOMAIN found,
           Right(host.os, 4, n, found, always, ever)
    PROVE  \A s : s \in SaidOf(found[i].file, found) <=> About(host.os, 4, n, found[i], s)
<1>1. (\E c \in Range(found) : c.file = found[i].file /\ c.validated /\ c.tier = 4) <=> found[i].tier = 4
  <2>1. /\ \A j \in DOMAIN found : found[j].file = found[i].file => j = i
        /\ found[i].tier = 4 => found[i].validated
    BY DEF Right
  <2> QED
    BY <2>1 DEF Range
<1>2. \A s : s \in UNION {Range(Tiers[host.os][t]) : t \in 1 .. 3} <=> Heard(host.os, 4, n, s)
  BY AllHeard
<1>3. \A s : s \in SaidOf(found[i].file, found)
             <=> \/ s \in UNION {Range(Tiers[host.os][t]) : t \in 1 .. 3} /\ s.file = found[i].file
                 \/ s = Probed(found[i].file) /\ found[i].tier = 4
  BY <1>1 DEF SaidOf
<1>4. Probed(found[i].file).file = found[i].file
  BY DEF Probed, Said
<1> QED
  BY <1>2, <1>3, <1>4 DEF About

\* Whatever order the sources name a library in, it has one record, that of the first tier
\* that names it, with the best of what is said of it, and its flag for the bridge is right
\* (_Collector.add and finalize, needs_arch_bridge).
THEOREM RecordsAreAlwaysRight == AggSpec => []RecordsAreRight
<1>1. ASSUME ScansInv PROVE RecordsAreRight
  <2> SUFFICES ASSUME NEW p \in Procs, Fresh(p)
      PROVE
        /\ \A i, j \in DOMAIN scan[p].found :
              i # j => scan[p].found[i].file # scan[p].found[j].file
        /\ \A c \in Range(scan[p].found) :
              LET all == SaidOf(c.file, scan[p].found) IN
              /\ c.label # "hypothesis"
              /\ c.file \in present[p].always =>
                    /\ \E s \in all : /\ s.tier = c.tier /\ s.source = c.source
                                     /\ s.track = c.track /\ s.label = c.label
                    /\ \A s \in all : c.tier <= s.tier /\ s.confidence <= c.confidence
                    /\ (c.hint = NoHint) = (\A s \in all : s.hint = NoHint)
              /\ c.bridge => ~Loads(host.arch, Slices[c.file])
              /\ c.file \in present[p].always /\ ~c.bridge /\ ~Loads(host.arch, Slices[c.file]) =>
                    Cardinality(Slices[c.file]) # 1 \/ host.os = "macos"
    BY DEF RecordsAreRight
  <2> DEFINE found == scan[p].found
             always == present[p].always
             ever == present[p].ever
             next == scan[p].next
  <2>1. /\ Right(host.os, 4, next, found, always, ever) /\ FlagsRight(found, always)
        /\ found \in Seq(Records) /\ host.os \in Systems
    BY <1>1, FreshIsSound
  <2> HIDE DEF found, always, ever, next
  <2>2. \A i, j \in DOMAIN found : i # j => found[i].file # found[j].file
    BY <2>1 DEF Right
  <2>3. ASSUME NEW c \in Range(found)
        PROVE LET all == SaidOf(c.file, found) IN
              /\ c.label # "hypothesis"
              /\ c.file \in always =>
                    /\ \E s \in all : /\ s.tier = c.tier /\ s.source = c.source
                                     /\ s.track = c.track /\ s.label = c.label
                    /\ \A s \in all : c.tier <= s.tier /\ s.confidence <= c.confidence
                    /\ (c.hint = NoHint) = (\A s \in all : s.hint = NoHint)
              /\ c.bridge => ~Loads(host.arch, Slices[c.file])
              /\ c.file \in always /\ ~c.bridge /\ ~Loads(host.arch, Slices[c.file]) =>
                    Cardinality(Slices[c.file]) # 1 \/ host.os = "macos"
    <3> DEFINE all == SaidOf(c.file, found)
    <3>0. PICK i \in DOMAIN found : c = found[i]
      BY DEF Range
    <3>1. c \in Records
      BY <2>1, <3>0, Positions
    <3>2. c.label # "hypothesis"
      BY <3>1 DEF Records
    <3>3. \A s : s \in all <=> About(host.os, 4, next, c, s)
      BY <2>1, <3>0, SaidIsAbout
    <3>4. c.file \in always => Faithful(host.os, 4, next, c)
      BY <2>1, <3>0 DEF Right
    <3>5. /\ c.bridge => ~Loads(host.arch, Slices[c.file])
          /\ c.file \in always /\ ~c.bridge /\ ~Loads(host.arch, Slices[c.file]) =>
                Cardinality(Slices[c.file]) # 1 \/ host.os = "macos"
      BY <2>1, <3>0 DEF FlagsRight
    <3> HIDE DEF all
    <3>6. c.file \in always =>
             /\ \E s \in all : /\ s.tier = c.tier /\ s.source = c.source
                              /\ s.track = c.track /\ s.label = c.label
             /\ \A s \in all : c.tier <= s.tier /\ s.confidence <= c.confidence
             /\ (c.hint = NoHint) = (\A s \in all : s.hint = NoHint)
      BY <3>3, <3>4 DEF Faithful
    <3> QED
      BY <3>2, <3>5, <3>6 DEF all
  <2> QED
    BY <2>2, <2>3 DEF found, always
<1> QED
  BY <1>1, ScansInductive, PTL

\* An answer lists only files that were there, and every one that stayed and that a tier
\* names or, when the search is deep, that a probe can find; one from the cache was written
\* whole and is not too old (discover(), _read_cache).
THEOREM AnswersAreTrue == AggSpec => []AnswerIsTrue
<1>1. ASSUME ScansInv PROVE AnswerIsTrue
  <2>1. ASSUME NEW p \in Procs, Fresh(p)
        PROVE  /\ Listed(scan[p].found) \subseteq present[p].ever
               /\ \A f \in present[p].always :
                     \/ \E t \in 1 .. 3 : \E s \in Range(Tiers[host.os][t]) : s.file = f
                     \/ scan[p].options.deep /\ ~scan[p].shortcut /\ ~scan[p].capped /\ Findable(f)
                     => f \in Listed(scan[p].found)
    <3>1. /\ Right(host.os, 4, scan[p].next, scan[p].found, present[p].always, present[p].ever)
          /\ scan[p].options.deep /\ ~scan[p].shortcut /\ ~scan[p].capped =>
                \A f \in present[p].always : Findable(f) => f \in Listed(scan[p].found)
      BY <1>1, <2>1, FreshIsSound
    <3>2. Listed(scan[p].found) \subseteq present[p].ever
      BY <3>1 DEF Right, Listed
    <3>3. ASSUME NEW f \in present[p].always, NEW t \in 1 .. 3, NEW s \in Range(Tiers[host.os][t]), s.file = f
          PROVE  f \in Listed(scan[p].found)
      <4>1. Heard(host.os, 4, scan[p].next, s)
        BY AllHeard
      <4> QED
        BY <3>1, <3>3, <4>1 DEF Right, Listed
    <3> QED
      BY <3>1, <3>2, <3>3
  <2>2. ASSUME NEW p \in Procs, Answered(p), scan[p].fromCache
        PROVE  \E w \in written : w.found = scan[p].found /\ scan[p].at - w.at <= Ttl
    BY <1>1, <2>2 DEF ScansInv, Sound
  <2> QED
    BY <2>1, <2>2 DEF AnswerIsTrue
<1> QED
  BY <1>1, ScansInductive, PTL
-----------------------------------------------------------------------------
(* What the merge keeps *)

Direct == {"PKCS11", "BRIDGE", "P11KIT", "PACKAGE"}
Seen == [token : Tokens, source : Direct]
Raws == [cert : Certs, key : BOOLEAN, source : Direct \cup {"STORE"}, at : Nat]

LEMMA RankType ==
    /\ \A s \in Direct \cup {"STORE"} : Rank[s] \in Nat
    /\ \A s \in Direct : Rank[s] < Rank["STORE"]
BY DEF Rank, Direct

\* _better() is an order in which nothing is better than itself.
LEMMA BetterOrder ==
    ASSUME NEW a \in Raws, NEW b \in Raws, NEW c \in Raws
    PROVE  /\ ~Better(a, a)
           /\ Better(a, b) /\ Better(b, c) => Better(a, c)
           /\ Better(b, c) => ~Better(c, b)
<1> DEFINE x == Rank[a.source]
           y == Rank[b.source]
           z == Rank[c.source]
<1>1. x \in Nat /\ y \in Nat /\ z \in Nat
  <2>1. /\ a.source \in Direct \cup {"STORE"} /\ b.source \in Direct \cup {"STORE"}
        /\ c.source \in Direct \cup {"STORE"}
    BY DEF Raws
  <2> QED
    BY <2>1, RankType
<1>2. ~(x < x) /\ (x < y /\ y < z => x < z) /\ (y < z => ~(z < y))
  BY <1>1
<1>3. a.key \in BOOLEAN /\ b.key \in BOOLEAN /\ c.key \in BOOLEAN
  BY DEF Raws
<1>4. /\ Better(a, a) <=> x < x
      /\ Better(a, b) <=> IF a.key # b.key THEN a.key ELSE x < y
      /\ Better(b, c) <=> IF b.key # c.key THEN b.key ELSE y < z
      /\ Better(a, c) <=> IF a.key # c.key THEN a.key ELSE x < z
      /\ Better(c, b) <=> IF c.key # b.key THEN c.key ELSE z < y
  BY <1>3 DEF Better
<1> HIDE DEF x, y, z
<1> QED
  BY <1>2, <1>3, <1>4

\* The copies up to the k-th have been looked at.
Best(copies, k, w) ==
    /\ DOMAIN w = {copies[i].cert : i \in 1 .. k}
    /\ \A c \in DOMAIN w :
          /\ \E i \in 1 .. k : w[c] = copies[i] /\ copies[i].cert = c
          /\ \A i \in 1 .. k : copies[i].cert = c => ~Better(copies[i], w[c])

\* One more copy.
LEMMA TakenBest ==
    ASSUME NEW copies \in Seq(Raws), NEW k \in 1 .. Len(copies), NEW w, Best(copies, k - 1, w)
    PROVE  Best(copies, k, Taken(w, copies[k]))
<1> DEFINE r == copies[k]
           now == Taken(w, r)
<1>1. /\ Len(copies) \in Nat /\ DOMAIN copies = 1 .. Len(copies)
      /\ \A i \in DOMAIN copies : copies[i] \in Raws
  BY Positions
<1>2. 1 .. k = 1 .. k - 1 \cup {k} /\ k \notin 1 .. k - 1 /\ 1 .. k \subseteq DOMAIN copies
  BY <1>1
<1>3. /\ DOMAIN w = {copies[i].cert : i \in 1 .. k - 1}
      /\ \A c \in DOMAIN w :
            /\ \E i \in 1 .. k - 1 : w[c] = copies[i] /\ copies[i].cert = c
            /\ \A i \in 1 .. k - 1 : copies[i].cert = c => ~Better(copies[i], w[c])
  BY DEF Best
<1>4. \A c \in DOMAIN w : w[c] \in Raws
  BY <1>1, <1>2, <1>3
<1>5. r \in Raws
  BY <1>1
<1>6. CASE r.cert \in DOMAIN w /\ ~Better(r, w[r.cert])
  <2>1. now = w
    BY <1>6 DEF Taken
  <2> HIDE DEF now
  <2>2. DOMAIN w = {copies[i].cert : i \in 1 .. k}
    BY <1>2, <1>3, <1>6
  <2>3. \A c \in DOMAIN w : \E i \in 1 .. k : w[c] = copies[i] /\ copies[i].cert = c
    BY <1>2, <1>3
  <2>4. \A c \in DOMAIN w : \A i \in 1 .. k : copies[i].cert = c => ~Better(copies[i], w[c])
    BY <1>2, <1>3, <1>6
  <2>5. Best(copies, k, now)
    BY <2>1, <2>2, <2>3, <2>4 DEF Best
  <2> QED
    BY <2>5 DEF now
<1>7. CASE r.cert \notin DOMAIN w \/ Better(r, w[r.cert])
  <2>1. now = [c \in DOMAIN w \cup {r.cert} |-> IF c = r.cert THEN r ELSE w[c]]
    BY <1>7 DEF Taken
  <2>2. /\ DOMAIN now = DOMAIN w \cup {r.cert} /\ now[r.cert] = r
        /\ \A c \in DOMAIN w : c # r.cert => now[c] = w[c]
    BY <2>1
  <2> HIDE DEF now
  <2>3. DOMAIN now = {copies[i].cert : i \in 1 .. k}
    BY <1>2, <1>3, <2>2
  <2>4. \A c \in DOMAIN now : \E i \in 1 .. k : now[c] = copies[i] /\ copies[i].cert = c
    BY <1>2, <1>3, <2>2
  <2>5. ASSUME NEW c \in DOMAIN now, NEW i \in 1 .. k, copies[i].cert = c
        PROVE  ~Better(copies[i], now[c])
    <3>1. copies[i] \in Raws
      BY <1>1, <1>2
    <3>2. CASE c # r.cert
      BY <1>2, <1>3, <2>2, <2>5, <3>2
    <3>3. CASE c = r.cert
      <4>1. CASE i = k
        BY <1>5, <2>2, <3>3, <4>1, BetterOrder
      <4>2. CASE i # k
        <5>1. i \in 1 .. k - 1 /\ c \in DOMAIN w
          BY <1>2, <1>3, <2>5, <4>2
        <5>2. ~Better(copies[i], w[c]) /\ Better(r, w[c]) /\ w[c] \in Raws
          BY <1>3, <1>4, <1>7, <2>5, <3>3, <5>1
        <5> QED
          BY <1>5, <2>2, <3>1, <3>3, <5>2, BetterOrder
      <4> QED
        BY <4>1, <4>2
    <3> QED
      BY <3>2, <3>3
  <2>6. Best(copies, k, now)
    BY <2>3, <2>4, <2>5 DEF Best
  <2> QED
    BY <2>6 DEF now
<1> QED
  BY <1>6, <1>7

\* The loop ends with the best copy of every certificate.
LEMMA WinnersBest ==
    ASSUME NEW copies \in Seq(Raws)
    PROVE  Best(copies, Len(copies), Winners(copies))
<1> DEFINE N == Len(copies)
           Body(g, m) == [k \in 0 .. m |-> IF k = 0 THEN <<>> ELSE Taken(g[k - 1], copies[k])]
           Solves(g, m) == g = Body(g, m)
           K == {m \in 0 .. N : ~ \E g : Solves(g, m)}
<1>0. N \in Nat
  BY LenProperties
<1>1. K = {}
  <2> SUFFICES ASSUME K # {} PROVE FALSE
    OBVIOUS
  <2>1. PICK m \in K : \A j \in K : m <= j
    <3> HIDE DEF Solves, N
    <3>1. K \subseteq Nat
      BY <1>0
    <3> QED
      BY <3>1, LeastExists
  <2>2. m \in 0 .. N /\ ~ \E g : Solves(g, m)
    OBVIOUS
  <2>3. CASE m = 0
    <3> DEFINE first == [k \in 0 .. 0 |-> <<>>]
    <3>1. \A k \in 0 .. 0 : k = 0 /\ first[k] = <<>>
      OBVIOUS
    <3>2. first = [k \in 0 .. 0 |-> IF k = 0 THEN <<>> ELSE Taken(first[k - 1], copies[k])]
      BY <3>1
    <3> HIDE DEF first
    <3>3. Solves(first, 0)
      BY <3>2
    <3> QED
      BY <2>2, <2>3, <3>3
  <2>4. CASE m # 0
    <3>0. m - 1 \in 0 .. N /\ ~(m <= m - 1)
      BY <1>0, <2>2, <2>4
    <3>1. m - 1 \notin K
      <4> HIDE DEF K
      <4> QED
        BY <2>1, <3>0
    <3>2. PICK g : Solves(g, m - 1)
      <4> HIDE DEF Solves, N
      <4> QED
        BY <3>0, <3>1
    <3> DEFINE h == [k \in 0 .. m |-> IF k = m THEN Taken(g[m - 1], copies[m]) ELSE g[k]]
    <3>3. \A k \in 0 .. m : h[k] = IF k = 0 THEN <<>> ELSE Taken(h[k - 1], copies[k])
      <4> SUFFICES ASSUME NEW k \in 0 .. m
                   PROVE  h[k] = IF k = 0 THEN <<>> ELSE Taken(h[k - 1], copies[k])
        OBVIOUS
      <4>1. CASE k = m
        <5>1. h[k - 1] = g[k - 1]
          BY <2>2, <2>4, <4>1
        <5>2. h[k] = Taken(g[m - 1], copies[m])
          BY <4>1
        <5> QED
          BY <2>4, <4>1, <5>1, <5>2
      <4>2. CASE k # m
        <5>1. k \in 0 .. m - 1 /\ h[k] = g[k]
          BY <2>2, <4>2
        <5>2. g[k] = IF k = 0 THEN <<>> ELSE Taken(g[k - 1], copies[k])
          BY <3>2, <5>1
        <5>3. k # 0 => h[k - 1] = g[k - 1]
          BY <2>2, <5>1
        <5> QED
          BY <5>1, <5>2, <5>3
      <4> QED
        BY <4>1, <4>2
    <3>4. DOMAIN h = 0 .. m /\ h = [k \in 0 .. m |-> h[k]]
      OBVIOUS
    <3> HIDE DEF h
    <3>5. Solves(h, m)
      BY <3>3, <3>4
    <3> QED
      BY <2>2, <3>5
  <2> QED
    BY <2>3, <2>4
<1>2. \E g : Solves(g, N)
  <2>1. N \in 0 .. N
    BY <1>0
  <2> HIDE DEF Solves, N
  <2> QED
    BY <1>1, <2>1
<1> DEFINE f == CHOOSE g : Solves(g, N)
<1>3. Solves(f, N)
  BY <1>2, Zenon
<1>4. Winners(copies) = f[Len(copies)]
  BY Zenon DEF Winners
<1> HIDE DEF f
<1> DEFINE Bad == {m \in Nat : m \in 0 .. N /\ ~Best(copies, m, f[m])}
<1>5. Bad = {}
  <2> SUFFICES ASSUME Bad # {} PROVE FALSE
    OBVIOUS
  <2>1. PICK m \in Bad : \A j \in Bad : m <= j
    BY LeastExists
  <2>2. m \in 0 .. N /\ f[m] = IF m = 0 THEN <<>> ELSE Taken(f[m - 1], copies[m])
    BY <1>3
  <2>3. CASE m = 0
    <3>1. Best(copies, 0, <<>>)
      BY DEF Best
    <3> QED
      BY <2>1, <2>2, <2>3, <3>1
  <2>4. CASE m # 0
    <3>1. m - 1 \in Nat /\ m - 1 \in 0 .. N /\ m - 1 \notin Bad /\ m \in 1 .. N
      BY <1>0, <2>1, <2>2, <2>4
    <3>2. Best(copies, m - 1, f[m - 1])
      BY <3>1
    <3>3. Best(copies, m, Taken(f[m - 1], copies[m]))
      BY <3>1, <3>2, TakenBest
    <3> QED
      BY <2>1, <2>2, <2>4, <3>3
  <2> QED
    BY <2>3, <2>4
<1>6. Len(copies) \in 0 .. N
  BY <1>0
<1> QED
  BY <1>0, <1>4, <1>5, <1>6

\* A set in some order.
LEMMA InOrder ==
    ASSUME NEW S, IsFiniteSet(S)
    PROVE  /\ Cardinality(S) \in Nat
           /\ \A i \in 1 .. Cardinality(S) : SetToSeq(S)[i] \in S
<1>1. Cardinality(S) \in Nat /\ ExistsBijection(1 .. Cardinality(S), S)
  BY FS_CardinalityType
<1> DEFINE D == 1 .. Cardinality(S)
<1>2. \E f \in [D -> S] : IsInjective(f)
  <2>1. PICK f \in Bijection(D, S) : TRUE
    BY <1>1 DEF ExistsBijection
  <2>2. f \in [D -> S] /\ \A a, b \in D : f[a] = f[b] => a = b
    BY DEF Bijection, Injection, IsInjective
  <2> HIDE DEF D
  <2>3. IsInjective(f)
    BY <2>2 DEF IsInjective
  <2> QED
    BY <2>2, <2>3
<1>3. SetToSeq(S) \in [D -> S]
  BY <1>2, Zenon DEF SetToSeq
<1> QED
  BY <1>1, <1>3

\* A copy is of a certificate of its token, or one of those in the store.
Copied(r) ==
    IF r.at = 0 THEN r.source = "STORE" /\ ~r.key
    ELSE r.at \in DOMAIN seen /\ r.source \in Direct /\ r.cert \in Holds[seen[r.at].token]

MergeInv ==
    /\ seen \in Seq(Seen) /\ raws \in Seq(Raws)
    /\ apc = "none" => raws = <<>>
    /\ \A i \in DOMAIN raws : Copied(raws[i])
    /\ apc = "done" => Best(raws, Len(raws), records)

\* More copies after the first ones.
LEMMA MoreCopies ==
    ASSUME MergeInv, NEW n \in Nat, NEW more, more = [i \in 1 .. n |-> more[i]],
           \A i \in 1 .. n : more[i] \in Raws /\ Copied(more[i]),
           raws' = raws \o more, seen' = seen, apc # "done", apc' \in {"read", "merge"}
    PROVE  MergeInv'
<1>1. more \in Seq(Raws) /\ Len(more) = n
  BY IsASeq
<1>2. raws \in Seq(Raws) /\ \A i \in DOMAIN raws : Copied(raws[i])
  BY DEF MergeInv
<1>3. raws' \in Seq(Raws) /\ Len(raws') = Len(raws) + Len(more)
      /\ \A i \in 1 .. Len(raws) + Len(more) :
            raws'[i] = IF i <= Len(raws) THEN raws[i] ELSE more[i - Len(raws)]
  BY <1>1, <1>2, ConcatProperties
<1>4. Len(raws) \in Nat /\ DOMAIN raws = 1 .. Len(raws) /\ DOMAIN raws' = 1 .. Len(raws) + n
  BY <1>1, <1>2, <1>3, Positions
<1>5. \A i \in DOMAIN raws' : Copied(raws'[i])
  <2> SUFFICES ASSUME NEW i \in DOMAIN raws' PROVE Copied(raws'[i])
    OBVIOUS
  <2>1. CASE i <= Len(raws)
    BY <1>1, <1>2, <1>3, <1>4, <2>1
  <2>2. CASE ~(i <= Len(raws))
    <3>1. i - Len(raws) \in 1 .. n
      BY <1>4, <2>2
    <3> QED
      BY <1>1, <1>3, <1>4, <2>2, <3>1
  <2> QED
    BY <2>1, <2>2
<1>6. \A r : Copied(r) => (r.at = 0 => r.source = "STORE" /\ ~r.key)
                         /\ (r.at # 0 => r.at \in DOMAIN seen' /\ r.source \in Direct
                                         /\ r.cert \in Holds[seen'[r.at].token])
  BY DEF Copied
<1>7. (\A i \in DOMAIN raws : Copied(raws[i]))'
  BY <1>5, <1>6 DEF Copied
<1> QED
  BY <1>3, <1>7 DEF MergeInv

LEMMA EnumerateSound ==
    ASSUME ScansInv, MergeInv, NEW p \in Procs, Enumerate(p) PROVE MergeInv'
<1>1. apc = "none" /\ apc' = "read" /\ raws' = raws /\ raws = <<>>
  BY DEF Enumerate, MergeInv
<1>2. scan[p].found \in Seq(Records)
  BY DEF ScansInv, Typed, Scans
<1> DEFINE found == scan[p].found
<1>3. Len(found) \in Nat /\ DOMAIN found = 1 .. Len(found) /\ \A i \in DOMAIN found : found[i] \in Records
  BY <1>2, Positions
<1>4. PICK failing \in SUBSET Listed(found) :
         LET shown(c) == IF c.file \in failing \/ c.file \notin files THEN <<>>
                         ELSE [i \in 1 .. Cardinality(Shows[c.file]) |->
                                 [token |-> SetToSeq(Shows[c.file])[i], source |-> Source(c)]]
         IN  seen' = FlattenSeq([i \in DOMAIN found |-> shown(found[i])])
  BY DEF Enumerate
<1> DEFINE shown(c) == IF c.file \in failing \/ c.file \notin files THEN <<>>
                       ELSE [i \in 1 .. Cardinality(Shows[c.file]) |->
                               [token |-> SetToSeq(Shows[c.file])[i], source |-> Source(c)]]
           all == [i \in DOMAIN found |-> shown(found[i])]
<1>5. ASSUME NEW c \in Records PROVE shown(c) \in Seq(Seen)
  <2>1. Shows[c.file] \in SUBSET Tokens
    BY AggregatorAssumption DEF Records
  <2>2. IsFiniteSet(Shows[c.file])
    BY <2>1, AggregatorAssumption, FS_Subset
  <2>3. Cardinality(Shows[c.file]) \in Nat
        /\ \A i \in 1 .. Cardinality(Shows[c.file]) : SetToSeq(Shows[c.file])[i] \in Tokens
    BY <2>1, <2>2, InOrder
  <2>4. Source(c) \in Direct
    BY DEF Source, Direct
  <2> DEFINE seq == [i \in 1 .. Cardinality(Shows[c.file]) |->
                       [token |-> SetToSeq(Shows[c.file])[i], source |-> Source(c)]]
  <2>5. \A i \in 1 .. Cardinality(Shows[c.file]) : seq[i] \in Seen
    BY <2>3, <2>4 DEF Seen
  <2>6. seq = [i \in 1 .. Cardinality(Shows[c.file]) |-> seq[i]]
    OBVIOUS
  <2>7. shown(c) = <<>> \/ shown(c) = seq
    OBVIOUS
  <2> HIDE DEF seq, shown
  <2>8. seq \in Seq(Seen)
    BY <2>3, <2>5, <2>6, IsASeq
  <2>9. <<>> \in Seq(Seen)
    OBVIOUS
  <2> QED
    BY <2>7, <2>8, <2>9, Zenon
<1>6. seen' = FlattenSeq(all)
  BY <1>4
<1> HIDE DEF shown
<1>7. all = [i \in 1 .. Len(found) |-> all[i]] /\ \A i \in 1 .. Len(found) : all[i] \in Seq(Seen)
  BY <1>3, <1>5
<1> HIDE DEF all
<1>8. seen' \in Seq(Seen)
  BY <1>3, <1>6, <1>7, FlattenMapped
<1>9. \A i : i \notin DOMAIN raws'
  BY <1>1
<1> QED
  BY <1>1, <1>8, <1>9 DEF MergeInv

LEMMA ReadTokenSound == ASSUME MergeInv, ReadToken PROVE MergeInv'
<1>1. apc = "read" /\ apc' = "read" /\ seen' = seen
  BY DEF ReadToken
<1>2. Reached \in Nat
  <2>1. CASE raws = <<>>
    BY <2>1 DEF Reached
  <2>2. CASE raws # <<>>
    <3>1. raws \in Seq(Raws) /\ Len(raws) \in Nat /\ DOMAIN raws = 1 .. Len(raws)
          /\ \A i \in DOMAIN raws : raws[i] \in Raws
      BY Positions DEF MergeInv
    <3>2. Len(raws) \in DOMAIN raws
      BY <2>2, <3>1, EmptySeq
    <3>3. raws[Len(raws)].at \in Nat
      BY <3>1, <3>2 DEF Raws
    <3> QED
      BY <2>2, <3>3 DEF Reached, Last
  <2> QED
    BY <2>1, <2>2
<1>3. PICK at \in Reached + 1 .. Len(seen) :
         \E keyed \in SUBSET Holds[seen[at].token] :
            raws' = raws \o Copies(Holds[seen[at].token], keyed, seen[at].source, at)
  BY DEF ReadToken
<1>4. PICK keyed \in SUBSET Holds[seen[at].token] :
         raws' = raws \o Copies(Holds[seen[at].token], keyed, seen[at].source, at)
  BY <1>3
<1>5. Len(seen) \in Nat /\ DOMAIN seen = 1 .. Len(seen) /\ \A i \in DOMAIN seen : seen[i] \in Seen
  <2>1. seen \in Seq(Seen)
    BY DEF MergeInv
  <2> QED
    BY <2>1, Positions
<1>6. at \in Nat /\ at # 0 /\ at \in DOMAIN seen
  BY <1>2, <1>5
<1> DEFINE certs == Holds[seen[at].token]
           more == Copies(certs, keyed, seen[at].source, at)
<1>7. seen[at].token \in Tokens /\ seen[at].source \in Direct
  BY <1>5, <1>6 DEF Seen
<1>8. certs \in SUBSET Certs
  BY <1>7, AggregatorAssumption
<1>9. IsFiniteSet(certs)
  BY <1>8, AggregatorAssumption, FS_Subset
<1> HIDE DEF certs
<1>10. Cardinality(certs) \in Nat /\ \A i \in 1 .. Cardinality(certs) : SetToSeq(certs)[i] \in certs
  BY <1>9, InOrder
<1>11. \A i \in 1 .. Cardinality(certs) :
           more[i] = [cert |-> SetToSeq(certs)[i], key |-> SetToSeq(certs)[i] \in keyed,
                      source |-> seen[at].source, at |-> at]
  BY DEF Copies
<1>12. more = [i \in 1 .. Cardinality(certs) |-> more[i]]
  BY DEF Copies
<1>13. raws' = raws \o more
  BY <1>4 DEF certs
<1> HIDE DEF more
<1>14. ASSUME NEW i \in 1 .. Cardinality(certs) PROVE more[i] \in Raws /\ Copied(more[i])
  <2> DEFINE c == SetToSeq(certs)[i]
             k == c \in keyed
  <2>1. c \in certs /\ c \in Certs /\ k \in BOOLEAN
    BY <1>8, <1>10
  <2>2. more[i] = [cert |-> c, key |-> k, source |-> seen[at].source, at |-> at]
    BY <1>11
  <2> HIDE DEF c, k
  <2>3. more[i].cert = c /\ more[i].at = at /\ more[i].source = seen[at].source
    BY <2>2
  <2>4. more[i] \in Raws
    BY <1>6, <1>7, <2>1, <2>2 DEF Raws
  <2>5. Copied(more[i])
    BY <1>6, <1>7, <2>1, <2>3 DEF Copied, certs
  <2> QED
    BY <2>4, <2>5
<1> QED
  BY <1>1, <1>10, <1>12, <1>13, <1>14, MoreCopies

LEMMA ReadStoreSound == ASSUME ScansInv, MergeInv, ReadStore PROVE MergeInv'
<1>1. apc = "read" /\ apc' = "merge" /\ seen' = seen
  BY DEF ReadStore
<1>2. CASE raws' = raws
  BY <1>1, <1>2 DEF MergeInv, Copied
<1>3. ASSUME NEW stores \in Stores,
             LET certs == StoreOf(host.os, stores) IN
             raws' = raws \o [i \in DOMAIN certs |->
                                [cert |-> certs[i], key |-> FALSE, source |-> "STORE", at |-> 0]]
      PROVE  MergeInv'
  <2> DEFINE certs == StoreOf(host.os, stores)
             more == [i \in DOMAIN certs |-> [cert |-> certs[i], key |-> FALSE, source |-> "STORE", at |-> 0]]
  <2>1. certs \in Seq(Certs)
    <3> DEFINE all == FlattenSeq(stores)
               again(i) == host.os = "macos" /\ \E j \in DOMAIN all : j < i /\ all[j] = all[i]
               kept == [i \in DOMAIN all |-> IF again(i) THEN <<>> ELSE <<all[i]>>]
    <3>1. all \in Seq(Certs)
      BY AggregatorAssumption, FlattenType
    <3>2. certs = FlattenSeq(kept)
      BY DEF StoreOf
    <3> HIDE DEF certs, again, all
    <3>3. Len(all) \in Nat /\ DOMAIN all = 1 .. Len(all) /\ \A i \in DOMAIN all : all[i] \in Certs
      BY <3>1, Positions
    <3>4. kept = [i \in 1 .. Len(all) |-> kept[i]]
      BY <3>3
    <3>5. \A i \in 1 .. Len(all) : kept[i] \in Seq(Certs)
      <4> SUFFICES ASSUME NEW i \in 1 .. Len(all) PROVE kept[i] \in Seq(Certs)
        OBVIOUS
      <4>1. kept[i] = <<>> \/ kept[i] = <<all[i]>>
        BY <3>3
      <4>2. all[i] \in Certs
        BY <3>3
      <4> HIDE DEF kept
      <4>3. <<all[i]>> \in Seq(Certs) /\ <<>> \in Seq(Certs)
        BY <4>2
      <4> QED
        BY <4>1, <4>3
    <3> HIDE DEF kept
    <3> QED
      BY <3>2, <3>3, <3>4, <3>5, FlattenMapped
  <2>2. raws' = raws \o more
    BY <1>3
  <2> HIDE DEF certs
  <2>3. Len(certs) \in Nat /\ DOMAIN certs = 1 .. Len(certs) /\ \A i \in DOMAIN certs : certs[i] \in Certs
    BY <2>1, Positions
  <2>4. more = [i \in 1 .. Len(certs) |-> more[i]]
    BY <2>3
  <2>5. \A i \in 1 .. Len(certs) : more[i] \in Raws /\ Copied(more[i])
    <3> SUFFICES ASSUME NEW i \in 1 .. Len(certs) PROVE more[i] \in Raws /\ Copied(more[i])
      OBVIOUS
    <3>1. more[i] = [cert |-> certs[i], key |-> FALSE, source |-> "STORE", at |-> 0] /\ certs[i] \in Certs
      BY <2>3
    <3> HIDE DEF more
    <3>2. more[i] \in Raws
      BY <3>1 DEF Raws
    <3>3. more[i].at = 0 /\ more[i].source = "STORE" /\ ~more[i].key
      BY <3>1
    <3> QED
      BY <3>2, <3>3 DEF Copied
  <2> HIDE DEF more
  <2> QED
    BY <1>1, <2>2, <2>3, <2>4, <2>5, MoreCopies
<1> QED
  BY <1>2, <1>3 DEF ReadStore

LEMMA MergeSound == ASSUME MergeInv, Merge PROVE MergeInv'
<1>1. apc' = "done" /\ seen' = seen /\ raws' = raws /\ records' = Winners(raws)
  BY DEF Merge
<1>2. raws \in Seq(Raws) /\ seen \in Seq(Seen) /\ \A i \in DOMAIN raws : Copied(raws[i])
  BY DEF MergeInv
<1>3. Best(raws, Len(raws), Winners(raws))
  BY <1>2, WinnersBest
<1>4. Best(raws, Len(raws), records)'
  BY <1>1, <1>3
<1>5. (\A i \in DOMAIN raws : Copied(raws[i]))'
  BY <1>1, <1>2 DEF Copied
<1> QED
  BY <1>1, <1>2, <1>4, <1>5 DEF MergeInv

\* At every moment every copy read is of a certificate its token holds, or stored, and the
\* records at the end are the best copies (merge_all_sources).
THEOREM MergeInductive == AggSpec => []MergeInv
<1>1. AggInit => MergeInv
  BY DEF AggInit, MergeInv
<1>2. MergeInv /\ ScansInv /\ [AggNext]_allVars => MergeInv'
  <2> SUFFICES ASSUME MergeInv, ScansInv, [AggNext]_allVars PROVE MergeInv'
    OBVIOUS
  <2>1. CASE UNCHANGED aggVars
    <3>1. UNCHANGED <<apc, seen, raws, records>>
      BY <2>1 DEF aggVars
    <3>2. (\A i \in DOMAIN raws : Copied(raws[i]))'
      BY <3>1 DEF MergeInv, Copied
    <3>3. apc = "done" => Best(raws, Len(raws), records)'
      BY <3>1 DEF MergeInv
    <3> QED
      BY <3>1, <3>2, <3>3 DEF MergeInv
  <2>2. CASE AggNext
    BY <2>1, <2>2, EnumerateSound, ReadTokenSound, ReadStoreSound, MergeSound DEF AggNext
  <2>3. CASE UNCHANGED allVars
    BY <2>1, <2>3 DEF allVars
  <2> QED
    BY <2>2, <2>3
<1> QED
  BY <1>1, <1>2, ScansInductive, PTL DEF AggSpec

\* Through however many modules a token was seen, and whatever failed on the way, every
\* certificate that was read is listed once, in its best copy, under a token that holds it
\* (merge_all_sources, _better).
THEOREM BestCopyAlways == AggSpec => []BestCopyOnce
<1>1. ASSUME MergeInv PROVE BestCopyOnce
  <2> SUFFICES ASSUME apc = "done"
               PROVE  /\ DOMAIN records = {r.cert : r \in Range(raws)}
                      /\ \A c \in DOMAIN records :
                            LET best == records[c]
                                copies == {r \in Range(raws) : r.cert = c}
                            IN  /\ best \in copies
                                /\ best.key = (\E r \in copies : r.key)
                                /\ \A r \in copies : r.key = best.key => Rank[best.source] <= Rank[r.source]
                                /\ best.at # 0 => c \in Holds[seen[best.at].token]
                                /\ best.at = 0 => \A r \in copies : r.at = 0
    BY DEF BestCopyOnce
  <2>1. /\ Len(raws) \in Nat /\ DOMAIN raws = 1 .. Len(raws)
        /\ \A i \in DOMAIN raws : raws[i] \in Raws /\ Copied(raws[i])
    BY <1>1, Positions DEF MergeInv
  <2>2. /\ DOMAIN records = {raws[i].cert : i \in DOMAIN raws}
        /\ \A c \in DOMAIN records :
              /\ \E i \in DOMAIN raws : records[c] = raws[i] /\ raws[i].cert = c
              /\ \A i \in DOMAIN raws : raws[i].cert = c => ~Better(raws[i], records[c])
    BY <1>1, <2>1 DEF MergeInv, Best
  <2>3. DOMAIN records = {r.cert : r \in Range(raws)}
    BY <2>2 DEF Range
  <2>4. ASSUME NEW c \in DOMAIN records
        PROVE  LET best == records[c]
                   copies == {r \in Range(raws) : r.cert = c}
               IN  /\ best \in copies
                   /\ best.key = (\E r \in copies : r.key)
                   /\ \A r \in copies : r.key = best.key => Rank[best.source] <= Rank[r.source]
                   /\ best.at # 0 => c \in Holds[seen[best.at].token]
                   /\ best.at = 0 => \A r \in copies : r.at = 0
    <3> DEFINE best == records[c]
               copies == {r \in Range(raws) : r.cert = c}
    <3>1. best \in copies
      BY <2>2 DEF Range
    <3>2. \A r \in copies : r \in Raws /\ Copied(r) /\ r.cert = c /\ ~Better(r, best)
      BY <2>1, <2>2 DEF Range
    <3> HIDE DEF best, copies
    <3>3. \A r \in copies : r.key \in BOOLEAN /\ r.source \in Direct \cup {"STORE"}
      BY <3>2 DEF Raws
    <3>4. \A r \in copies : r.key => best.key
      BY <3>1, <3>2, <3>3 DEF Better
    <3>5. \A r \in copies : r.key = best.key => Rank[best.source] <= Rank[r.source]
      <4> SUFFICES ASSUME NEW r \in copies, r.key = best.key PROVE Rank[best.source] <= Rank[r.source]
        OBVIOUS
      <4>1. ~(Rank[r.source] < Rank[best.source])
        BY <3>2 DEF Better
      <4>2. Rank[r.source] \in Nat /\ Rank[best.source] \in Nat
        BY <3>1, <3>3, RankType
      <4> QED
        BY <4>1, <4>2
    <3>6. best.at # 0 => c \in Holds[seen[best.at].token]
      BY <3>1, <3>2 DEF Copied
    <3>7. best.at = 0 => \A r \in copies : r.at = 0
      <4> SUFFICES ASSUME best.at = 0, NEW r \in copies, r.at # 0 PROVE FALSE
        OBVIOUS
      <4>1. best.source = "STORE" /\ ~best.key
        BY <3>1, <3>2 DEF Copied
      <4>2. r.source \in Direct
        BY <3>2 DEF Copied
      <4>3. r.key = best.key
        BY <3>1, <3>3, <3>4, <4>1
      <4>4. Rank["STORE"] <= Rank[r.source] /\ Rank[r.source] < Rank["STORE"]
        BY <3>5, <4>1, <4>2, <4>3, RankType
      <4>5. Rank["STORE"] \in Nat /\ Rank[r.source] \in Nat
        BY <4>2, RankType
      <4> QED
        BY <4>4, <4>5
    <3>8. best.key = (\E r \in copies : r.key)
      BY <3>1, <3>3, <3>4
    <3> QED
      BY <3>1, <3>5, <3>6, <3>7, <3>8 DEF best, copies
  <2> QED
    BY <2>3, <2>4
<1> QED
  BY <1>1, MergeInductive, PTL
================================================================================
