----------------------------- MODULE Bridge_proofs -----------------------------
(***************************************************************************)
(* Proofs about Bridge, for any number of callers, closers and helpers.    *)
(* The inductive invariant says what the lock and the client allow         *)
(* (Control), which lines the pipes may hold (Ids, Mine), and how the      *)
(* requests still to be read and those executed add up to the attempts     *)
(* made (Counts).  For the remote call RInv adds the order of the lines    *)
(* (InOrder), which of them the waiting caller may still have unread       *)
(* (Newest), and what is left of a call that ended (Settled).              *)
(***************************************************************************)
EXTENDS Bridge, SequenceTheorems, TLAPS

Steps == {"idle", "lock", "ensure", "send", "wait", "failed", "drop", "shutdown", "kill", "done"}
Dropping == {"drop", "shutdown", "kill"}
WithClient == {"send", "wait", "failed"} \cup Dropping
Inside == {"ensure"} \cup WithClient

\* Threads, the lock and the client: there is never another helper alive, and
\* a dead one has nothing to do.
Control ==
    /\ \A c \in Threads : /\ pc[c] \in Inside => lock = c
                          /\ pc[c] \in WithClient => client # 0
    /\ \A c \in Closers : pc[c] \in {"idle", "lock", "done"} \cup Dropping
    /\ closed => /\ \A c \in Callers : pc[c] \notin Inside
                 /\ client = 0 \/ \E c \in Closers : pc[c] \in Dropping
    /\ \A h \in Helpers : /\ alive[h] => h = client
                          /\ ~alive[h] => input[h] = <<>> /\ doing[h] = Nothing

\* No line carries an id that is still to be given, and a line comes from an
\* operation that was executed.
Ids == \A h \in Helpers :
    /\ \A i \in 1 .. Len(input[h]) : input[h][i].id <= lastId[h]
    /\ \A i \in 1 .. Len(output[h]) : output[h][i].kind # "eof" =>
          output[h][i].id <= lastId[h] /\ executed[output[h][i].from] >= 1
    /\ doing[h] # Nothing =>
          doing[h].id <= lastId[h] /\ executed[doing[h].from] >= 1

\* The newest id is that of the caller who waits.
Mine == \A c \in Callers : pc[c] = "wait" =>
    /\ \A i \in 1 .. Len(input[client]) :
          input[client][i].id = lastId[client] => input[client][i].from = c
    /\ \A i \in 1 .. Len(output[client]) :
          output[client][i].kind # "eof" /\ output[client][i].id = lastId[client] =>
              output[client][i].from = c
    /\ doing[client] # Nothing /\ doing[client].id = lastId[client] => doing[client].from = c

\* A caller has at most one request that waits to be read; it is not executed yet.
Counts ==
    /\ \A c \in Callers :
          /\ executed[c] <= attempt[c]
          /\ pc[c] \in {"idle", "lock"} => attempt[c] = 0
          /\ pc[c] \in {"ensure", "send"} \cup Dropping => attempt[c] <= 1
          /\ pc[c] \in {"wait", "failed"} => attempt[c] \in 1 .. 2
          /\ pc[c] \in {"idle", "lock", "ensure", "send"} =>
                \A h \in Helpers : \A i \in 1 .. Len(input[h]) : input[h][i].from # c
    /\ \A h \in Helpers : \A i \in 1 .. Len(input[h]) :
          /\ executed[input[h][i].from] < attempt[input[h][i].from]
          /\ \A j \in 1 .. Len(input[h]) : input[h][i].from = input[h][j].from => i = j

\* What a caller was told.
Told == \A c \in Callers :
    answer[c].kind = "ok" => answer[c].from = c /\ executed[c] >= 1

IInv == TypeOK /\ Control /\ Ids /\ Mine /\ Counts /\ Told

-----------------------------------------------------------------------------
(***************************************************************************)
(* What taking a line from a queue leaves, and what adding one makes of it.*)
(***************************************************************************)
LEMMA TailLines ==
    ASSUME NEW S, NEW s \in Seq(S), s # <<>>
    PROVE  /\ Head(s) \in S /\ Head(s) = s[1] /\ 1 \in 1 .. Len(s)
           /\ Tail(s) \in Seq(S) /\ Len(Tail(s)) = Len(s) - 1
           /\ \A i \in 1 .. Len(Tail(s)) : i + 1 \in 1 .. Len(s) /\ Tail(s)[i] = s[i + 1]
<1>1. Len(s) \in Nat /\ Len(s) # 0
  BY EmptySeq
<1> QED BY <1>1, HeadTailProperties

LEMMA AppendLines ==
    ASSUME NEW S, NEW s \in Seq(S), NEW x \in S
    PROVE  /\ Append(s, x) \in Seq(S) /\ Len(Append(s, x)) = Len(s) + 1
           /\ \A i \in 1 .. Len(s) + 1 :
                 Append(s, x)[i] = IF i \in 1 .. Len(s) THEN s[i] ELSE x
BY AppendProperties

LEMMA EmptyLines == Len(<<>>) = 0 /\ \A S : <<>> \in Seq(S)
OBVIOUS

(***************************************************************************)
(* A thread is a caller or a closer, and only one is inside.               *)
(***************************************************************************)
LEMMA OneInside ==
    ASSUME TypeOK, Control, NEW c \in Threads, pc[c] \in Inside, NEW d \in Threads, pc[d] \in Inside
    PROVE  c = d
BY DEF Control

-----------------------------------------------------------------------------
(***************************************************************************)
(* The invariant holds initially.                                          *)
(***************************************************************************)
LEMMA InitIInv == Init => IInv
<1> SUFFICES ASSUME Init PROVE IInv
  OBVIOUS
<1>1. /\ \A h \in Helpers : /\ input[h] = <<>> /\ output[h] = <<>>
                            /\ Len(input[h]) = 0 /\ Len(output[h]) = 0
                            /\ doing[h] = Nothing /\ ~alive[h]
      /\ \A c \in Threads : pc[c] = "idle"
      /\ \A c \in Callers : /\ attempt[c] = 0 /\ executed[c] = 0
                            /\ answer[c].kind = "none"
      /\ closed = FALSE /\ Threads = Callers \cup Closers
  BY EmptyLines DEF Init, Threads
<1>2. TypeOK
  <2>1. /\ input \in [Helpers -> Seq(Requests)] /\ output \in [Helpers -> Seq(Lines)]
        /\ doing \in [Helpers -> Requests \cup {Nothing}]
    BY EmptyLines DEF Init
  <2>2. /\ lock \in Threads \cup {NoCaller} /\ closed \in BOOLEAN
        /\ client \in Helpers \cup {0} /\ spawned \in 0 .. MaxHelpers
    <3>1. lock \in Threads \cup {NoCaller} /\ closed \in BOOLEAN
      BY DEF Init
    <3>2. client = 0 /\ spawned = 0
      BY DEF Init
    <3>3. MaxHelpers \in Nat
      BY BridgeAssumption
    <3> QED BY <3>1, <3>2, <3>3
  <2>5. /\ alive \in [Helpers -> BOOLEAN] /\ hung \in [Helpers -> BOOLEAN]
        /\ dropped \in [Helpers -> BOOLEAN] /\ lastId \in [Helpers -> Nat]
    BY DEF Init
  <2>3. /\ pc \in [Threads -> Steps]
        /\ attempt \in [Callers -> 0 .. 2] /\ executed \in [Callers -> Nat]
        /\ module \in [Callers -> Modules]
        /\ opened \in [Callers -> SUBSET (Modules \cup {NoModule})]
    BY DEF Init, Steps
  <2>4. answer \in [Callers -> [kind : {"none", "ok", "error", "unavailable"},
                                from : Callers \cup {NoCaller}]]
    BY DEF Init
  <2> QED BY <2>1, <2>2, <2>3, <2>4, <2>5 DEF TypeOK, Steps
<1>3. Control
  BY <1>1 DEF Control, Inside, WithClient, Dropping
<1>4. Ids /\ Mine
  BY <1>1 DEF Ids, Mine
<1>5. Counts
  BY <1>1 DEF Counts, Dropping
<1>6. Told
  BY <1>1 DEF Told
<1> QED BY <1>2, <1>3, <1>4, <1>5, <1>6 DEF IInv

-----------------------------------------------------------------------------
(***************************************************************************)
(* Steps of a thread that leave the helper and its lines alone.            *)
(***************************************************************************)
LineVars == <<input, output, doing, lastId, executed, attempt>>
Answers == [kind : {"none", "ok", "error", "unavailable"}, from : Callers \cup {NoCaller}]

MovesTo(c, next) == pc' = [pc EXCEPT ![c] = next]

\* The steps of call, _drop_client and close that touch no line, by what they
\* do to the lock and to closed.
Quietly(c, next) ==
    \/ /\ pc[c] = "idle" /\ next = "lock"
       /\ UNCHANGED <<lock, closed>>
    \/ /\ c \in Callers /\ pc[c] = "lock" /\ lock = NoCaller /\ ~closed /\ next = "ensure"
       /\ lock' = c /\ UNCHANGED closed
    \/ /\ c \in Callers /\ pc[c] \in {"lock", "ensure", "failed"} /\ next = "done"
       /\ pc[c] = "lock" => lock = NoCaller
       /\ lock' = NoCaller /\ UNCHANGED closed
    \/ /\ c \in Closers /\ pc[c] = "lock" /\ lock = NoCaller /\ closed'
       /\ \/ client = 0 /\ next = "done" /\ UNCHANGED lock
          \/ client # 0 /\ next = "drop" /\ lock' = c
    \/ /\ \/ /\ c \in Callers
             /\ \/ pc[c] = "ensure" /\ client # 0 /\ next = "send"
                \/ pc[c] = "wait" /\ next = "failed"
                \/ pc[c] = "failed" /\ attempt[c] # 2 /\ next = "drop"
          \/ pc[c] = "drop" /\ next = "shutdown"
          \/ pc[c] = "shutdown" /\ next = "kill"
       /\ UNCHANGED <<lock, closed>>

LEMMA QuietMoves ==
    ASSUME IInv, NEW c \in Threads, NEW next \in Steps, MovesTo(c, next), Quietly(c, next),
           UNCHANGED LineVars, UNCHANGED <<alive, hung, spawned, client, module, opened>>,
           dropped' \in [Helpers -> BOOLEAN],
           answer' \in [Callers -> Answers],
           \A d \in Callers : answer'[d] = answer[d] \/ answer'[d].kind # "ok"
    PROVE  IInv'
<1> USE DEF IInv, MovesTo, LineVars
<1>0. /\ TypeOK /\ Control /\ Ids /\ Mine /\ Counts /\ Told
      /\ pc \in [Threads -> Steps] /\ NoCaller \notin Threads
      /\ Callers \cap Closers = {} /\ Threads = Callers \cup Closers
      /\ lock \in Threads \cup {NoCaller} /\ closed \in BOOLEAN
  BY BridgeAssumption DEF TypeOK, Steps, Threads
<1>1. pc' \in [Threads -> Steps] /\ pc'[c] = next /\ \A d \in Threads : d # c => pc'[d] = pc[d]
  BY <1>0
<1>2. TypeOK'
  <2>1. lock' \in Threads \cup {NoCaller} /\ closed' \in BOOLEAN
    BY <1>0 DEF Quietly
  <2> QED BY <1>0, <1>1, <2>1 DEF TypeOK, Steps, Answers
<1>3. Control'
  BY <1>0, <1>1 DEF Control, Inside, WithClient, Dropping, Quietly
<1>4. Ids'
  BY <1>0 DEF Ids
<1>5. Mine'
  BY <1>0, <1>1 DEF Mine, Quietly
<1>6. Counts'
  BY <1>0, <1>1 DEF Counts, TypeOK, Dropping, Quietly
<1>7. Told'
  BY <1>0 DEF Told
<1> QED BY <1>2, <1>3, <1>4, <1>5, <1>6, <1>7

-----------------------------------------------------------------------------
(***************************************************************************)
(* What IInv gives every lemma below.                                      *)
(***************************************************************************)
LEMMA Facts ==
    ASSUME IInv
    PROVE  /\ TypeOK /\ Control /\ Ids /\ Mine /\ Counts /\ Told
           /\ pc \in [Threads -> Steps] /\ NoCaller \notin Threads
           /\ Callers \cap Closers = {} /\ Threads = Callers \cup Closers
           /\ lock \in Threads \cup {NoCaller} /\ closed \in BOOLEAN
           /\ answer \in [Callers -> Answers]
           /\ attempt \in [Callers -> 0 .. 2] /\ executed \in [Callers -> Nat]
           /\ lastId \in [Helpers -> Nat]
           /\ input \in [Helpers -> Seq(Requests)] /\ output \in [Helpers -> Seq(Lines)]
           /\ doing \in [Helpers -> Requests \cup {Nothing}]
           /\ client \in Helpers \cup {0}
BY BridgeAssumption DEF IInv, TypeOK, Steps, Answers, Threads

LEMMA LineTypes ==
    ASSUME IInv, NEW g \in Helpers
    PROVE  /\ Len(input[g]) \in Nat /\ Len(output[g]) \in Nat /\ lastId[g] \in Nat
           /\ \A i \in 1 .. Len(input[g]) : /\ input[g][i] \in Requests
                                            /\ input[g][i].id \in Nat /\ input[g][i].from \in Callers
           /\ \A i \in 1 .. Len(output[g]) : output[g][i].kind # "eof" =>
                 output[g][i].id \in Nat /\ output[g][i].from \in Callers
           /\ doing[g] # Nothing => doing[g].id \in Nat /\ doing[g].from \in Callers
<1>1. input[g] \in Seq(Requests) /\ output[g] \in Seq(Lines) /\ doing[g] \in Requests \cup {Nothing}
      /\ lastId[g] \in Nat
  BY Facts
<1>2. Len(input[g]) \in Nat /\ Len(output[g]) \in Nat
  BY <1>1, LenProperties
<1>3. \A i \in 1 .. Len(input[g]) : input[g][i] \in Requests
  BY <1>1, ElementOfSeq
<1>4. \A i \in 1 .. Len(output[g]) : output[g][i] \in Lines
  BY <1>1, ElementOfSeq
<1>5. \A x \in Requests : x.id \in Nat /\ x.from \in Callers
  BY DEF Requests
<1>6. \A x \in Lines : x.kind # "eof" => x.id \in Nat /\ x.from \in Callers
  BY DEF Lines, EOF
<1> QED BY <1>1, <1>2, <1>3, <1>4, <1>5, <1>6

LEMMA QuietSteps ==
    ASSUME IInv,
           \/ \E c \in Callers : \/ Call(c) \/ Enter(c) \/ EnterClosed(c) \/ Reuse(c)
                                 \/ SpawnFails(c) \/ Timeout(c) \/ Retry(c) \/ GiveUp(c)
           \/ \E c \in Closers : CloseAsked(c) \/ CloseEnter(c)
           \/ \E c \in Threads : DropMark(c) \/ DropShutdown(c)
    PROVE  IInv'
<1> USE DEF MovesTo, Goto, LineVars, mgrVars, helperVars, clientVars, callVars, histVars
<1>0. /\ Threads = Callers \cup Closers /\ Callers \cap Closers = {}
      /\ dropped \in [Helpers -> BOOLEAN]
      /\ answer \in [Callers -> Answers] /\ client \in Helpers \cup {0}
      /\ Control
  BY Facts DEF IInv, TypeOK
<1>1. ASSUME NEW c \in Callers, NEW kind \in {"error", "unavailable"}, Answer(c, kind, NoCaller)
      PROVE  /\ answer' \in [Callers -> Answers]
             /\ \A d \in Callers : answer'[d] = answer[d] \/ answer'[d].kind # "ok"
  BY <1>0, <1>1 DEF Answer, Answers
<1>2. ASSUME NEW c \in Callers, Call(c) PROVE IInv'
  <2>1. Quietly(c, "lock") /\ MovesTo(c, "lock")
    BY <1>2 DEF Call, Quietly
  <2> QED BY <1>0, <1>2, <2>1, QuietMoves DEF Call, Steps
<1>3. ASSUME NEW c \in Callers, Enter(c) PROVE IInv'
  <2>1. Quietly(c, "ensure") /\ MovesTo(c, "ensure")
    BY <1>3 DEF Enter, Quietly, Take, Refused
  <2> QED BY <1>0, <1>3, <2>1, QuietMoves DEF Enter, Steps
<1>4. ASSUME NEW c \in Callers, EnterClosed(c) \/ SpawnFails(c) \/ GiveUp(c) PROVE IInv'
  <2>1. Quietly(c, "done") /\ MovesTo(c, "done")
    BY <1>4 DEF EnterClosed, SpawnFails, GiveUp, Quietly, Return
  <2>2. /\ answer' \in [Callers -> Answers]
        /\ \A d \in Callers : answer'[d] = answer[d] \/ answer'[d].kind # "ok"
    BY <1>1, <1>4 DEF EnterClosed, SpawnFails, GiveUp, Return
  <2> QED BY <1>0, <1>4, <2>1, <2>2, QuietMoves DEF EnterClosed, SpawnFails, GiveUp, Steps
<1>5. ASSUME NEW c \in Callers, Reuse(c) PROVE IInv'
  <2>1. Quietly(c, "send") /\ MovesTo(c, "send")
    BY <1>5 DEF Reuse, Quietly
  <2> QED BY <1>0, <1>5, <2>1, QuietMoves DEF Reuse, Steps
<1>6. ASSUME NEW c \in Callers, Timeout(c) PROVE IInv'
  <2>1. Quietly(c, "failed") /\ MovesTo(c, "failed")
    BY <1>6 DEF Timeout, Quietly
  <2> QED BY <1>0, <1>6, <2>1, QuietMoves DEF Timeout, Steps
<1>7. ASSUME NEW c \in Callers, Retry(c) PROVE IInv'
  <2>1. Quietly(c, "drop") /\ MovesTo(c, "drop")
    BY <1>7 DEF Retry, Quietly, LastAttempt
  <2> QED BY <1>0, <1>7, <2>1, QuietMoves DEF Retry, Steps
<1>8. ASSUME NEW c \in Closers, CloseAsked(c) PROVE IInv'
  <2>1. Quietly(c, "lock") /\ MovesTo(c, "lock")
    BY <1>8 DEF CloseAsked, Quietly
  <2> QED BY <1>0, <1>8, <2>1, QuietMoves DEF CloseAsked, Steps
<1>9. ASSUME NEW c \in Closers, CloseEnter(c) PROVE IInv'
  <2>1. PICK next \in {"done", "drop"} : Quietly(c, next) /\ MovesTo(c, next)
    BY <1>9 DEF CloseEnter, Quietly
  <2> QED BY <1>0, <1>9, <2>1, QuietMoves DEF CloseEnter, Steps
<1>10. ASSUME NEW c \in Threads, DropMark(c) PROVE IInv'
  <2>1. Quietly(c, "shutdown") /\ MovesTo(c, "shutdown")
    BY <1>10 DEF DropMark, Quietly
  <2>2. dropped' \in [Helpers -> BOOLEAN]
    BY <1>0, <1>10 DEF DropMark
  <2> QED BY <1>0, <1>10, <2>1, <2>2, QuietMoves DEF DropMark, Steps
<1>11. ASSUME NEW c \in Threads, DropShutdown(c) PROVE IInv'
  <2>1. Quietly(c, "kill") /\ MovesTo(c, "kill")
    BY <1>11 DEF DropShutdown, Quietly
  <2> QED BY <1>0, <1>11, <2>1, QuietMoves DEF DropShutdown, Steps
<1> QED BY <1>2, <1>3, <1>4, <1>5, <1>6, <1>7, <1>8, <1>9, <1>10, <1>11

-----------------------------------------------------------------------------
(***************************************************************************)
(* A helper is spawned only when none runs; its pipes are empty.           *)
(***************************************************************************)
LEMMA SpawnStep ==
    ASSUME IInv, NEW c \in Callers, Spawn(c)
    PROVE  IInv'
<1> DEFINE h == spawned + 1
<1>1. /\ pc[c] = "ensure" /\ client = 0 /\ h \in Helpers /\ spawned' = h /\ client' = h
      /\ alive' = [alive EXCEPT ![h] = TRUE] /\ pc' = [pc EXCEPT ![c] = "send"]
      /\ UNCHANGED <<lock, closed, input, output, doing, hung, lastId, dropped, attempt,
                     module, answer, executed, opened>>
  BY BridgeAssumption DEF Spawn, Goto, clientVars, histVars, IInv, TypeOK, Helpers
<1>2. /\ \A d \in Threads : d # c => pc'[d] = pc[d] /\ pc[d] \notin Inside
      /\ pc'[c] = "send" /\ lock = c
  BY <1>1, Facts, OneInside DEF Inside, Control
<1>3. TypeOK'
  BY <1>1, Facts DEF TypeOK, Helpers
<1>4. Control'
  <2>1. \A g \in Helpers : ~alive[g] /\ (alive'[g] <=> g = h)
    BY <1>1, Facts DEF Control, TypeOK, Helpers
  <2>2. \A d \in Threads : /\ pc'[d] \in Inside => lock' = d
                           /\ pc'[d] \in WithClient => client' # 0
    BY <1>1, <1>2 DEF Helpers, Inside, WithClient, Dropping
  <2>3. \A d \in Closers : pc'[d] \in {"idle", "lock", "done"} \cup Dropping
    BY <1>1, <1>2, Facts DEF Control
  <2>4. ~closed'
    BY <1>1, Facts DEF Control, Inside
  <2>5. \A g \in Helpers : /\ alive'[g] => g = client'
                           /\ ~alive'[g] => input'[g] = <<>> /\ doing'[g] = Nothing
    BY <1>1, <2>1, Facts DEF Control
  <2> QED BY <2>2, <2>3, <2>4, <2>5 DEF Control
<1>5. Ids'
  BY <1>1, Facts DEF Ids
<1>6. Mine'
  BY <1>1, <1>2, Facts DEF Mine, Inside, WithClient
<1>7. Counts'
  BY <1>1, <1>2, Facts DEF Counts, Dropping
<1>8. Told'
  BY <1>1, Facts DEF Told
<1> QED BY <1>3, <1>4, <1>5, <1>6, <1>7, <1>8 DEF IInv

(***************************************************************************)
(* A request gets an id that no line carries; its sender has none left to  *)
(* be read.                                                                *)
(***************************************************************************)
LEMMA SendStep ==
    ASSUME IInv, NEW c \in Callers, Send(c)
    PROVE  IInv'
<1> DEFINE h == client
           id == lastId[h] + 1
           r == Request(c, id)
<1>1. /\ pc[c] = "send" /\ h \in Helpers /\ lastId[h] \in Nat
      /\ lastId' = [lastId EXCEPT ![h] = id]
      /\ attempt' = [attempt EXCEPT ![c] = @ + 1]
      /\ \/ alive[h] /\ input' = [input EXCEPT ![h] = Append(@, r)] /\ pc' = [pc EXCEPT ![c] = "wait"]
         \/ ~alive[h] /\ UNCHANGED input /\ pc' = [pc EXCEPT ![c] = "wait"]
         \/ ~alive[h] /\ UNCHANGED input /\ pc' = [pc EXCEPT ![c] = "failed"]
      /\ UNCHANGED <<lock, closed, client, spawned, alive, output, doing, hung, dropped, module,
                     answer, executed, opened>>
  BY Facts DEF Send, Goto, mgrVars, histVars, Control, WithClient
<1>2. /\ \A d \in Threads : d # c => pc'[d] = pc[d] /\ pc[d] \notin Inside
      /\ pc'[c] \in {"wait", "failed"} /\ lock = c /\ pc' \in [Threads -> Steps]
  <2>1. pc \in [Threads -> Steps] /\ c \in Threads /\ pc[c] \in Inside /\ lock = c
    BY <1>1, Facts DEF Inside, WithClient, Control
  <2>2. \E s \in {"wait", "failed"} : pc' = [pc EXCEPT ![c] = s]
    BY <1>1
  <2>3. \A d \in Threads : d # c => pc[d] \notin Inside
    BY <2>1, Facts DEF Control
  <2> QED BY <2>1, <2>2, <2>3 DEF Steps
<1>3. /\ r \in Requests /\ r.id = id /\ r.from = c
      /\ attempt[c] \in 0 .. 1 /\ attempt'[c] = attempt[c] + 1
      /\ \A d \in Callers : d # c => attempt'[d] = attempt[d]
  BY <1>1, Facts DEF Request, PathSent, Requests, Counts
\* The lines of the input after the step.
<1>4. /\ input' \in [Helpers -> Seq(Requests)]
      /\ \A g \in Helpers : g # h => input'[g] = input[g]
      /\ \/ input'[h] = input[h]
         \/ /\ alive[h] /\ Len(input'[h]) = Len(input[h]) + 1
            /\ \A i \in 1 .. Len(input[h]) + 1 :
                  input'[h][i] = IF i \in 1 .. Len(input[h]) THEN input[h][i] ELSE r
  <2>1. CASE input' = input
    BY <2>1, Facts
  <2>2. CASE alive[h] /\ input' = [input EXCEPT ![h] = Append(@, r)]
    <3>1. input[h] \in Seq(Requests) /\ input'[h] = Append(input[h], r)
      BY <1>1, <2>2, Facts
    <3>2. /\ Append(input[h], r) \in Seq(Requests) /\ Len(Append(input[h], r)) = Len(input[h]) + 1
          /\ \A i \in 1 .. Len(input[h]) + 1 :
                Append(input[h], r)[i] = IF i \in 1 .. Len(input[h]) THEN input[h][i] ELSE r
      BY <1>3, <3>1, AppendLines
    <3> QED BY <1>1, <2>2, <3>1, <3>2, Facts
  <2> QED BY <1>1, <2>1, <2>2
<1>5. \A g \in Helpers : Len(input[g]) \in Nat
  BY Facts
<1>6. TypeOK'
  BY <1>1, <1>2, <1>3, <1>4, Facts DEF TypeOK, Steps
<1>7. Control'
  BY <1>1, <1>2, <1>4, Facts DEF Control, Inside, WithClient, Dropping
<1>8. Ids'
  <2>1. /\ \A g \in Helpers : /\ lastId[g] \in Nat /\ lastId'[g] \in Nat
                              /\ lastId[g] <= lastId'[g]
        /\ lastId'[h] = id
    BY <1>1, Facts
  <2>2. \A g \in Helpers : \A i \in 1 .. Len(input'[g]) : input'[g][i].id <= lastId'[g]
    <3> SUFFICES ASSUME NEW g \in Helpers, NEW i \in 1 .. Len(input'[g])
                 PROVE  input'[g][i].id <= lastId'[g]
      OBVIOUS
    <3>1. CASE i \in 1 .. Len(input[g]) /\ input'[g][i] = input[g][i]
      <4>1. input[g][i].id <= lastId[g] /\ input[g][i].id \in Nat
        BY <3>1, LineTypes, Facts DEF Ids
      <4> QED BY <2>1, <3>1, <4>1
    <3>2. CASE g = h /\ input'[g][i] = r
      BY <1>1, <1>3, <2>1, <3>2
    <3> QED BY <1>4, <1>5, <3>1, <3>2
  <2>3. \A g \in Helpers : \A i \in 1 .. Len(output'[g]) : output'[g][i].kind # "eof" =>
           output'[g][i].id <= lastId'[g] /\ executed'[output'[g][i].from] >= 1
    <3> SUFFICES ASSUME NEW g \in Helpers, NEW i \in 1 .. Len(output[g]), output[g][i].kind # "eof"
                 PROVE  output[g][i].id <= lastId'[g] /\ executed[output[g][i].from] >= 1
      BY <1>1
    <3>1. output[g][i].id \in Nat /\ output[g][i].id <= lastId[g]
          /\ executed[output[g][i].from] >= 1
      BY LineTypes, Facts DEF Ids
    <3>2. lastId[g] \in Nat /\ lastId'[g] \in Nat /\ lastId[g] <= lastId'[g]
      BY <1>1, <2>1
    <3> QED BY <3>1, <3>2
  <2>4. \A g \in Helpers : doing'[g] # Nothing =>
           doing'[g].id <= lastId'[g] /\ executed'[doing'[g].from] >= 1
    <3> SUFFICES ASSUME NEW g \in Helpers, doing[g] # Nothing
                 PROVE  doing[g].id <= lastId'[g] /\ executed[doing[g].from] >= 1
      BY <1>1
    <3>1. doing[g].id \in Nat /\ doing[g].id <= lastId[g] /\ executed[doing[g].from] >= 1
      BY LineTypes, Facts DEF Ids
    <3>2. lastId[g] \in Nat /\ lastId'[g] \in Nat /\ lastId[g] <= lastId'[g]
      BY <1>1, <2>1
    <3> QED BY <3>1, <3>2
  <2> QED BY <2>2, <2>3, <2>4 DEF Ids
<1>9. Mine'
  <2> SUFFICES ASSUME NEW d \in Callers, pc'[d] = "wait"
               PROVE  /\ \A i \in 1 .. Len(input'[h]) :
                            input'[h][i].id = id => input'[h][i].from = d
                      /\ \A i \in 1 .. Len(output[h]) :
                            output[h][i].kind # "eof" /\ output[h][i].id = id =>
                                output[h][i].from = d
                      /\ doing[h] # Nothing /\ doing[h].id = id => doing[h].from = d
    <3>1. client' = h /\ output' = output /\ doing' = doing /\ lastId'[h] = id
      BY <1>1, Facts
    <3> QED BY <3>1 DEF Mine
  <2>1. d = c
    BY <1>2, Facts DEF Inside, WithClient
  <2>2. \A i \in 1 .. Len(input[h]) : input[h][i].id # id
    <3> SUFFICES ASSUME NEW i \in 1 .. Len(input[h]) PROVE input[h][i].id # id
      OBVIOUS
    <3>1. input[h][i].id \in Nat /\ input[h][i].id <= lastId[h]
      BY <1>1, LineTypes, Facts DEF Ids
    <3> QED BY <1>1, <3>1
  <2>3. \A i \in 1 .. Len(output[h]) : output[h][i].kind # "eof" => output[h][i].id # id
    <3> SUFFICES ASSUME NEW i \in 1 .. Len(output[h]), output[h][i].kind # "eof"
                 PROVE  output[h][i].id # id
      OBVIOUS
    <3>1. output[h][i].id \in Nat /\ output[h][i].id <= lastId[h]
      BY <1>1, LineTypes, Facts DEF Ids
    <3> QED BY <1>1, <3>1
  <2>4. doing[h] # Nothing => doing[h].id # id
    <3> SUFFICES ASSUME doing[h] # Nothing PROVE doing[h].id # id
      OBVIOUS
    <3>1. doing[h].id \in Nat /\ doing[h].id <= lastId[h]
      BY <1>1, LineTypes, Facts DEF Ids
    <3> QED BY <1>1, <3>1
  <2>5. \A i \in 1 .. Len(input'[h]) : input'[h][i].id = id => input'[h][i].from = c
    BY <1>3, <1>4, <1>5, <2>2
  <2> QED BY <2>1, <2>3, <2>4, <2>5
<1>10. Counts'
  <2>1. \A d \in Callers :
          /\ executed'[d] <= attempt'[d]
          /\ pc'[d] \in {"idle", "lock"} => attempt'[d] = 0
          /\ pc'[d] \in {"ensure", "send"} \cup Dropping => attempt'[d] <= 1
          /\ pc'[d] \in {"wait", "failed"} => attempt'[d] \in 1 .. 2
    <3> SUFFICES ASSUME NEW d \in Callers
                 PROVE  /\ executed[d] <= attempt'[d]
                        /\ pc'[d] \in {"idle", "lock"} => attempt'[d] = 0
                        /\ pc'[d] \in {"ensure", "send"} \cup Dropping => attempt'[d] <= 1
                        /\ pc'[d] \in {"wait", "failed"} => attempt'[d] \in 1 .. 2
      BY <1>1
    <3>1. executed[d] \in Nat /\ attempt[d] \in 0 .. 2 /\ executed[d] <= attempt[d]
      BY Facts DEF Counts
    <3>2. CASE d = c
      BY <1>2, <1>3, <3>1, <3>2 DEF Dropping
    <3>3. CASE d # c
      <4>1. pc'[d] = pc[d] /\ attempt'[d] = attempt[d]
        BY <1>2, <1>3, <3>3, Facts
      <4> QED BY <3>1, <4>1, Facts DEF Counts
    <3> QED BY <3>2, <3>3
  <2>2. \A d \in Callers : pc'[d] \in {"idle", "lock", "ensure", "send"} =>
           \A g \in Helpers : \A i \in 1 .. Len(input'[g]) : input'[g][i].from # d
    <3> SUFFICES ASSUME NEW d \in Callers, pc'[d] \in {"idle", "lock", "ensure", "send"},
                        NEW g \in Helpers, NEW i \in 1 .. Len(input'[g])
                 PROVE  input'[g][i].from # d
      OBVIOUS
    <3>1. d # c /\ pc'[d] = pc[d]
      BY <1>2, Facts
    <3>2. \A j \in 1 .. Len(input[g]) : input[g][j].from # d
      BY <3>1, Facts DEF Counts
    <3>3. CASE i \in 1 .. Len(input[g]) /\ input'[g][i] = input[g][i]
      BY <3>2, <3>3
    <3>4. CASE g = h /\ input'[g][i] = r
      BY <1>3, <3>1, <3>4
    <3> QED BY <1>4, <1>5, <3>3, <3>4
  <2>3. \A g \in Helpers : \A i \in 1 .. Len(input'[g]) :
          /\ executed'[input'[g][i].from] < attempt'[input'[g][i].from]
          /\ \A j \in 1 .. Len(input'[g]) : input'[g][i].from = input'[g][j].from => i = j
    <3>1. \A g \in Helpers : \A j \in 1 .. Len(input[g]) : input[g][j].from # c
      BY <1>1, Facts DEF Counts
    <3>2. executed[c] \in Nat /\ executed[c] < attempt'[c]
      BY <1>3, Facts DEF Counts
    <3>3. \A g \in Helpers : \A i \in 1 .. Len(input[g]) :
             /\ executed[input[g][i].from] < attempt'[input[g][i].from]
             /\ \A j \in 1 .. Len(input[g]) : input[g][i].from = input[g][j].from => i = j
      <4> SUFFICES ASSUME NEW g \in Helpers, NEW i \in 1 .. Len(input[g])
                   PROVE  /\ executed[input[g][i].from] < attempt'[input[g][i].from]
                          /\ \A j \in 1 .. Len(input[g]) :
                                input[g][i].from = input[g][j].from => i = j
        OBVIOUS
      <4>1. input[g][i].from \in Callers
        BY LineTypes
      <4>2. attempt'[input[g][i].from] = attempt[input[g][i].from]
        BY <1>3, <3>1, <4>1
      <4> QED BY <4>2, Facts DEF Counts
    <3> SUFFICES ASSUME NEW g \in Helpers, NEW i \in 1 .. Len(input'[g])
                 PROVE  /\ executed[input'[g][i].from] < attempt'[input'[g][i].from]
                        /\ \A j \in 1 .. Len(input'[g]) :
                              input'[g][i].from = input'[g][j].from => i = j
      BY <1>1
    <3>4. CASE input'[g] = input[g]
      BY <3>3, <3>4
    <3>5. CASE g = h /\ input'[h] # input[h]
      <4>1. /\ Len(input'[h]) = Len(input[h]) + 1
            /\ \A k \in 1 .. Len(input[h]) + 1 :
                  input'[h][k] = IF k \in 1 .. Len(input[h]) THEN input[h][k] ELSE r
        BY <1>4, <3>5
      <4>2. Len(input[h]) \in Nat /\ r.from = c
        BY <1>3, <1>5
      <4>3. CASE i \in 1 .. Len(input[h])
        <5>1. input'[h][i] = input[h][i]
          BY <4>1, <4>2, <4>3
        <5>2. \A j \in 1 .. Len(input'[h]) : input'[h][i].from = input'[h][j].from => i = j
          <6> SUFFICES ASSUME NEW j \in 1 .. Len(input'[h]), input[h][i].from = input'[h][j].from
                       PROVE  i = j
            BY <5>1
          <6>1. input[h][i].from # c
            BY <1>1, <3>1, <4>3
          <6>2. j \in 1 .. Len(input[h]) /\ input'[h][j] = input[h][j]
            BY <4>1, <4>2, <6>1
          <6> QED BY <1>1, <3>3, <4>3, <6>2
        <5> QED BY <3>3, <3>5, <4>3, <5>1, <5>2
      <4>4. CASE i \notin 1 .. Len(input[h])
        <5>1. i = Len(input[h]) + 1 /\ input'[h][i] = r
          BY <3>5, <4>1, <4>2, <4>4
        <5>2. \A j \in 1 .. Len(input'[h]) : r.from = input'[h][j].from => i = j
          BY <1>1, <3>1, <4>1, <4>2, <5>1
        <5> QED BY <3>2, <3>5, <4>2, <5>1, <5>2
      <4> QED BY <4>3, <4>4
    <3> QED BY <1>4, <3>4, <3>5
  <2> QED BY <2>1, <2>2, <2>3 DEF Counts
<1>11. Told'
  BY <1>1, Facts DEF Told
<1> QED BY <1>6, <1>7, <1>8, <1>9, <1>10, <1>11 DEF IInv

-----------------------------------------------------------------------------
(***************************************************************************)
(* Lines that go, and ends of output that come, disturb no count; nobody   *)
(* starts to wait by them.                                                 *)
(***************************************************************************)
Shrunk ==
    \A g \in Helpers : /\ input'[g] = input[g] \/ input'[g] = <<>>
                       /\ doing'[g] = doing[g] \/ doing'[g] = Nothing
                       /\ \A i \in 1 .. Len(output'[g]) :
                             \/ output'[g][i].kind = "eof"
                             \/ \E j \in 1 .. Len(output[g]) : output'[g][i] = output[g][j]

FewerLines ==
    /\ Shrunk
    /\ \A c \in Callers : \/ pc'[c] = pc[c] /\ (pc[c] = "wait" => client' = client)
                          \/ pc'[c] = "done"
                          \/ pc[c] = "wait" /\ pc'[c] = "failed"
                          \/ pc[c] = "kill" /\ pc'[c] = "ensure"
                             /\ \A g \in Helpers : input'[g] = <<>>

LEMMA LinesGo ==
    ASSUME IInv, FewerLines, UNCHANGED <<lastId, executed, attempt>>
    PROVE  Ids' /\ Mine' /\ Counts'
<1>1. Ids'
  <2> SUFFICES ASSUME NEW g \in Helpers
               PROVE  /\ \A i \in 1 .. Len(input'[g]) : input'[g][i].id <= lastId[g]
                      /\ \A i \in 1 .. Len(output'[g]) : output'[g][i].kind # "eof" =>
                            output'[g][i].id <= lastId[g] /\ executed[output'[g][i].from] >= 1
                      /\ doing'[g] # Nothing =>
                            doing'[g].id <= lastId[g] /\ executed[doing'[g].from] >= 1
    BY DEF Ids
  <2>1. \A i \in 1 .. Len(input'[g]) : input'[g][i].id <= lastId[g]
    <3>1. input'[g] = input[g] \/ \A i : i \notin 1 .. Len(input'[g])
      BY EmptyLines DEF FewerLines, Shrunk
    <3> QED BY <3>1, Facts DEF Ids
  <2>2. \A i \in 1 .. Len(output'[g]) : output'[g][i].kind # "eof" =>
           output'[g][i].id <= lastId[g] /\ executed[output'[g][i].from] >= 1
    <3> SUFFICES ASSUME NEW i \in 1 .. Len(output'[g]), output'[g][i].kind # "eof"
                 PROVE  output'[g][i].id <= lastId[g] /\ executed[output'[g][i].from] >= 1
      OBVIOUS
    <3>1. PICK j \in 1 .. Len(output[g]) : output'[g][i] = output[g][j]
      BY DEF FewerLines, Shrunk
    <3> QED BY <3>1, Facts DEF Ids
  <2>3. doing'[g] # Nothing => doing'[g].id <= lastId[g] /\ executed[doing'[g].from] >= 1
    BY Facts DEF Ids, FewerLines, Shrunk
  <2> QED BY <2>1, <2>2, <2>3
<1>2. Mine'
  <2> SUFFICES ASSUME NEW c \in Callers, pc'[c] = "wait"
               PROVE  /\ \A i \in 1 .. Len(input'[client']) :
                            input'[client'][i].id = lastId[client'] => input'[client'][i].from = c
                      /\ \A i \in 1 .. Len(output'[client']) :
                            output'[client'][i].kind # "eof"
                              /\ output'[client'][i].id = lastId[client'] =>
                                output'[client'][i].from = c
                      /\ doing'[client'] # Nothing /\ doing'[client'].id = lastId[client'] =>
                            doing'[client'].from = c
    BY DEF Mine
  <2>1. pc[c] = "wait" /\ client' = client
    BY DEF FewerLines, Shrunk
  <2>2. client \in Helpers
    BY <2>1, Facts DEF Control, WithClient
  <2>3. \A i \in 1 .. Len(input'[client]) :
           input'[client][i].id = lastId[client] => input'[client][i].from = c
    <3>1. input'[client] = input[client] \/ \A i : i \notin 1 .. Len(input'[client])
      BY <2>2, EmptyLines DEF FewerLines, Shrunk
    <3> QED BY <2>1, <3>1, Facts DEF Mine
  <2>4. \A i \in 1 .. Len(output'[client]) :
           output'[client][i].kind # "eof" /\ output'[client][i].id = lastId[client] =>
               output'[client][i].from = c
    <3> SUFFICES ASSUME NEW i \in 1 .. Len(output'[client]), output'[client][i].kind # "eof",
                        output'[client][i].id = lastId[client]
                 PROVE  output'[client][i].from = c
      OBVIOUS
    <3>1. PICK j \in 1 .. Len(output[client]) : output'[client][i] = output[client][j]
      BY <2>2 DEF FewerLines, Shrunk
    <3> QED BY <2>1, <3>1, Facts DEF Mine
  <2>5. doing'[client] # Nothing /\ doing'[client].id = lastId[client] => doing'[client].from = c
    BY <2>1, <2>2, Facts DEF Mine, FewerLines, Shrunk
  <2> QED BY <2>1, <2>3, <2>4, <2>5
<1>3. Counts'
  <2>1. \A c \in Callers :
          /\ executed[c] <= attempt[c]
          /\ pc'[c] \in {"idle", "lock"} => attempt[c] = 0
          /\ pc'[c] \in {"ensure", "send"} \cup Dropping => attempt[c] <= 1
          /\ pc'[c] \in {"wait", "failed"} => attempt[c] \in 1 .. 2
    BY Facts DEF Counts, FewerLines, Shrunk, Dropping
  <2>2. \A c \in Callers : pc'[c] \in {"idle", "lock", "ensure", "send"} =>
           \A g \in Helpers : \A i \in 1 .. Len(input'[g]) : input'[g][i].from # c
    <3> SUFFICES ASSUME NEW c \in Callers, pc'[c] \in {"idle", "lock", "ensure", "send"},
                        NEW g \in Helpers, NEW i \in 1 .. Len(input'[g])
                 PROVE  input'[g][i].from # c
      OBVIOUS
    <3>1. input'[g] = input[g] /\ input'[g] # <<>>
      BY EmptyLines DEF FewerLines, Shrunk
    <3>2. pc'[c] = pc[c]
      BY <3>1 DEF FewerLines, Shrunk
    <3> QED BY <3>1, <3>2, Facts DEF Counts
  <2>3. \A g \in Helpers : \A i \in 1 .. Len(input'[g]) :
          /\ executed[input'[g][i].from] < attempt[input'[g][i].from]
          /\ \A j \in 1 .. Len(input'[g]) : input'[g][i].from = input'[g][j].from => i = j
    <3> SUFFICES ASSUME NEW g \in Helpers, NEW i \in 1 .. Len(input'[g])
                 PROVE  /\ executed[input'[g][i].from] < attempt[input'[g][i].from]
                        /\ \A j \in 1 .. Len(input'[g]) :
                              input'[g][i].from = input'[g][j].from => i = j
      OBVIOUS
    <3>1. input'[g] = input[g]
      BY EmptyLines DEF FewerLines, Shrunk
    <3> QED BY <3>1, Facts DEF Counts
  <2> QED BY <2>1, <2>2, <2>3 DEF Counts
<1> QED BY <1>1, <1>2, <1>3

(***************************************************************************)
(* A caller takes a line; only the answer to its own request ends its call *)
(* with a result.                                                          *)
(***************************************************************************)
LEMMA ReceiveStep ==
    ASSUME IInv, NEW c \in Callers, Receive(c)
    PROVE  IInv'
<1> DEFINE h == client
           m == Head(output[h])
<1>1. /\ pc[c] = "wait" /\ h \in Helpers /\ output[h] # <<>>
      /\ output' = [output EXCEPT ![h] = Tail(@)]
      /\ UNCHANGED <<closed, client, spawned, alive, input, doing, hung, lastId, dropped,
                     attempt, module, executed, opened>>
  BY Facts DEF Receive, clientVars, histVars, Control, WithClient
<1>2. \/ pc' = [pc EXCEPT ![c] = "failed"] /\ UNCHANGED <<answer, lock>>
      \/ UNCHANGED <<pc, answer, lock>>
      \/ /\ m.kind = "result" /\ m.id = lastId[h] /\ lock' = NoCaller
         /\ pc' = [pc EXCEPT ![c] = "done"]
         /\ answer' = [answer EXCEPT ![c] = [kind |-> "ok", from |-> m.from]]
  BY DEF Receive, Goto, Return, Answer, IsAnswer
<1>3. /\ m = output[h][1] /\ 1 \in 1 .. Len(output[h])
      /\ Tail(output[h]) \in Seq(Lines)
      /\ \A i \in 1 .. Len(Tail(output[h])) :
            i + 1 \in 1 .. Len(output[h]) /\ Tail(output[h])[i] = output[h][i + 1]
  <2>1. output[h] \in Seq(Lines)
    BY <1>1, Facts
  <2> QED BY <1>1, <2>1, TailLines
<1>4. /\ c \in Threads /\ lock = c
      /\ \A d \in Threads : d # c => pc'[d] = pc[d] /\ pc[d] \notin Inside
      /\ pc' \in [Threads -> Steps]
      /\ \/ pc'[c] = "failed" /\ UNCHANGED <<answer, lock>>
         \/ pc'[c] = "wait" /\ UNCHANGED <<answer, lock>>
         \/ /\ pc'[c] = "done" /\ m.kind = "result" /\ m.id = lastId[h] /\ lock' = NoCaller
            /\ answer' = [answer EXCEPT ![c] = [kind |-> "ok", from |-> m.from]]
  <2>1. pc \in [Threads -> Steps] /\ c \in Threads /\ pc[c] \in Inside /\ lock = c
    BY <1>1, Facts DEF Inside, WithClient, Control
  <2>2. \A d \in Threads : d # c => pc[d] \notin Inside
    BY <2>1, Facts DEF Control
  <2> QED BY <1>1, <1>2, <2>1, <2>2 DEF Steps
<1>5. FewerLines
  <2>1. \A g \in Helpers : \A i \in 1 .. Len(output'[g]) :
           \E j \in 1 .. Len(output[g]) : output'[g][i] = output[g][j]
    <3>1. output'[h] = Tail(output[h]) /\ \A g \in Helpers : g # h => output'[g] = output[g]
      BY <1>1, Facts
    <3>2. \A i \in 1 .. Len(Tail(output[h])) :
             \E j \in 1 .. Len(output[h]) : Tail(output[h])[i] = output[h][j]
      BY <1>3
    <3>3. \A i \in 1 .. Len(output'[h]) :
             \E j \in 1 .. Len(output[h]) : output'[h][i] = output[h][j]
      BY <3>1, <3>2
    <3> QED BY <3>1, <3>3
  <2> QED BY <1>1, <1>4, <2>1, Facts DEF FewerLines, Shrunk
\* The line it takes for its answer is of its own operation.
<1>6. m.kind = "result" /\ m.id = lastId[h] => m.from = c /\ executed[c] >= 1
  BY <1>1, <1>3, Facts DEF Mine, Ids
<1>7. TypeOK'
  <2>1. output' \in [Helpers -> Seq(Lines)]
    BY <1>1, <1>3, Facts
  <2>2. lock' \in Threads \cup {NoCaller}
    BY <1>4, Facts
  <2>3. answer' \in [Callers -> Answers]
    <3>1. CASE UNCHANGED answer
      BY <3>1, Facts
    <3>2. CASE pc'[c] = "done"
      <4>1. /\ answer' = [answer EXCEPT ![c] = [kind |-> "ok", from |-> m.from]]
            /\ m.from \in Callers
        BY <1>4, <1>6, <3>2
      <4> QED BY <4>1, Facts DEF Answers
    <3> QED BY <1>4, <3>1, <3>2
  <2> QED BY <1>1, <1>4, <2>1, <2>2, <2>3, Facts DEF TypeOK, Steps, Answers
<1>8. Control'
  BY <1>1, <1>4, Facts DEF Control, Inside, WithClient, Dropping
<1>9. Told'
  <2>1. CASE UNCHANGED answer
    BY <1>1, <2>1, Facts DEF Told
  <2>2. CASE pc'[c] = "done"
    <3>1. /\ answer' = [answer EXCEPT ![c] = [kind |-> "ok", from |-> m.from]]
          /\ m.from = c /\ executed[c] >= 1
      BY <1>4, <1>6, <2>2
    <3>2. \A d \in Callers : answer'[d] = answer[d] \/ (d = c /\ answer'[d].from = c)
      <4>1. answer'[c] = [kind |-> "ok", from |-> m.from]
        BY <3>1, Facts
      <4>2. \A d \in Callers : d # c => answer'[d] = answer[d]
        BY <3>1, Facts
      <4>3. answer'[c].from = c
        BY <3>1, <4>1
      <4> QED BY <4>2, <4>3
    <3> QED BY <1>1, <3>1, <3>2, Facts DEF Told
  <2> QED BY <1>4, <2>1, <2>2
<1> QED BY <1>1, <1>5, <1>7, <1>8, <1>9, LinesGo DEF IInv

(***************************************************************************)
(* A helper is dropped, for a retry or for good.                           *)
(***************************************************************************)
LEMMA KillStep ==
    ASSUME IInv, NEW c \in Threads, DropKill(c)
    PROVE  IInv'
<1> DEFINE h == client
<1>1. /\ pc[c] = "kill" /\ h \in Helpers /\ client' = 0
      /\ alive' = [alive EXCEPT ![h] = FALSE]
      /\ doing' = [doing EXCEPT ![h] = Nothing]
      /\ input' = [input EXCEPT ![h] = <<>>]
      /\ output' = [output EXCEPT ![h] = <<>>]
      /\ UNCHANGED <<closed, spawned, hung, lastId, dropped, attempt, module, answer,
                     executed, opened>>
  BY Facts DEF DropKill, Survives, clientVars, histVars, Control, WithClient, Dropping
<1>2. \/ c \in Closers /\ pc' = [pc EXCEPT ![c] = "done"] /\ lock' = NoCaller
      \/ c \in Callers /\ pc' = [pc EXCEPT ![c] = "ensure"] /\ UNCHANGED lock
  BY Facts DEF DropKill, Goto
<1>3. /\ lock = c
      /\ \A d \in Threads : d # c => pc'[d] = pc[d] /\ pc[d] \notin Inside
      /\ pc' \in [Threads -> Steps]
      /\ \/ c \in Closers /\ pc'[c] = "done" /\ lock' = NoCaller
         \/ c \in Callers /\ pc'[c] = "ensure" /\ lock' = c
  <2>1. pc \in [Threads -> Steps] /\ pc[c] \in Inside /\ lock = c
    BY <1>1, Facts DEF Inside, WithClient, Control, Dropping
  <2>2. \A d \in Threads : d # c => pc[d] \notin Inside
    BY <2>1, Facts DEF Control
  <2> QED BY <1>2, <2>1, <2>2 DEF Steps
\* No helper is alive after it, and none has a request to read.
<1>4. \A g \in Helpers : /\ ~alive'[g] /\ input'[g] = <<>> /\ doing'[g] = Nothing
                         /\ output'[g] = output[g] \/ output'[g] = <<>>
  BY <1>1, Facts DEF Control, TypeOK
<1>5. FewerLines
  BY <1>1, <1>3, <1>4, Facts, EmptyLines DEF FewerLines, Shrunk, Inside, WithClient
<1>6. TypeOK'
  <2>1. /\ alive' \in [Helpers -> BOOLEAN]
        /\ input' \in [Helpers -> Seq(Requests)] /\ output' \in [Helpers -> Seq(Lines)]
        /\ doing' \in [Helpers -> Requests \cup {Nothing}]
    BY <1>1, Facts, EmptyLines DEF TypeOK
  <2> QED BY <1>1, <1>3, <2>1, Facts DEF TypeOK, Steps
<1>7. Control'
  <2>1. \A d \in Threads : (pc'[d] \in Inside => lock' = d) /\ (pc'[d] \in WithClient => client' # 0)
    <3>1. ~(pc'[c] \in WithClient) /\ (pc'[c] \in Inside => lock' = c)
      BY <1>3 DEF Inside, WithClient, Dropping
    <3>2. \A d \in Threads : d # c => pc'[d] \notin Inside
      BY <1>3
    <3> QED
      BY <3>1, <3>2 DEF Inside
  <2>2. \A d \in Closers : pc'[d] \in {"idle", "lock", "done"} \cup Dropping
    BY <1>1, <1>3, Facts DEF Control
  <2>3. closed' => (\A d \in Callers : pc'[d] \notin Inside) /\ client' = 0
    <3> SUFFICES ASSUME closed PROVE \A d \in Callers : pc'[d] \notin Inside
      BY <1>1
    <3>1. c \notin Callers
      BY <1>1, Facts DEF Control, Inside, WithClient, Dropping
    <3> QED
      BY <1>3, <3>1, Facts
  <2> QED
    BY <1>4, <2>1, <2>2, <2>3 DEF Control
<1>8. Told'
  BY <1>1, Facts DEF Told
<1> QED BY <1>1, <1>5, <1>6, <1>7, <1>8, LinesGo DEF IInv

(***************************************************************************)
(* A helper's library hangs, or takes it down.                             *)
(***************************************************************************)
LEMMA HangStep ==
    ASSUME IInv, NEW h \in Helpers, Hang(h)
    PROVE  IInv'
<1>1. /\ hung' = [hung EXCEPT ![h] = TRUE]
      /\ UNCHANGED <<lock, closed, client, spawned, alive, input, output, doing, lastId, dropped,
                     pc, attempt, module, answer, executed, opened>>
  BY DEF Hang, mgrVars, clientVars, callVars, histVars
<1>2. FewerLines
  BY <1>1 DEF FewerLines, Shrunk
<1>3. TypeOK' /\ Control' /\ Told'
  BY <1>1, Facts DEF TypeOK, Control, Told
<1> QED BY <1>1, <1>2, <1>3, LinesGo DEF IInv

LEMMA DieStep ==
    ASSUME IInv, NEW h \in Helpers, Die(h)
    PROVE  IInv'
<1>1. /\ alive[h]
      /\ alive' = [alive EXCEPT ![h] = FALSE]
      /\ doing' = [doing EXCEPT ![h] = Nothing]
      /\ input' = [input EXCEPT ![h] = <<>>]
      /\ output' = [output EXCEPT ![h] = Append(@, EOF)]
      /\ UNCHANGED <<lock, closed, client, spawned, hung, lastId, dropped, pc, attempt, module,
                     answer, executed, opened>>
  BY DEF Die, mgrVars, clientVars, callVars, histVars
<1>2. /\ Append(output[h], EOF) \in Seq(Lines)
      /\ \A i \in 1 .. Len(Append(output[h], EOF)) :
            Append(output[h], EOF)[i] =
                IF i \in 1 .. Len(output[h]) THEN output[h][i] ELSE EOF
  <2>1. output[h] \in Seq(Lines) /\ EOF \in Lines
    BY Facts DEF Lines
  <2> QED BY <2>1, AppendLines
<1>3. FewerLines
  <2>1. \A i \in 1 .. Len(output'[h]) :
           \/ output'[h][i].kind = "eof"
           \/ \E j \in 1 .. Len(output[h]) : output'[h][i] = output[h][j]
    BY <1>1, <1>2, Facts DEF EOF
  <2>2. \A g \in Helpers : /\ g # h => /\ output'[g] = output[g] /\ input'[g] = input[g]
                                       /\ doing'[g] = doing[g]
                           /\ g = h => input'[g] = <<>> /\ doing'[g] = Nothing
    BY <1>1, Facts
  <2> QED BY <1>1, <2>1, <2>2 DEF FewerLines, Shrunk
<1>4. TypeOK'
  <2>1. /\ alive' \in [Helpers -> BOOLEAN]
        /\ input' \in [Helpers -> Seq(Requests)] /\ output' \in [Helpers -> Seq(Lines)]
        /\ doing' \in [Helpers -> Requests \cup {Nothing}]
    BY <1>1, <1>2, Facts, EmptyLines DEF TypeOK
  <2> QED BY <1>1, <2>1, Facts DEF TypeOK
<1>5. Control' /\ Told'
  BY <1>1, Facts DEF Control, Told, TypeOK
<1> QED BY <1>1, <1>3, <1>4, <1>5, LinesGo DEF IInv

-----------------------------------------------------------------------------
(***************************************************************************)
(* The helper takes the next request: it was not executed for this         *)
(* attempt, and no other request of its caller waits.                      *)
(***************************************************************************)
LEMMA DispatchStep ==
    ASSUME IInv, NEW h \in Helpers, Dispatch(h)
    PROVE  IInv'
<1> DEFINE m == Head(input[h])
           s == Tail(input[h])
<1>1. /\ alive[h] /\ input[h] # <<>>
      /\ doing' = [doing EXCEPT ![h] = m]
      /\ executed' = [executed EXCEPT ![m.from] = @ + 1]
      /\ opened' = [opened EXCEPT ![m.from] = @ \cup {m.path}]
      /\ input' = [input EXCEPT ![h] = s]
      /\ UNCHANGED <<lock, closed, client, spawned, alive, output, hung, lastId, dropped, pc,
                     attempt, module, answer>>
  BY DEF Dispatch, mgrVars, clientVars, callVars
<1>2. /\ m \in Requests /\ m = input[h][1] /\ 1 \in 1 .. Len(input[h])
      /\ s \in Seq(Requests) /\ Len(s) = Len(input[h]) - 1
      /\ \A i \in 1 .. Len(s) : i + 1 \in 1 .. Len(input[h]) /\ s[i] = input[h][i + 1]
  <2>1. input[h] \in Seq(Requests)
    BY Facts
  <2> QED BY <1>1, <2>1, TailLines
<1>3. m.from \in Callers /\ m.id \in Nat /\ m.path \in Modules \cup {NoModule}
  BY <1>2 DEF Requests
<1>4. /\ \A g \in Helpers : /\ g # h => input'[g] = input[g] /\ doing'[g] = doing[g]
                            /\ g # h => input[g] = <<>> /\ Len(input[g]) = 0
      /\ input'[h] = s /\ doing'[h] = m
  BY <1>1, Facts, EmptyLines DEF Control
<1>5. /\ \A c \in Callers : /\ executed[c] \in Nat /\ executed'[c] \in Nat
                            /\ executed[c] <= executed'[c]
                            /\ c # m.from => executed'[c] = executed[c]
      /\ executed'[m.from] = executed[m.from] + 1
      /\ executed' \in [Callers -> Nat]
  BY <1>1, <1>3, Facts
\* Every line left to be read is one of h's that was there, a place further on.
<1>6. \A g \in Helpers : \A i \in 1 .. Len(input'[g]) :
          /\ g = h /\ i \in 1 .. Len(s) /\ i + 1 \in 1 .. Len(input[g])
          /\ input'[g][i] = input[g][i + 1]
  <2>1. \A g \in Helpers : g # h => \A i : i \notin 1 .. Len(input'[g])
    BY <1>4
  <2>2. \A i \in 1 .. Len(input'[h]) :
           i \in 1 .. Len(s) /\ i + 1 \in 1 .. Len(input[h]) /\ input'[h][i] = input[h][i + 1]
    BY <1>2, <1>4
  <2> QED BY <2>1, <2>2
<1>7. TypeOK'
  <2>1. input' \in [Helpers -> Seq(Requests)] /\ doing' \in [Helpers -> Requests \cup {Nothing}]
    BY <1>1, <1>2, Facts
  <2>2. opened' \in [Callers -> SUBSET (Modules \cup {NoModule})]
    BY <1>1, <1>3, Facts DEF TypeOK
  <2> QED BY <1>1, <1>5, <2>1, <2>2, Facts DEF TypeOK
<1>8. Control'
  BY <1>1, <1>4, Facts DEF Control
<1>9. Ids'
  <2>1. \A g \in Helpers : \A i \in 1 .. Len(input'[g]) : input'[g][i].id <= lastId[g]
    BY <1>6, Facts DEF Ids
  <2>2. \A g \in Helpers : \A i \in 1 .. Len(output[g]) : output[g][i].kind # "eof" =>
           output[g][i].id <= lastId[g] /\ executed'[output[g][i].from] >= 1
    <3> SUFFICES ASSUME NEW g \in Helpers, NEW i \in 1 .. Len(output[g]), output[g][i].kind # "eof"
                 PROVE  output[g][i].id <= lastId[g] /\ executed'[output[g][i].from] >= 1
      OBVIOUS
    <3>1. output[g][i].from \in Callers /\ executed[output[g][i].from] >= 1
          /\ output[g][i].id <= lastId[g]
      BY LineTypes, Facts DEF Ids
    <3> QED BY <1>5, <3>1
  <2>3. \A g \in Helpers : doing'[g] # Nothing =>
           doing'[g].id <= lastId[g] /\ executed'[doing'[g].from] >= 1
    <3> SUFFICES ASSUME NEW g \in Helpers, doing'[g] # Nothing
                 PROVE  doing'[g].id <= lastId[g] /\ executed'[doing'[g].from] >= 1
      OBVIOUS
    <3>1. CASE g = h
      <4>1. m.id <= lastId[h]
        BY <1>2, Facts DEF Ids
      <4> QED BY <1>3, <1>4, <1>5, <3>1, <4>1
    <3>2. CASE g # h
      <4>1. /\ doing'[g] = doing[g] /\ doing[g].from \in Callers
            /\ executed[doing[g].from] >= 1 /\ doing[g].id <= lastId[g]
        BY <1>4, <3>2, LineTypes, Facts DEF Ids
      <4> QED BY <1>5, <4>1
    <3> QED BY <3>1, <3>2
  <2> QED BY <1>1, <2>1, <2>2, <2>3 DEF Ids
<1>10. Mine'
  <2> SUFFICES ASSUME NEW c \in Callers, pc[c] = "wait"
               PROVE  /\ \A i \in 1 .. Len(input'[client]) :
                            input'[client][i].id = lastId[client] => input'[client][i].from = c
                      /\ doing'[client] # Nothing /\ doing'[client].id = lastId[client] =>
                            doing'[client].from = c
    <3>1. Mine /\ UNCHANGED <<client, output, lastId, pc>>
      BY <1>1, Facts
    <3> QED BY <3>1 DEF Mine
  <2>1. client = h
    BY <1>1, Facts DEF Control
  <2>2. \A i \in 1 .. Len(input'[h]) : input'[h][i].id = lastId[h] => input'[h][i].from = c
    <3> SUFFICES ASSUME NEW i \in 1 .. Len(input'[h]), input'[h][i].id = lastId[h]
                 PROVE  input'[h][i].from = c
      OBVIOUS
    <3>1. i + 1 \in 1 .. Len(input[h]) /\ input'[h][i] = input[h][i + 1]
      BY <1>6
    <3> QED BY <2>1, <3>1, Facts DEF Mine
  <2>3. m.id = lastId[h] => m.from = c
    BY <1>2, <2>1, Facts DEF Mine
  <2> QED BY <1>4, <2>1, <2>2, <2>3
<1>11. Counts'
  <2>1. executed[m.from] < attempt[m.from] /\ attempt[m.from] \in Nat
    <3>1. executed[input[h][1].from] < attempt[input[h][1].from]
      BY <1>2, Facts DEF Counts
    <3>2. attempt[m.from] \in 0 .. 2
      BY <1>3, Facts
    <3> QED BY <1>2, <3>1, <3>2
  <2>2. \A i \in 1 .. Len(s) : s[i].from \in Callers /\ s[i].from # m.from
    <3> SUFFICES ASSUME NEW i \in 1 .. Len(s) PROVE s[i].from \in Callers /\ s[i].from # m.from
      OBVIOUS
    <3>1. Len(s) \in Nat /\ i + 1 # 1
      BY <1>2, LenProperties
    <3> QED BY <1>2, <3>1, LineTypes, Facts DEF Counts
  <2>3. \A c \in Callers :
          /\ executed'[c] <= attempt[c]
          /\ pc[c] \in {"idle", "lock"} => attempt[c] = 0
          /\ pc[c] \in {"ensure", "send"} \cup Dropping => attempt[c] <= 1
          /\ pc[c] \in {"wait", "failed"} => attempt[c] \in 1 .. 2
    <3> SUFFICES ASSUME NEW c \in Callers
                 PROVE  /\ executed'[c] <= attempt[c]
                        /\ pc[c] \in {"idle", "lock"} => attempt[c] = 0
                        /\ pc[c] \in {"ensure", "send"} \cup Dropping => attempt[c] <= 1
                        /\ pc[c] \in {"wait", "failed"} => attempt[c] \in 1 .. 2
      OBVIOUS
    <3>1. executed'[c] <= attempt[c]
      <4>1. executed[c] <= attempt[c]
        BY Facts DEF Counts
      <4>2. CASE c = m.from
        BY <1>3, <1>5, <2>1, <4>2
      <4>3. CASE c # m.from
        BY <1>5, <4>1, <4>3
      <4> QED BY <4>2, <4>3
    <3> QED BY <3>1, Facts DEF Counts
  <2>4. \A c \in Callers : pc[c] \in {"idle", "lock", "ensure", "send"} =>
           \A g \in Helpers : \A i \in 1 .. Len(input'[g]) : input'[g][i].from # c
    <3> SUFFICES ASSUME NEW c \in Callers, pc[c] \in {"idle", "lock", "ensure", "send"},
                        NEW g \in Helpers, NEW i \in 1 .. Len(input'[g])
                 PROVE  input'[g][i].from # c
      OBVIOUS
    <3>1. i + 1 \in 1 .. Len(input[g]) /\ input'[g][i] = input[g][i + 1]
      BY <1>6
    <3> QED BY <3>1, Facts DEF Counts
  <2>5. \A g \in Helpers : \A i \in 1 .. Len(input'[g]) :
          /\ executed'[input'[g][i].from] < attempt[input'[g][i].from]
          /\ \A j \in 1 .. Len(input'[g]) : input'[g][i].from = input'[g][j].from => i = j
    <3> SUFFICES ASSUME NEW g \in Helpers, NEW i \in 1 .. Len(input'[g])
                 PROVE  /\ executed'[input'[g][i].from] < attempt[input'[g][i].from]
                        /\ \A j \in 1 .. Len(input'[g]) :
                              input'[g][i].from = input'[g][j].from => i = j
      OBVIOUS
    <3>1. g = h /\ input'[g] = s /\ i \in 1 .. Len(s)
      BY <1>4, <1>6
    <3>2. executed'[s[i].from] = executed[s[i].from]
      BY <1>5, <2>2, <3>1
    <3>3. executed[s[i].from] < attempt[s[i].from]
      <4>1. s[i] = input[h][i + 1] /\ i + 1 \in 1 .. Len(input[h])
        BY <1>2, <3>1
      <4> QED BY <4>1, Facts DEF Counts
    <3>4. \A j \in 1 .. Len(s) : s[i].from = s[j].from => i = j
      <4> SUFFICES ASSUME NEW j \in 1 .. Len(s), s[i].from = s[j].from PROVE i = j
        OBVIOUS
      <4>1. /\ s[i] = input[h][i + 1] /\ i + 1 \in 1 .. Len(input[h])
            /\ s[j] = input[h][j + 1] /\ j + 1 \in 1 .. Len(input[h])
        BY <1>2, <3>1
      <4>2. i + 1 = j + 1
        BY <4>1, Facts DEF Counts
      <4> QED BY <3>1, <4>2
    <3> QED BY <3>1, <3>2, <3>3, <3>4
  <2> QED BY <1>1, <2>3, <2>4, <2>5 DEF Counts
<1>12. Told'
  BY <1>1, <1>5, Facts DEF Told
<1> QED BY <1>7, <1>8, <1>9, <1>10, <1>11, <1>12 DEF IInv

(***************************************************************************)
(* The helper answers with the id and for the caller of the request.       *)
(***************************************************************************)
LEMMA ReplyStep ==
    ASSUME IInv, NEW h \in Helpers, Reply(h)
    PROVE  IInv'
<1>1. PICK kind \in {"result", "error"} :
         output' = [output EXCEPT ![h] = Append(@, [id |-> doing[h].id, from |-> doing[h].from,
                                                    kind |-> kind])]
  BY DEF Reply
<1> DEFINE x == [id |-> doing[h].id, from |-> doing[h].from, kind |-> kind]
<1>2. /\ alive[h] /\ doing[h] # Nothing
      /\ doing' = [doing EXCEPT ![h] = Nothing]
      /\ UNCHANGED <<lock, closed, client, spawned, alive, input, hung, lastId, dropped, pc,
                     attempt, module, answer, executed, opened>>
  BY DEF Reply, mgrVars, clientVars, callVars, histVars
<1>3. x \in Lines /\ x.id = doing[h].id /\ x.from = doing[h].from
  BY <1>2, LineTypes DEF Lines
<1>4. /\ Append(output[h], x) \in Seq(Lines)
      /\ \A i \in 1 .. Len(Append(output[h], x)) :
            Append(output[h], x)[i] = IF i \in 1 .. Len(output[h]) THEN output[h][i] ELSE x
  <2>1. output[h] \in Seq(Lines)
    BY Facts
  <2> QED BY <1>3, <2>1, AppendLines
<1>5. /\ \A g \in Helpers : g # h => output'[g] = output[g] /\ doing'[g] = doing[g]
      /\ doing'[h] = Nothing
      /\ \A i \in 1 .. Len(output'[h]) :
            output'[h][i] = x \/ (i \in 1 .. Len(output[h]) /\ output'[h][i] = output[h][i])
  <2>1. /\ \A g \in Helpers : g # h => output'[g] = output[g] /\ doing'[g] = doing[g]
        /\ doing'[h] = Nothing /\ output'[h] = Append(output[h], x)
    BY <1>1, <1>2, Facts
  <2> HIDE DEF x
  <2>2. \A i \in 1 .. Len(output'[h]) :
           output'[h][i] = IF i \in 1 .. Len(output[h]) THEN output[h][i] ELSE x
    BY <1>4, <2>1
  <2> QED BY <2>1, <2>2
<1>6. TypeOK'
  <2>1. output' \in [Helpers -> Seq(Lines)] /\ doing' \in [Helpers -> Requests \cup {Nothing}]
    BY <1>1, <1>2, <1>4, Facts
  <2> QED BY <1>2, <2>1, Facts DEF TypeOK
<1>7. Control' /\ Counts' /\ Told'
  BY <1>2, <1>5, Facts DEF Control, Counts, Told
<1>8. Ids'
  <2>1. x.id <= lastId[h] /\ executed[x.from] >= 1
    BY <1>2, <1>3, Facts DEF Ids
  <2>2. \A g \in Helpers : \A i \in 1 .. Len(output'[g]) : output'[g][i].kind # "eof" =>
           output'[g][i].id <= lastId[g] /\ executed[output'[g][i].from] >= 1
    <3> SUFFICES ASSUME NEW g \in Helpers, NEW i \in 1 .. Len(output'[g]), output'[g][i].kind # "eof"
                 PROVE  output'[g][i].id <= lastId[g] /\ executed[output'[g][i].from] >= 1
      OBVIOUS
    <3>1. CASE g = h /\ output'[g][i] = x
      BY <2>1, <3>1
    <3>2. CASE i \in 1 .. Len(output[g]) /\ output'[g][i] = output[g][i]
      BY <3>2, Facts DEF Ids
    <3> QED BY <1>5, <3>1, <3>2
  <2>3. \A g \in Helpers : doing'[g] # Nothing =>
           doing'[g].id <= lastId[g] /\ executed[doing'[g].from] >= 1
    BY <1>5, Facts DEF Ids
  <2> QED BY <1>2, <2>2, <2>3, Facts DEF Ids
<1>9. Mine'
  <2> SUFFICES ASSUME NEW c \in Callers, pc[c] = "wait"
               PROVE  /\ \A i \in 1 .. Len(output'[client]) :
                            output'[client][i].kind # "eof"
                              /\ output'[client][i].id = lastId[client] =>
                                output'[client][i].from = c
                      /\ doing'[client] # Nothing /\ doing'[client].id = lastId[client] =>
                            doing'[client].from = c
    BY <1>2, Facts DEF Mine
  <2>1. client = h
    BY <1>2, Facts DEF Control
  <2>2. x.id = lastId[h] => x.from = c
    BY <1>2, <1>3, <2>1, Facts DEF Mine
  <2>3. \A i \in 1 .. Len(output'[h]) :
           output'[h][i].kind # "eof" /\ output'[h][i].id = lastId[h] => output'[h][i].from = c
    <3> SUFFICES ASSUME NEW i \in 1 .. Len(output'[h]), output'[h][i].kind # "eof",
                        output'[h][i].id = lastId[h]
                 PROVE  output'[h][i].from = c
      OBVIOUS
    <3>1. CASE output'[h][i] = x
      BY <2>2, <3>1
    <3>2. CASE i \in 1 .. Len(output[h]) /\ output'[h][i] = output[h][i]
      BY <2>1, <3>2, Facts DEF Mine
    <3> QED BY <1>5, <3>1, <3>2
  <2> QED BY <1>5, <2>1, <2>3
<1> QED BY <1>6, <1>7, <1>8, <1>9 DEF IInv

-----------------------------------------------------------------------------
(***************************************************************************)
(* Every step, and so every behaviour, keeps the invariant.                *)
(***************************************************************************)
LEMMA NextIInv == IInv /\ [Next]_vars => IInv'
<1> SUFFICES ASSUME IInv, [Next]_vars PROVE IInv'
  OBVIOUS
<1>1. CASE UNCHANGED vars
  <2> USE <1>1 DEF vars, mgrVars, helperVars, clientVars, callVars, histVars
  <2>1. TypeOK' /\ Control' /\ Told'
    BY Facts DEF TypeOK, Control, Told
  <2>2. Ids' /\ Mine' /\ Counts'
    BY LinesGo DEF FewerLines, Shrunk
  <2> QED BY <2>1, <2>2 DEF IInv
<1>2. ASSUME NEW c \in Callers, Call(c) \/ CallStep(c) PROVE IInv'
  BY <1>2, QuietSteps, SpawnStep, SendStep, ReceiveStep DEF CallStep
<1>3. ASSUME NEW c \in Closers, CloseAsked(c) \/ CloseEnter(c) PROVE IInv'
  BY <1>3, QuietSteps
<1>4. ASSUME NEW c \in Threads, DropStep(c) PROVE IInv'
  BY <1>4, QuietSteps, KillStep DEF DropStep
<1>5. ASSUME NEW h \in Helpers, Dispatch(h) \/ Reply(h) \/ Hang(h) \/ Die(h) PROVE IInv'
  BY <1>5, DispatchStep, ReplyStep, HangStep, DieStep
<1> QED BY <1>1, <1>2, <1>3, <1>4, <1>5 DEF Next

(***************************************************************************)
(* The inductive invariant holds in every reachable state.                 *)
(***************************************************************************)
THEOREM BridgeInductive == Spec => []IInv
BY InitIInv, NextIInv, PTL DEF Spec

(***************************************************************************)
(* The types are kept (Bridge's TypeOK).                                   *)
(***************************************************************************)
THEOREM BridgeTypeCorrect == Spec => []TypeOK
<1>1. IInv => TypeOK
  BY DEF IInv
<1> QED BY <1>1, BridgeInductive, PTL

(***************************************************************************)
(* A caller is answered with the result of its own operation               *)
(* (BridgeClient._rpc).                                                    *)
(***************************************************************************)
THEOREM AnswersReachTheirCallers == Spec => []AnswerIsMine
<1>1. IInv => AnswerIsMine
  BY DEF IInv, Told, AnswerIsMine
<1> QED BY <1>1, BridgeInductive, PTL

(***************************************************************************)
(* While nobody is inside the manager no helper runs but its client, and   *)
(* none after close (BridgeManager.close).                                 *)
(***************************************************************************)
THEOREM NoHelperLeft == Spec => []NoOrphan
<1>1. IInv => NoOrphan
  BY Facts DEF Control, NoOrphan, Inside, WithClient
<1> QED BY <1>1, BridgeInductive, PTL

-----------------------------------------------------------------------------
(* The remote call *)

\* What is answered comes before what is done, and that before what waits.
Ordered(h) ==
    /\ \A i, j \in 1 .. Len(input[h]) : i < j => input[h][i].id < input[h][j].id
    /\ \A i \in 1 .. Len(input[h]) :
          /\ doing[h] # Nothing => doing[h].id < input[h][i].id
          /\ \A j \in 1 .. Len(output[h]) :
                output[h][j].kind # "eof" => output[h][j].id < input[h][i].id
InOrder == \A h \in Helpers : Ordered(h)

\* Whoever waits has nothing but its newest request to be read.
Newest ==
    \A c \in Callers : pc[c] = "wait" =>
        \A i \in 1 .. Len(input[client]) :
            input[client][i].from = c => input[client][i].id = lastId[client]

\* Whoever was told of a result, or of no helper, has no request to be read.
Unasked(c) == \A h \in Helpers : \A i \in 1 .. Len(input[h]) : input[h][i].from # c
Settled ==
    \A c \in Callers :
        /\ pc[c] # "done" => answer[c].kind = "none"
        /\ answer[c].kind \in {"ok", "unavailable"} => Unasked(c)

RInv == IInv /\ InOrder /\ Newest /\ Settled

LEMMA InitRInv == Init => RInv
<1> SUFFICES ASSUME Init PROVE RInv
  OBVIOUS
<1>1. /\ \A h \in Helpers : Len(input[h]) = 0
      /\ \A c \in Callers : pc[c] = "idle" /\ answer[c].kind = "none"
  BY EmptyLines DEF Init, Threads
<1> QED
  BY <1>1, InitIInv DEF RInv, InOrder, Ordered, Newest, Settled, Unasked

(***************************************************************************)
(* No step but a request, its being taken up and its answer adds a line.   *)
(***************************************************************************)
LEMMA ShrinkSteps ==
    ASSUME IInv, [Next]_vars,
           \A c \in Callers : ~Send(c), \A h \in Helpers : ~Dispatch(h) /\ ~Reply(h)
    PROVE  Shrunk /\ UNCHANGED <<lastId, attempt, executed>>
<1> USE DEF mgrVars, helperVars, clientVars, callVars, histVars
<1>1. CASE UNCHANGED <<input, doing, output>> /\ UNCHANGED <<lastId, attempt, executed>>
  BY <1>1 DEF Shrunk
<1>2. ASSUME NEW c \in Callers, Receive(c)
      PROVE  Shrunk /\ UNCHANGED <<lastId, attempt, executed>>
  <2>1. /\ client \in Helpers /\ output[client] # <<>>
        /\ output' = [output EXCEPT ![client] = Tail(@)]
        /\ UNCHANGED <<input, doing, lastId, attempt, executed>>
    BY <1>2, Facts DEF Receive, Control, WithClient
  <2>2. \A i \in 1 .. Len(Tail(output[client])) :
           \E j \in 1 .. Len(output[client]) : Tail(output[client])[i] = output[client][j]
    <3>1. output[client] \in Seq(Lines)
      BY <2>1, Facts
    <3> QED
      BY <2>1, <3>1, TailLines
  <2>3. output'[client] = Tail(output[client]) /\ \A g \in Helpers : g # client => output'[g] = output[g]
    BY <2>1, Facts
  <2>4. \A g \in Helpers : \A i \in 1 .. Len(output'[g]) :
           \E j \in 1 .. Len(output[g]) : output'[g][i] = output[g][j]
    <3>1. \A i \in 1 .. Len(output'[client]) :
             \E j \in 1 .. Len(output[client]) : output'[client][i] = output[client][j]
      BY <2>2, <2>3
    <3> QED
      BY <2>3, <3>1
  <2> QED
    BY <2>1, <2>4 DEF Shrunk
<1>3. ASSUME NEW c \in Threads, DropKill(c)
      PROVE  Shrunk /\ UNCHANGED <<lastId, attempt, executed>>
  <2>1. /\ input' = [input EXCEPT ![client] = <<>>] /\ doing' = [doing EXCEPT ![client] = Nothing]
        /\ output' = [output EXCEPT ![client] = <<>>]
        /\ UNCHANGED <<lastId, attempt, executed>>
    BY <1>3 DEF DropKill
  <2>2. \A g \in Helpers : /\ input'[g] = input[g] \/ input'[g] = <<>>
                           /\ doing'[g] = doing[g] \/ doing'[g] = Nothing
                           /\ output'[g] = output[g] \/ output'[g] = <<>>
    BY <2>1, Facts
  <2> QED
    BY <2>1, <2>2, EmptyLines DEF Shrunk
<1>4. ASSUME NEW h \in Helpers, Die(h)
      PROVE  Shrunk /\ UNCHANGED <<lastId, attempt, executed>>
  <2>1. /\ input' = [input EXCEPT ![h] = <<>>] /\ doing' = [doing EXCEPT ![h] = Nothing]
        /\ output' = [output EXCEPT ![h] = Append(@, EOF)]
        /\ UNCHANGED <<lastId, attempt, executed>>
    BY <1>4 DEF Die
  <2>2. \A i \in 1 .. Len(output'[h]) :
           \/ output'[h][i].kind = "eof"
           \/ \E j \in 1 .. Len(output[h]) : output'[h][i] = output[h][j]
    <3>1. output[h] \in Seq(Lines) /\ EOF \in Lines /\ output'[h] = Append(output[h], EOF)
      BY <2>1, Facts DEF Lines
    <3> QED
      BY <3>1, AppendLines DEF EOF
  <2>3. \A g \in Helpers : /\ input'[g] = input[g] \/ input'[g] = <<>>
                           /\ doing'[g] = doing[g] \/ doing'[g] = Nothing
                           /\ g # h => output'[g] = output[g]
    BY <2>1, Facts
  <2> QED
    BY <2>1, <2>2, <2>3 DEF Shrunk
<1>5. CASE \E c \in Callers : \/ Call(c) \/ Enter(c) \/ EnterClosed(c) \/ Reuse(c) \/ Spawn(c)
                              \/ SpawnFails(c) \/ Timeout(c) \/ Retry(c) \/ GiveUp(c)
  BY <1>1, <1>5 DEF Call, Enter, EnterClosed, Reuse, Spawn, SpawnFails, Timeout, Retry, GiveUp
<1>6. CASE \/ \E c \in Closers : CloseAsked(c) \/ CloseEnter(c)
           \/ \E c \in Threads : DropMark(c) \/ DropShutdown(c)
           \/ \E h \in Helpers : Hang(h)
           \/ UNCHANGED vars
  BY <1>1, <1>6 DEF CloseAsked, CloseEnter, DropMark, DropShutdown, Hang, vars
<1> QED
  BY <1>2, <1>3, <1>4, <1>5, <1>6 DEF Next, CallStep, DropStep

(***************************************************************************)
(* The lines of a helper stay in the order in which they were asked for.   *)
(***************************************************************************)
LEMMA StepInOrder ==
    ASSUME IInv, InOrder, [Next]_vars
    PROVE  InOrder'
<1>1. CASE Shrunk
  <2> SUFFICES ASSUME NEW g \in Helpers PROVE Ordered(g)'
    BY DEF InOrder
  <2>1. Ordered(g)
    BY DEF InOrder
  <2>2. CASE input'[g] = <<>>
    BY <2>2, EmptyLines DEF Ordered
  <2>3. CASE input'[g] = input[g]
    <3>1. /\ doing'[g] = doing[g] \/ doing'[g] = Nothing
          /\ \A i \in 1 .. Len(output'[g]) :
                \/ output'[g][i].kind = "eof"
                \/ \E j \in 1 .. Len(output[g]) : output'[g][i] = output[g][j]
      BY <1>1 DEF Shrunk
    <3>2. \A i \in 1 .. Len(input[g]) : doing'[g] # Nothing => doing'[g].id < input[g][i].id
      BY <2>1, <3>1 DEF Ordered
    <3>3. ASSUME NEW i \in 1 .. Len(input[g]), NEW j \in 1 .. Len(output'[g]), output'[g][j].kind # "eof"
          PROVE  output'[g][j].id < input[g][i].id
      <4>1. PICK k \in 1 .. Len(output[g]) : output'[g][j] = output[g][k]
        BY <3>1, <3>3
      <4> QED
        BY <2>1, <3>3, <4>1 DEF Ordered
    <3>4. \A i, j \in 1 .. Len(input[g]) : i < j => input[g][i].id < input[g][j].id
      BY <2>1 DEF Ordered
    <3> QED
      BY <2>3, <3>2, <3>3, <3>4 DEF Ordered
  <2> QED
    BY <1>1, <2>2, <2>3 DEF Shrunk
\* The newest request comes last and has the highest id.
<1>2. ASSUME NEW c \in Callers, Send(c) PROVE InOrder'
  <2>0. PICK h \in Helpers : h = client
    BY <1>2, Facts DEF Send, Control, WithClient
  <2>9. PICK r \in Requests : r = Request(c, lastId[h] + 1)
    <3>1. lastId[h] + 1 \in Nat
      BY Facts
    <3>2. Request(c, lastId[h] + 1) \in Requests
      BY <3>1 DEF Request, PathSent, Requests
    <3> QED
      BY <3>2
  <2>1. /\ h \in Helpers /\ UNCHANGED <<output, doing>>
        /\ input' = input \/ input' = [input EXCEPT ![h] = Append(@, r)]
    BY <1>2, <2>0, <2>9 DEF Send
  <2>2. CASE input' = input
    BY <2>1, <2>2 DEF InOrder, Ordered
  <2>3. CASE input' = [input EXCEPT ![h] = Append(@, r)]
    <3>1. r \in Requests /\ r.id = lastId[h] + 1 /\ input[h] \in Seq(Requests)
          /\ input'[h] = Append(input[h], r) /\ \A g \in Helpers : g # h => input'[g] = input[g]
      BY <2>1, <2>3, <2>9, Facts DEF Request
    <3>2. /\ Len(input'[h]) = Len(input[h]) + 1
          /\ \A i \in 1 .. Len(input[h]) + 1 :
                input'[h][i] = IF i \in 1 .. Len(input[h]) THEN input[h][i] ELSE r
      BY <3>1, AppendLines
    <3>3. /\ \A i \in 1 .. Len(input[h]) : input[h][i].id <= lastId[h] /\ input[h][i].id \in Nat
          /\ \A i \in 1 .. Len(output[h]) : output[h][i].kind # "eof" =>
                output[h][i].id <= lastId[h] /\ output[h][i].id \in Nat
          /\ doing[h] # Nothing => doing[h].id <= lastId[h] /\ doing[h].id \in Nat
          /\ lastId[h] \in Nat /\ Len(input[h]) \in Nat
      BY <2>1, Facts, LineTypes DEF Ids
    <3>4. Ordered(h)
      BY <2>1 DEF InOrder
    <3>5. Ordered(h)'
      <4>1. \A i \in 1 .. Len(input'[h]) :
               \/ i \in 1 .. Len(input[h]) /\ input'[h][i] = input[h][i]
               \/ i = Len(input[h]) + 1 /\ input'[h][i] = r
        BY <3>2, <3>3
      <4>2. ASSUME NEW i \in 1 .. Len(input'[h]), NEW j \in 1 .. Len(input'[h]), i < j
            PROVE  input'[h][i].id < input'[h][j].id
        <5>1. i \in 1 .. Len(input[h]) /\ input'[h][i] = input[h][i]
          BY <3>2, <3>3, <4>1, <4>2
        <5>2. CASE j = Len(input[h]) + 1
          BY <3>1, <3>2, <3>3, <5>1, <5>2
        <5>3. CASE j # Len(input[h]) + 1
          BY <3>4, <4>1, <4>2, <5>1, <5>3 DEF Ordered
        <5> QED
          BY <5>2, <5>3
      <4>3. ASSUME NEW i \in 1 .. Len(input'[h])
            PROVE  /\ doing'[h] # Nothing => doing'[h].id < input'[h][i].id
                   /\ \A j \in 1 .. Len(output'[h]) :
                         output'[h][j].kind # "eof" => output'[h][j].id < input'[h][i].id
        <5>1. CASE input'[h][i] = r
          BY <2>1, <3>1, <3>3, <5>1
        <5>2. CASE i \in 1 .. Len(input[h]) /\ input'[h][i] = input[h][i]
          BY <2>1, <3>4, <5>2 DEF Ordered
        <5> QED
          BY <4>1, <5>1, <5>2
      <4> QED
        BY <4>2, <4>3 DEF Ordered
    <3>6. ASSUME NEW g \in Helpers, g # h PROVE Ordered(g)'
      <4>1. Ordered(g) /\ input'[g] = input[g] /\ output' = output /\ doing' = doing
        BY <2>1, <3>1, <3>6 DEF InOrder
      <4> QED
        BY <4>1 DEF Ordered
    <3> QED
      BY <3>5, <3>6 DEF InOrder
  <2> QED
    BY <2>1, <2>2, <2>3
\* The first that waits is the one to be done.
<1>3. ASSUME NEW h \in Helpers, Dispatch(h) PROVE InOrder'
  <2>1. /\ input[h] # <<>> /\ output' = output
        /\ doing' = [doing EXCEPT ![h] = Head(input[h])]
        /\ input' = [input EXCEPT ![h] = Tail(@)]
    BY <1>3 DEF Dispatch
  <2>2. /\ doing'[h] = Head(input[h]) /\ input'[h] = Tail(input[h]) /\ input[h] \in Seq(Requests)
        /\ \A g \in Helpers : g # h => input'[g] = input[g] /\ doing'[g] = doing[g]
    BY <2>1, Facts
  <2> DEFINE s == Tail(input[h])
  <2>4. /\ Head(input[h]) = input[h][1] /\ 1 \in 1 .. Len(input[h])
        /\ Len(input[h]) \in Nat /\ Len(s) = Len(input[h]) - 1
        /\ \A i \in 1 .. Len(s) : i + 1 \in 1 .. Len(input[h]) /\ s[i] = input[h][i + 1]
    BY <2>1, <2>2, TailLines, LenProperties
  <2>3. /\ doing'[h] = input[h][1] /\ input'[h] = s
        /\ \A i \in 1 .. Len(s) : s[i] = input[h][i + 1] /\ i + 1 \in 2 .. Len(input[h])
    BY <2>2, <2>4
  <2> HIDE DEF s
  <2>5. Ordered(h)
    BY DEF InOrder
  <2>6. Ordered(h)'
    <3>1. \A i, j \in 1 .. Len(input'[h]) : i < j => input'[h][i].id < input'[h][j].id
      <4> SUFFICES ASSUME NEW i \in 1 .. Len(s), NEW j \in 1 .. Len(s), i < j
                   PROVE  s[i].id < s[j].id
        BY <2>3
      <4>1. /\ i + 1 \in 1 .. Len(input[h]) /\ j + 1 \in 1 .. Len(input[h]) /\ i + 1 < j + 1
            /\ s[i] = input[h][i + 1] /\ s[j] = input[h][j + 1]
        BY <2>4
      <4> QED
        BY <2>5, <4>1 DEF Ordered
    <3>2. \A i \in 1 .. Len(input'[h]) : doing'[h].id < input'[h][i].id
      <4> SUFFICES ASSUME NEW i \in 1 .. Len(s)
                   PROVE  input[h][1].id < s[i].id
        BY <2>3
      <4>1. 1 \in 1 .. Len(input[h]) /\ i + 1 \in 1 .. Len(input[h]) /\ 1 < i + 1 /\ s[i] = input[h][i + 1]
        BY <2>4
      <4> QED
        BY <2>5, <4>1 DEF Ordered
    <3>3. \A i \in 1 .. Len(input'[h]) : \A j \in 1 .. Len(output'[h]) :
             output'[h][j].kind # "eof" => output'[h][j].id < input'[h][i].id
      BY <2>1, <2>3, <2>4, <2>5 DEF Ordered
    <3> QED
      BY <3>1, <3>2, <3>3 DEF Ordered
  <2>7. ASSUME NEW g \in Helpers, g # h PROVE Ordered(g)'
    <3>1. Ordered(g) /\ input'[g] = input[g] /\ output' = output /\ doing'[g] = doing[g]
      BY <2>1, <2>2, <2>7 DEF InOrder
    <3> QED
      BY <3>1 DEF Ordered
  <2> QED
    BY <2>6, <2>7 DEF InOrder
<1>4. ASSUME NEW h \in Helpers, Reply(h) PROVE InOrder'
  <2>1. /\ doing[h] # Nothing /\ input' = input
        /\ doing' = [doing EXCEPT ![h] = Nothing]
        /\ \E kind \in {"result", "error"} :
              output' = [output EXCEPT ![h] = Append(@, [id |-> doing[h].id, from |-> doing[h].from,
                                                         kind |-> kind])]
    BY <1>4 DEF Reply
  <2>2. PICK kind \in {"result", "error"} :
              output' = [output EXCEPT ![h] = Append(@, [id |-> doing[h].id, from |-> doing[h].from,
                                                         kind |-> kind])]
    BY <2>1
  <2> DEFINE l == [id |-> doing[h].id, from |-> doing[h].from, kind |-> kind]
  <2>3. l \in Lines /\ l.id = doing[h].id /\ output[h] \in Seq(Lines) /\ output'[h] = Append(output[h], l)
    BY <2>1, <2>2, Facts, LineTypes DEF Lines
  <2>4. /\ doing'[h] = Nothing
        /\ \A g \in Helpers : g # h => output'[g] = output[g] /\ doing'[g] = doing[g]
    BY <2>1, <2>2, Facts
  <2> HIDE DEF l
  <2>5. \A j \in 1 .. Len(output'[h]) : output'[h][j] = l \/ (j \in 1 .. Len(output[h]) /\ output'[h][j] = output[h][j])
    BY <2>3, AppendLines
  <2>6. Ordered(h)
    BY DEF InOrder
  <2>7. Ordered(h)'
    BY <2>1, <2>3, <2>4, <2>5, <2>6 DEF Ordered
  <2>8. ASSUME NEW g \in Helpers, g # h PROVE Ordered(g)'
    <3>1. Ordered(g) /\ input' = input /\ output'[g] = output[g] /\ doing'[g] = doing[g]
      BY <2>1, <2>4, <2>8 DEF InOrder
    <3> QED
      BY <3>1 DEF Ordered
  <2> QED
    BY <2>7, <2>8 DEF InOrder
<1> QED
  BY <1>1, <1>2, <1>3, <1>4, ShrinkSteps

(***************************************************************************)
(* A line that is there to be read was there before, or was just sent.     *)
(***************************************************************************)
LEMMA InputComesFrom ==
    ASSUME IInv, [Next]_vars, NEW g \in Helpers, NEW i \in 1 .. Len(input'[g])
    PROVE  \/ \E j \in 1 .. Len(input[g]) : input'[g][i] = input[g][j]
           \/ \E c \in Callers : /\ Send(c) /\ g = client
                                 /\ input'[g][i].from = c /\ input'[g][i].id = lastId[g] + 1
<1>1. CASE Shrunk
  <2>1. CASE input'[g] = <<>>
    BY <2>1, EmptyLines
  <2> QED
    BY <1>1, <2>1 DEF Shrunk
<1>2. ASSUME NEW c \in Callers, Send(c)
      PROVE  \/ \E j \in 1 .. Len(input[g]) : input'[g][i] = input[g][j]
             \/ g = client /\ input'[g][i].from = c /\ input'[g][i].id = lastId[g] + 1
  <2>0. PICK h \in Helpers : h = client
    BY <1>2, Facts DEF Send, Control, WithClient
  <2>1. PICK r \in Requests : r = Request(c, lastId[h] + 1)
    <3>1. lastId[h] + 1 \in Nat
      BY Facts
    <3>2. Request(c, lastId[h] + 1) \in Requests
      BY <3>1 DEF Request, PathSent, Requests
    <3> QED
      BY <3>2
  <2>2. input' = input \/ input' = [input EXCEPT ![h] = Append(@, r)]
    BY <1>2, <2>0, <2>1 DEF Send
  <2>3. CASE input'[g] = input[g]
    BY <2>3
  <2>4. CASE input'[g] # input[g]
    <3>1. g = h /\ input'[g] = Append(input[g], r) /\ input[g] \in Seq(Requests)
      BY <2>2, <2>4, Facts
    <3>2. \/ input'[g][i] = r
          \/ i \in 1 .. Len(input[g]) /\ input'[g][i] = input[g][i]
      BY <3>1, AppendLines
    <3>3. r.from = c /\ r.id = lastId[g] + 1
      BY <2>1, <3>1 DEF Request
    <3> QED
      BY <2>0, <3>1, <3>2, <3>3
  <2> QED
    BY <2>3, <2>4
<1>3. ASSUME NEW h \in Helpers, Dispatch(h)
      PROVE  \E j \in 1 .. Len(input[g]) : input'[g][i] = input[g][j]
  <2>1. input[h] # <<>> /\ input' = [input EXCEPT ![h] = Tail(@)]
    BY <1>3 DEF Dispatch
  <2>2. CASE g # h
    BY <2>1, <2>2, Facts
  <2>3. CASE g = h
    <3>1. input'[g] = Tail(input[g]) /\ input[g] \in Seq(Requests) /\ input[g] # <<>>
      BY <2>1, <2>3, Facts
    <3>2. i + 1 \in 1 .. Len(input[g]) /\ Tail(input[g])[i] = input[g][i + 1]
      BY <3>1, TailLines
    <3> QED
      BY <3>1, <3>2
  <2> QED
    BY <2>2, <2>3
<1>4. ASSUME NEW h \in Helpers, Reply(h)
      PROVE  \E j \in 1 .. Len(input[g]) : input'[g][i] = input[g][j]
  BY <1>4 DEF Reply
<1> QED
  BY <1>1, <1>2, <1>3, <1>4, ShrinkSteps

(***************************************************************************)
(* Only who is inside gives the client up, takes one or sends.             *)
(***************************************************************************)
LEMMA WaiterKeepsClient ==
    ASSUME IInv, [Next]_vars, NEW c \in Callers, pc[c] = "wait"
    PROVE  UNCHANGED <<client, lastId>> /\ \A d \in Callers : ~Send(d)
<1> USE DEF mgrVars, helperVars, clientVars, callVars, histVars
<1>1. \A d \in Threads : pc[d] \in Inside => d = c
  BY Facts, OneInside DEF Inside, WithClient
<1>2. \A d \in Threads : pc[d] \notin {"ensure", "send", "drop", "shutdown", "kill"}
  BY <1>1 DEF Inside, WithClient, Dropping
<1>3. \A d \in Callers : ~Send(d) /\ ~Spawn(d) /\ ~SpawnFails(d) /\ ~Reuse(d)
  BY <1>2, Facts DEF Send, Spawn, SpawnFails, Reuse
<1>4. \A d \in Threads : ~DropMark(d) /\ ~DropShutdown(d) /\ ~DropKill(d)
  BY <1>2 DEF DropMark, DropShutdown, DropKill
<1>5. CASE \E d \in Callers : \/ Call(d) \/ Enter(d) \/ EnterClosed(d) \/ Receive(d)
                              \/ Timeout(d) \/ Retry(d) \/ GiveUp(d)
  BY <1>3, <1>5 DEF Call, Enter, EnterClosed, Receive, Timeout, Retry, GiveUp
<1>6. CASE \/ \E d \in Closers : CloseAsked(d) \/ CloseEnter(d)
           \/ \E h \in Helpers : Dispatch(h) \/ Reply(h) \/ Hang(h) \/ Die(h)
           \/ UNCHANGED vars
  BY <1>3, <1>6 DEF CloseAsked, CloseEnter, Dispatch, Reply, Hang, Die, vars
<1> QED
  BY <1>3, <1>4, <1>5, <1>6 DEF Next, CallStep, DropStep

(***************************************************************************)
(* Who starts to wait has just sent.                                       *)
(***************************************************************************)
LEMMA WaitsSinceSend ==
    ASSUME IInv, [Next]_vars, NEW c \in Callers, pc'[c] = "wait", pc[c] # "wait"
    PROVE  Send(c)
<1> USE DEF mgrVars, helperVars, clientVars, callVars, histVars, Goto
<1>1. pc \in [Threads -> Steps] /\ c \in Threads /\ c \notin Closers
  BY Facts
<1>2. ASSUME NEW d \in Callers, Call(d) \/ CallStep(d), ~Send(c) PROVE FALSE
  <2>1. \/ pc' = pc
        \/ \E s \in {"lock", "ensure", "send", "failed", "drop", "done"} : pc' = [pc EXCEPT ![d] = s]
        \/ Send(d)
    BY <1>2 DEF Call, CallStep, Enter, EnterClosed, Reuse, Spawn, SpawnFails, Receive, Timeout,
                Retry, GiveUp, Return
  <2>2. Send(d) => \E s \in {"wait", "failed"} : pc' = [pc EXCEPT ![d] = s]
    BY DEF Send
  <2> QED
    BY <1>1, <1>2, <2>1, <2>2
<1>3. ASSUME NEW d \in Threads, DropStep(d) PROVE FALSE
  <2>1. \E s \in {"shutdown", "kill", "ensure", "done"} : pc' = [pc EXCEPT ![d] = s]
    BY <1>3 DEF DropStep, DropMark, DropShutdown, DropKill
  <2> QED
    BY <1>1, <2>1
<1>4. ASSUME NEW d \in Closers, CloseAsked(d) \/ CloseEnter(d) PROVE FALSE
  <2>1. \E s \in {"lock", "drop", "done"} : pc' = [pc EXCEPT ![d] = s]
    BY <1>4 DEF CloseAsked, CloseEnter
  <2> QED
    BY <1>1, <2>1
<1>5. CASE \/ \E h \in Helpers : Dispatch(h) \/ Reply(h) \/ Hang(h) \/ Die(h)
           \/ UNCHANGED vars
  BY <1>5 DEF Dispatch, Reply, Hang, Die, vars
<1> QED
  BY <1>2, <1>3, <1>4, <1>5 DEF Next

LEMMA StepNewest ==
    ASSUME IInv, Newest, [Next]_vars
    PROVE  Newest'
<1> SUFFICES ASSUME NEW c \in Callers, pc'[c] = "wait",
                    NEW i \in 1 .. Len(input'[client']), input'[client'][i].from = c
             PROVE  input'[client'][i].id = lastId'[client']
  BY DEF Newest
<1>1. CASE pc[c] = "wait"
  <2>1. client' = client /\ lastId' = lastId /\ client \in Helpers /\ \A d \in Callers : ~Send(d)
    BY <1>1, WaiterKeepsClient, Facts DEF Control, WithClient
  <2>2. PICK h \in Helpers : h = client /\ h = client'
    BY <2>1
  <2>3. i \in 1 .. Len(input'[h]) /\ input'[h][i].from = c
    BY <2>2
  <2>4. PICK j \in 1 .. Len(input[h]) : input'[h][i] = input[h][j]
    BY <2>1, <2>3, InputComesFrom
  <2> QED
    BY <1>1, <2>1, <2>2, <2>3, <2>4 DEF Newest
<1>2. CASE pc[c] # "wait"
  <2>1. Send(c)
    BY <1>2, WaitsSinceSend
  <2>2. pc[c] = "send" /\ client' = client /\ client \in Helpers
        /\ lastId' = [lastId EXCEPT ![client] = lastId[client] + 1]
    BY <2>1, Facts DEF Send, Control, WithClient, mgrVars
  <2>3. PICK h \in Helpers : h = client /\ h = client'
    BY <2>2
  <2>4. i \in 1 .. Len(input'[h]) /\ input'[h][i].from = c
    BY <2>3
  <2>5. \A j \in 1 .. Len(input[h]) : input[h][j].from # c
    BY <2>2, Facts DEF Counts
  <2>6. input'[h][i].id = lastId[h] + 1
    BY <2>4, <2>5, InputComesFrom
  <2>7. lastId'[h] = lastId[h] + 1
    BY <2>2, <2>3, Facts
  <2> QED
    BY <2>3, <2>6, <2>7
<1> QED
  BY <1>1, <1>2

-----------------------------------------------------------------------------
(***************************************************************************)
(* A caller is told once, as its call ends.                                *)
(***************************************************************************)
LEMMA ToldAtTheEnd ==
    ASSUME IInv, [Next]_vars, NEW c \in Callers
    PROVE  \/ answer'[c] = answer[c] /\ (pc'[c] # "done" => pc[c] # "done")
           \/ pc'[c] = "done" /\ (EnterClosed(c) \/ SpawnFails(c))
           \/ pc'[c] = "done" /\ GiveUp(c)
           \/ pc'[c] = "done" /\ Receive(c) /\ Head(output[client]).kind = "result"
              /\ IsAnswer(Head(output[client]), client)
<1> USE DEF mgrVars, helperVars, clientVars, callVars, histVars, Goto
<1>1. pc \in [Threads -> Steps] /\ answer \in [Callers -> Answers] /\ c \in Threads
  BY Facts
<1>2. ASSUME NEW d \in Callers, EnterClosed(d) \/ SpawnFails(d) \/ GiveUp(d)
      PROVE  IF d = c THEN pc'[c] = "done" ELSE answer'[c] = answer[c] /\ pc'[c] = pc[c]
  <2>1. pc' = [pc EXCEPT ![d] = "done"] /\ \E x : answer' = [answer EXCEPT ![d] = x]
    BY <1>2 DEF EnterClosed, SpawnFails, GiveUp, Return, Answer
  <2> QED
    BY <1>1, <2>1
<1>3. ASSUME NEW d \in Callers, Receive(d)
      PROVE  \/ answer'[c] = answer[c] /\ (pc'[c] # "done" => pc[c] # "done")
             \/ /\ d = c /\ pc'[c] = "done" /\ Head(output[client]).kind = "result"
                /\ IsAnswer(Head(output[client]), client)
  <2>1. \/ (pc' = [pc EXCEPT ![d] = "failed"] \/ pc' = pc) /\ answer' = answer
        \/ /\ Head(output[client]).kind = "result" /\ IsAnswer(Head(output[client]), client)
           /\ pc' = [pc EXCEPT ![d] = "done"] /\ \E x : answer' = [answer EXCEPT ![d] = x]
    BY <1>3 DEF Receive, Return, Answer
  <2>2. pc[d] = "wait"
    BY <1>3 DEF Receive
  <2> QED
    BY <1>1, <2>1, <2>2
<1>4. ASSUME NEW d \in Threads, pc[d] # "done", answer' = answer,
             \/ pc' = pc \/ \E s : pc' = [pc EXCEPT ![d] = s]
      PROVE  answer'[c] = answer[c] /\ (pc'[c] # "done" => pc[c] # "done")
  BY <1>1, <1>4
<1>5. ASSUME NEW d \in Callers, \/ Call(d) \/ Enter(d) \/ Reuse(d) \/ Spawn(d)
                                \/ Send(d) \/ Timeout(d) \/ Retry(d)
      PROVE  answer'[c] = answer[c] /\ (pc'[c] # "done" => pc[c] # "done")
  <2>1. /\ pc[d] # "done" /\ answer' = answer
        /\ \E s : pc' = [pc EXCEPT ![d] = s]
    BY <1>5 DEF Call, Enter, Reuse, Spawn, Send, Timeout, Retry
  <2> QED
    BY <1>4, <2>1, Facts
<1>6. ASSUME NEW d \in Threads, DropStep(d)
      PROVE  answer'[c] = answer[c] /\ (pc'[c] # "done" => pc[c] # "done")
  <2>1. pc[d] # "done" /\ answer' = answer /\ \E s : pc' = [pc EXCEPT ![d] = s]
    BY <1>6 DEF DropStep, DropMark, DropShutdown, DropKill
  <2> QED
    BY <1>4, <2>1
<1>7. ASSUME NEW d \in Closers, CloseAsked(d) \/ CloseEnter(d)
      PROVE  answer'[c] = answer[c] /\ (pc'[c] # "done" => pc[c] # "done")
  <2>1. pc[d] # "done" /\ answer' = answer /\ \E s : pc' = [pc EXCEPT ![d] = s]
    BY <1>7 DEF CloseAsked, CloseEnter
  <2> QED
    BY <1>4, <2>1, Facts
<1>8. CASE \/ \E h \in Helpers : Dispatch(h) \/ Reply(h) \/ Hang(h) \/ Die(h)
           \/ UNCHANGED vars
  BY <1>8 DEF Dispatch, Reply, Hang, Die, vars
<1> QED
  BY <1>2, <1>3, <1>5, <1>6, <1>7, <1>8 DEF Next, CallStep

(***************************************************************************)
(* The answer to the newest request finds no request of its caller unread. *)
(***************************************************************************)
LEMMA AnsweredLeavesNothing ==
    ASSUME IInv, InOrder, Newest, NEW c \in Callers, Receive(c),
           Head(output[client]).kind = "result", IsAnswer(Head(output[client]), client)
    PROVE  Unasked(c)
<1>1. /\ pc[c] = "wait" /\ client \in Helpers /\ output[client] # <<>>
      /\ output[client] \in Seq(Lines)
  BY Facts DEF Receive, Control, WithClient
<1>2. Head(output[client]) = output[client][1] /\ 1 \in 1 .. Len(output[client])
  BY <1>1, TailLines
<1>3. output[client][1].kind # "eof" /\ output[client][1].id = lastId[client]
  BY <1>2 DEF IsAnswer
<1>4. ASSUME NEW i \in 1 .. Len(input[client]), input[client][i].from = c PROVE FALSE
  <2>1. input[client][i].id = lastId[client] /\ lastId[client] \in Nat
    BY <1>1, <1>4, Facts DEF Newest
  <2>2. output[client][1].id < input[client][i].id
    BY <1>1, <1>2, <1>3 DEF InOrder, Ordered
  <2> QED
    BY <1>3, <2>1, <2>2
<1>5. \A g \in Helpers : g # client => input[g] = <<>>
  BY Facts DEF Control
<1> QED
  BY <1>4, <1>5, EmptyLines DEF Unasked

LEMMA StepSettled ==
    ASSUME RInv, [Next]_vars
    PROVE  Settled'
<1> USE DEF RInv
<1>1. ASSUME NEW c \in Callers, pc'[c] # "done" PROVE answer'[c].kind = "none"
  BY <1>1, ToldAtTheEnd DEF Settled
<1>2. ASSUME NEW c \in Callers, answer'[c].kind \in {"ok", "unavailable"}
      PROVE  Unasked(c)'
  <2>1. Unasked(c)
    <3>1. CASE answer'[c] = answer[c]
      BY <1>2, <3>1 DEF Settled
    <3>2. CASE EnterClosed(c) \/ SpawnFails(c)
      <4>1. pc[c] \in {"lock", "ensure"}
        BY <3>2 DEF EnterClosed, SpawnFails
      <4> QED
        BY <4>1, Facts DEF Counts, Unasked
    <3>3. CASE GiveUp(c)
      <4>1. answer' = [answer EXCEPT ![c] = [kind |-> "error", from |-> NoCaller]]
        BY <3>3 DEF GiveUp, Return, Answer
      <4> QED
        BY <1>2, <4>1, Facts
    <3>4. CASE Receive(c) /\ Head(output[client]).kind = "result"
               /\ IsAnswer(Head(output[client]), client)
      BY <3>4, AnsweredLeavesNothing
    <3> QED
      BY <3>1, <3>2, <3>3, <3>4, ToldAtTheEnd
  <2>2. ~Send(c)
    <3>1. SUFFICES ASSUME Send(c) PROVE FALSE
      OBVIOUS
    <3>2. pc[c] = "send" /\ answer' = answer
      BY <3>1 DEF Send
    <3> QED
      BY <1>2, <3>2 DEF Settled
  <2> SUFFICES ASSUME NEW g \in Helpers, NEW i \in 1 .. Len(input'[g])
               PROVE  input'[g][i].from # c
    BY DEF Unasked
  <2>3. CASE \E j \in 1 .. Len(input[g]) : input'[g][i] = input[g][j]
    BY <2>1, <2>3 DEF Unasked
  <2>4. CASE \E d \in Callers : Send(d) /\ input'[g][i].from = d
    BY <2>2, <2>4
  <2> QED
    BY <2>3, <2>4, InputComesFrom
<1> QED
  BY <1>1, <1>2 DEF Settled

LEMMA NextRInv == RInv /\ [Next]_vars => RInv'
BY NextIInv, StepInOrder, StepNewest, StepSettled DEF RInv

-----------------------------------------------------------------------------
(***************************************************************************)
(* A call through the manager implements the remote call: a request is     *)
(* Ask, a helper that takes it up Run, and an end of the call Succeed,     *)
(* Fail or Refuse; every other step is none of it (BridgeManager.call).    *)
(***************************************************************************)
kinds == [c \in Callers |-> answer[c].kind]

\* A call that ends says one thing to one caller.
LEMMA OneIsTold ==
    ASSUME IInv, NEW c \in Callers, NEW kind \in {"ok", "error", "unavailable"},
           NEW from, Answer(c, kind, from)
    PROVE  kinds' = [kinds EXCEPT ![c] = kind]
<1>1. \A d \in Callers : answer'[d].kind = IF d = c THEN kind ELSE answer[d].kind
  BY Facts DEF Answer
<1> QED
  BY <1>1 DEF kinds

LEMMA RemoteInit == Init => Remote!Init
BY DEF Init, Remote!Init

\* Who has a request to send, or none yet, was told nothing and may still ask.
LEMMA BeforeTheEnd ==
    ASSUME IInv, Settled, NEW c \in Callers, pc[c] \in {"lock", "ensure", "send"}
    PROVE  answer[c].kind = "none" /\ attempt[c] < 2
<1>1. attempt[c] = 0 \/ attempt[c] <= 1
  BY Facts DEF Counts
<1>2. attempt[c] \in 0 .. 2
  BY Facts
<1>3. answer[c].kind = "none"
  BY DEF Settled
<1> QED
  BY <1>1, <1>2, <1>3

LEMMA RemoteAsk ==
    ASSUME RInv, NEW c \in Callers, Send(c)
    PROVE  Remote!Ask(c)
<1>1. pc[c] = "send" /\ attempt' = [attempt EXCEPT ![c] = @ + 1] /\ UNCHANGED <<answer, executed>>
  BY DEF Send, histVars
<1>2. answer[c].kind = "none" /\ attempt[c] < 2
  BY <1>1, BeforeTheEnd DEF RInv
<1> QED
  BY <1>1, <1>2 DEF Remote!Ask

LEMMA RemoteRun ==
    ASSUME RInv, NEW h \in Helpers, Dispatch(h)
    PROVE  \E c \in Callers : Remote!Run(c)
<1>1. /\ input[h] # <<>> /\ input[h] \in Seq(Requests)
      /\ executed' = [executed EXCEPT ![Head(input[h]).from] = @ + 1]
      /\ UNCHANGED <<attempt, answer>>
  BY Facts DEF RInv, Dispatch, callVars
<1>2. Head(input[h]) = input[h][1] /\ 1 \in 1 .. Len(input[h])
  BY <1>1, TailLines
<1>3. PICK c \in Callers : c = input[h][1].from
  BY <1>2, LineTypes DEF RInv
<1>4. executed[c] < attempt[c]
  BY <1>2, <1>3, Facts DEF RInv, Counts
<1>5. answer[c].kind \in {"none", "error"}
  <2>1. answer[c].kind \in {"none", "ok", "error", "unavailable"}
    BY Facts DEF RInv, Answers
  <2> QED
    BY <1>2, <1>3, <2>1 DEF RInv, Settled, Unasked
<1> QED
  BY <1>1, <1>2, <1>3, <1>4, <1>5 DEF Remote!Run

LEMMA RemoteSucceed ==
    ASSUME RInv, NEW c \in Callers, Receive(c)
    PROVE  Remote!Succeed(c) \/ UNCHANGED Remote!vars
<1>1. /\ pc[c] = "wait" /\ UNCHANGED <<attempt, executed>> /\ client \in Helpers
      /\ output[client] # <<>> /\ output[client] \in Seq(Lines)
      /\ \/ answer' = answer
         \/ /\ Head(output[client]).kind = "result" /\ Head(output[client]).id = lastId[client]
            /\ Answer(c, "ok", Head(output[client]).from)
  BY Facts DEF RInv, Receive, Return, IsAnswer, histVars, Control, WithClient
<1>2. CASE answer' = answer
  BY <1>1, <1>2 DEF Remote!vars
<1>3. CASE answer' # answer
  <2>1. Head(output[client]) = output[client][1] /\ 1 \in 1 .. Len(output[client])
    BY <1>1, TailLines
  <2>2. /\ output[client][1].kind # "eof" /\ output[client][1].id = lastId[client]
        /\ Answer(c, "ok", Head(output[client]).from)
    BY <1>1, <1>3, <2>1
  <2>3. executed[c] >= 1 /\ executed[c] \in Nat
    <3>1. output[client][1].from = c
      BY <1>1, <2>1, <2>2, Facts DEF RInv, Mine
    <3> QED
      BY <1>1, <2>1, <2>2, <3>1, Facts DEF RInv, Ids
  <2>4. answer[c].kind = "none"
    BY <1>1 DEF RInv, Settled
  <2>5. kinds' = [kinds EXCEPT ![c] = "ok"]
    BY <2>2, OneIsTold DEF RInv
  <2> QED
    BY <1>1, <2>3, <2>4, <2>5 DEF Remote!Succeed, kinds
<1> QED
  BY <1>2, <1>3

LEMMA RemoteFail ==
    ASSUME RInv, NEW c \in Callers, GiveUp(c)
    PROVE  Remote!Fail(c)
<1>1. /\ pc[c] = "failed" /\ attempt[c] = 2 /\ UNCHANGED <<attempt, executed>>
      /\ Answer(c, "error", NoCaller)
  BY DEF GiveUp, LastAttempt, Return, histVars
<1>2. answer[c].kind = "none"
  BY <1>1 DEF RInv, Settled
<1>3. kinds' = [kinds EXCEPT ![c] = "error"]
  BY <1>1, OneIsTold DEF RInv
<1> QED
  BY <1>1, <1>2, <1>3 DEF Remote!Fail, kinds

LEMMA RemoteRefuse ==
    ASSUME RInv, NEW c \in Callers, EnterClosed(c) \/ SpawnFails(c)
    PROVE  Remote!Refuse(c)
<1>1. /\ pc[c] \in {"lock", "ensure"} /\ UNCHANGED <<attempt, executed>>
      /\ Answer(c, "unavailable", NoCaller)
  BY DEF EnterClosed, SpawnFails, Return, histVars
<1>2. answer[c].kind = "none" /\ attempt[c] < 2
  BY <1>1, BeforeTheEnd DEF RInv
<1>3. kinds' = [kinds EXCEPT ![c] = "unavailable"]
  BY <1>1, OneIsTold DEF RInv
<1> QED
  BY <1>1, <1>2, <1>3 DEF Remote!Refuse, kinds

LEMMA RemoteStep == RInv /\ [Next]_vars => [Remote!Next]_Remote!vars
<1> SUFFICES ASSUME RInv, [Next]_vars PROVE [Remote!Next]_Remote!vars
  OBVIOUS
<1> USE DEF mgrVars, helperVars, clientVars, callVars, histVars
<1>1. CASE UNCHANGED <<attempt, executed, answer>>
  BY <1>1 DEF Remote!vars
<1>2. ASSUME NEW c \in Callers, Call(c) \/ Enter(c) \/ Reuse(c) \/ Spawn(c) \/ Timeout(c) \/ Retry(c)
      PROVE  UNCHANGED <<attempt, executed, answer>>
  BY <1>2 DEF Call, Enter, Reuse, Spawn, Timeout, Retry
<1>3. CASE \/ \E c \in Closers : CloseAsked(c) \/ CloseEnter(c)
           \/ \E c \in Threads : DropStep(c)
           \/ \E h \in Helpers : Reply(h) \/ Hang(h) \/ Die(h)
           \/ UNCHANGED vars
  BY <1>1, <1>3 DEF CloseAsked, CloseEnter, DropStep, DropMark, DropShutdown, DropKill,
                    Reply, Hang, Die, vars
<1>4. ASSUME NEW c \in Callers, \/ EnterClosed(c) \/ SpawnFails(c) \/ Send(c) \/ Receive(c) \/ GiveUp(c)
      PROVE  [Remote!Next]_Remote!vars
  BY <1>4, RemoteAsk, RemoteSucceed, RemoteFail, RemoteRefuse DEF Remote!Next
<1>5. ASSUME NEW h \in Helpers, Dispatch(h) PROVE [Remote!Next]_Remote!vars
  BY <1>5, RemoteRun DEF Remote!Next
<1> QED
  BY <1>1, <1>2, <1>3, <1>4, <1>5 DEF Next, CallStep

(***************************************************************************)
(* Whatever the helpers, their libraries and the other threads do, a call  *)
(* is a remote call as its caller sees it (BridgeManager.call).            *)
(***************************************************************************)
THEOREM CallsAreRemote == Spec => ImplementsRemoteCall
<1>1. Spec => []RInv
  BY InitRInv, NextRInv, PTL DEF Spec
<1> QED
  BY <1>1, RemoteInit, RemoteStep, PTL DEF Spec, ImplementsRemoteCall, Remote!Spec
===============================================================================
