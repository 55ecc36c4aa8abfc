------------------------------ MODULE Esign_proofs ------------------------------
(***************************************************************************)
(* Proofs about Esign, for any number of callers, attempts and failures.   *)
(* The breaker has no lock, and yet it holds, because the requests sent    *)
(* since it opened are those of callers who were already let through       *)
(* (Once), and because nobody is counted while it is not open (Calm).      *)
(***************************************************************************)
EXTENDS Esign, TLAPS

States == {"closed", "open", "half_open"}
Fields == {"pc", "op", "bad", "attempt", "pause", "fatal", "result"}

Shape ==
    /\ breaker \in [state : States, failures : Nat, openFor : Nat]
    /\ since \in [Callers -> Nat]
    /\ DOMAIN call = Callers /\ \A c \in Callers : DOMAIN call[c] = Fields

\* Requests are counted from the opening of the breaker only.
Calm == breaker.state # "open" => \A c \in Callers : since[c] = 0

\* Who is still to send has sent nothing since.
Once == breaker.state = "open" =>
            \A c \in Callers : since[c] <= 1 /\ (call[c].pc = "sleep" => since[c] = 0)

Counting == breaker.state = "closed" => breaker.failures < Threshold

EInv == Shape /\ Calm /\ Once /\ Counting

-----------------------------------------------------------------------------
LEMMA MinOfTwo ==
    ASSUME NEW a \in Nat, NEW b \in Nat
    PROVE  /\ Min({a, b}) \in Nat /\ Min({a, b}) \in {a, b}
           /\ Min({a, b}) <= a /\ Min({a, b}) <= b
<1>1. \E x \in {a, b} : \A y \in {a, b} : x <= y
  <2>1. CASE a <= b
    BY <2>1
  <2>2. CASE b <= a
    BY <2>2
  <2> QED
    BY <2>1, <2>2
<1>2. Min({a, b}) \in {a, b} /\ \A y \in {a, b} : Min({a, b}) <= y
  BY <1>1, Zenon DEF Min
<1> QED
  BY <1>2

\* What a step does to one caller only.
LEMMA SetKeeps ==
    ASSUME Shape, NEW c \in Callers, NEW r, DOMAIN r = Fields, Set(c, r)
    PROVE  /\ DOMAIN call' = Callers /\ \A d \in Callers : DOMAIN call'[d] = Fields
           /\ call'[c] = r /\ \A d \in Callers \ {c} : call'[d] = call[d]
  BY DEF Shape, Set

\* A step that leaves the breaker alone and lets nobody through.
LEMMA Aside ==
    ASSUME EInv, NEW c \in Callers, NEW r, DOMAIN r = Fields, r.pc # "sleep",
           Set(c, r), UNCHANGED <<breaker, since>>
    PROVE  EInv'
<1>1. /\ DOMAIN call' = Callers /\ \A d \in Callers : DOMAIN call'[d] = Fields
      /\ call'[c] = r /\ \A d \in Callers \ {c} : call'[d] = call[d]
  BY SetKeeps DEF EInv
<1> QED
  BY <1>1 DEF EInv, Shape, Calm, Once, Counting

LEMMA IdleFields == DOMAIN Idle = Fields /\ Idle.pc = "idle"
  BY DEF Idle, Fields

LEMMA InitEInv == EsignInit => EInv
  BY IdleFields, EsignAssumption DEF EsignInit, EInv, Shape, Calm, Once, Counting, States, Nothing

\* After a failure a caller is done or asks again.
LEMMA AfterFailureFields ==
    ASSUME NEW r, DOMAIN r = Fields
    PROVE  DOMAIN AfterFailure(r) = Fields /\ AfterFailure(r).pc \in {"ask", "done"}
<1>1. CASE GivesUp(r)
  BY <1>1 DEF AfterFailure, Fields
<1>2. CASE ~GivesUp(r)
  BY <1>2 DEF AfterFailure, Fields
<1> QED
  BY <1>1, <1>2

-----------------------------------------------------------------------------
LEMMA CallEInv == EInv /\ (\E c \in Callers : Call(c)) => EInv'
<1> SUFFICES ASSUME EInv, NEW c \in Callers, Call(c) PROVE EInv'
  OBVIOUS
<1>1. PICK op \in Operations, bad \in BOOLEAN :
         Set(c, IF ~Ready(op)
                THEN [Idle EXCEPT !.pc = "done", !.op = op, !.result = "not_ready"]
                ELSE IF MaxAttempts = 0
                THEN [Idle EXCEPT !.pc = "done", !.op = op, !.result = "assertion"]
                ELSE [Idle EXCEPT !.pc = "ask", !.op = op, !.bad = bad, !.attempt = 1])
  BY DEF Call
<1>2. PICK r : DOMAIN r = Fields /\ r.pc # "sleep" /\ Set(c, r)
  BY <1>1, IdleFields DEF Fields
<1>3. UNCHANGED <<breaker, since>>
  BY DEF Call, history
<1> QED
  BY <1>2, <1>3, Aside

\* The breaker lets a caller through only when it is not open.
LEMMA AskEInv == EInv /\ (\E c \in Callers : Ask(c)) => EInv'
<1> SUFFICES ASSUME EInv, NEW c \in Callers, Ask(c) PROVE EInv'
  OBVIOUS
<1>1. DOMAIN call[c] = Fields /\ UNCHANGED <<breaker, since>>
  BY DEF Ask, EInv, Shape, history
<1>2. CASE Expired \/ ~Allows
  <2>1. PICK r : DOMAIN r = Fields /\ r.pc # "sleep" /\ Set(c, r)
    <3>1. CASE Expired
      BY <3>1, <1>1 DEF Ask, Fields
    <3>2. CASE ~Expired
      BY <3>2, <1>2, <1>1 DEF Ask, Fields
    <3> QED
      BY <3>1, <3>2
  <2> QED
    BY <2>1, <1>1, Aside
<1>3. CASE ~Expired /\ Allows
  <2>1. Set(c, LetThrough(c)) /\ breaker.state # "open"
    BY <1>3 DEF Ask, Allows
  <2>2. DOMAIN LetThrough(c) = Fields
    BY <1>1 DEF LetThrough, Fields
  <2>3. DOMAIN call' = Callers /\ \A d \in Callers : DOMAIN call'[d] = Fields
    BY <2>1, <2>2, SetKeeps DEF EInv
  <2> QED
    BY <1>1, <2>1, <2>3 DEF EInv, Shape, Calm, Once, Counting
<1> QED
  BY <1>2, <1>3

LEMMA FlipEInv == EInv /\ (\E c \in Callers : Flip(c)) => EInv'
<1> SUFFICES ASSUME EInv, NEW c \in Callers, Flip(c) PROVE EInv'
  OBVIOUS
<1>1. breaker' = [breaker EXCEPT !.state = "half_open"] /\ since' = Nothing /\ Set(c, LetThrough(c))
  BY DEF Flip
<1>2. DOMAIN LetThrough(c) = Fields
  BY DEF LetThrough, Fields, EInv, Shape
<1>3. DOMAIN call' = Callers /\ \A d \in Callers : DOMAIN call'[d] = Fields
  BY <1>1, <1>2, SetKeeps DEF EInv
<1> QED
  BY <1>1, <1>3 DEF EInv, Shape, Calm, Once, Counting, Nothing, States

\* A request sent while the breaker is open is the first of its caller since then.
LEMMA SendEInv == EInv /\ (\E c \in Callers : Send(c)) => EInv'
<1> SUFFICES ASSUME EInv, NEW c \in Callers, Send(c) PROVE EInv'
  OBVIOUS
<1> DEFINE r == [call[c] EXCEPT !.pc = "wait"]
<1>1. /\ call[c].pc = "sleep" /\ Set(c, r) /\ breaker' = breaker
      /\ since' = IF breaker.state = "open" THEN [since EXCEPT ![c] = Counted(@)] ELSE since
  BY DEF Send
<1>2. DOMAIN r = Fields /\ r.pc = "wait"
  BY DEF Fields, EInv, Shape
<1> HIDE DEF r
<1>3. /\ DOMAIN call' = Callers /\ \A d \in Callers : DOMAIN call'[d] = Fields
      /\ call'[c] = r /\ \A d \in Callers \ {c} : call'[d] = call[d]
  BY <1>1, <1>2, SetKeeps DEF EInv
<1>4. CASE breaker.state # "open"
  BY <1>1, <1>3, <1>4 DEF EInv, Shape, Calm, Once, Counting
<1>5. CASE breaker.state = "open"
  <2>1. since[c] = 0
    BY <1>1, <1>5 DEF EInv, Once
  <2>2. Counted(since[c]) \in Nat /\ Counted(since[c]) <= 1
    BY <2>1, MinOfTwo, EsignAssumption DEF Counted
  <2>3. since' = [since EXCEPT ![c] = Counted(since[c])]
    BY <1>1, <1>5
  <2>4. /\ since' \in [Callers -> Nat] /\ since'[c] <= 1
        /\ \A d \in Callers \ {c} : since'[d] = since[d]
    BY <2>2, <2>3 DEF EInv, Shape
  <2> QED
    BY <1>1, <1>2, <1>3, <1>5, <2>4 DEF EInv, Shape, Calm, Once, Counting
<1> QED
  BY <1>4, <1>5

LEMMA SucceedEInv == EInv /\ (\E c \in Callers : Succeed(c)) => EInv'
<1> SUFFICES ASSUME EInv, NEW c \in Callers, Succeed(c) PROVE EInv'
  OBVIOUS
<1>1. breaker' = AfterSuccess(breaker) /\ since' = Nothing
  BY DEF Succeed
<1>2. PICK r : DOMAIN r = Fields /\ Set(c, r)
  BY DEF Succeed, Fields, EInv, Shape
<1>3. DOMAIN call' = Callers /\ \A d \in Callers : DOMAIN call'[d] = Fields
  BY <1>2, SetKeeps DEF EInv
<1>4. /\ breaker' \in [state : States, failures : Nat, openFor : Nat]
      /\ breaker'.state = "closed" /\ breaker'.failures = 0
  BY <1>1 DEF AfterSuccess, States, EInv, Shape
<1>5. since' \in [Callers -> Nat] /\ \A d \in Callers : since'[d] = 0
  BY <1>1 DEF Nothing
<1>6. 0 < Threshold
  BY EsignAssumption
<1> QED
  BY <1>3, <1>4, <1>5, <1>6 DEF EInv, Shape, Calm, Once, Counting

LEMMA WaitEInv == EInv /\ (\E c \in Callers : Reject(c) \/ Miss(c) \/ Return(c)) => EInv'
<1> SUFFICES ASSUME EInv, NEW c \in Callers, Reject(c) \/ Miss(c) \/ Return(c) PROVE EInv'
  OBVIOUS
<1>1. UNCHANGED <<breaker, since>>
  BY DEF Reject, Miss, Return, history
<1>2. PICK r : DOMAIN r = Fields /\ r.pc # "sleep" /\ Set(c, r)
  BY IdleFields DEF Reject, Miss, Return, Fields, EInv, Shape
<1> QED
  BY <1>1, <1>2, Aside

\* A failure opens a breaker that was tested, whose count then begins anew, or one
\* with too many failures, which was not counting.
LEMMA RecordFailureEInv == EInv /\ (\E c \in Callers : RecordFailure(c)) => EInv'
<1> SUFFICES ASSUME EInv, NEW c \in Callers, RecordFailure(c) PROVE EInv'
  OBVIOUS
<1> DEFINE tested == breaker.state = "half_open" \/ Expired
           trips == tested \/ Failures >= Threshold
           r == IF trips THEN [call[c] EXCEPT !.pc = "stamp"] ELSE AfterFailure(call[c])
<1>1. /\ breaker' = [breaker EXCEPT !.failures = IF tested THEN @ ELSE Failures,
                                    !.state = IF trips THEN "open" ELSE @]
      /\ Set(c, r) /\ since' = IF tested THEN Nothing ELSE since
  BY DEF RecordFailure
<1>2. DOMAIN call[c] = Fields
  BY DEF EInv, Shape
<1>3. DOMAIN r = Fields /\ r.pc # "sleep"
  BY <1>2, AfterFailureFields DEF Fields
<1>4. Failures \in Nat
  BY MinOfTwo, EsignAssumption DEF Failures, EInv, Shape
<1> HIDE DEF r
<1>5. /\ DOMAIN call' = Callers /\ \A d \in Callers : DOMAIN call'[d] = Fields
      /\ call'[c] = r /\ \A d \in Callers \ {c} : call'[d] = call[d]
  BY <1>1, <1>3, SetKeeps DEF EInv
<1>6. breaker \in [state : States, failures : Nat, openFor : Nat] /\ since \in [Callers -> Nat]
  BY DEF EInv, Shape
<1>7. CASE tested
  <2>1. /\ breaker'.state = "open" /\ breaker' \in [state : States, failures : Nat, openFor : Nat]
        /\ since' \in [Callers -> Nat] /\ \A d \in Callers : since'[d] = 0
    BY <1>1, <1>6, <1>7 DEF States, Nothing
  <2> QED
    BY <1>5, <2>1 DEF EInv, Shape, Calm, Once, Counting
<1>8. CASE ~tested
  <2>1. since' = since /\ breaker'.failures = Failures
        /\ breaker' \in [state : States, failures : Nat, openFor : Nat]
        /\ breaker'.state = IF trips THEN "open" ELSE breaker.state
    BY <1>1, <1>4, <1>6, <1>8 DEF States
  <2>2. ~trips => Failures < Threshold
    BY <1>4, <1>8, EsignAssumption
  <2>3. Counting' /\ Calm'
    BY <2>1, <2>2 DEF EInv, Counting, Calm
  <2>4. Once'
    BY <1>3, <1>5, <1>6, <2>1 DEF EInv, Once, Calm
  <2>5. Shape'
    BY <1>5, <1>6, <2>1 DEF Shape
  <2> QED
    BY <2>3, <2>4, <2>5 DEF EInv
<1> QED
  BY <1>7, <1>8

LEMMA StampEInv == EInv /\ (\E c \in Callers : Stamp(c)) => EInv'
<1> SUFFICES ASSUME EInv, NEW c \in Callers, Stamp(c) PROVE EInv'
  OBVIOUS
<1> DEFINE r == AfterFailure(call[c])
<1>1. breaker' = [breaker EXCEPT !.openFor = 0] /\ since' = since /\ Set(c, r)
  BY DEF Stamp, history
<1>2. DOMAIN r = Fields /\ r.pc # "sleep"
  BY AfterFailureFields DEF EInv, Shape
<1> HIDE DEF r
<1>3. /\ DOMAIN call' = Callers /\ \A d \in Callers : DOMAIN call'[d] = Fields
      /\ call'[c] = r /\ \A d \in Callers \ {c} : call'[d] = call[d]
  BY <1>1, <1>2, SetKeeps DEF EInv
<1>4. /\ breaker' \in [state : States, failures : Nat, openFor : Nat]
      /\ breaker'.state = breaker.state /\ breaker'.failures = breaker.failures
  BY <1>1 DEF EInv, Shape
<1> QED
  BY <1>1, <1>2, <1>3, <1>4 DEF EInv, Shape, Calm, Once, Counting

LEMMA TickEInv == EInv /\ Tick => EInv'
<1> SUFFICES ASSUME EInv, Tick PROVE EInv'
  OBVIOUS
<1>1. /\ breaker' = [breaker EXCEPT !.openFor = Min({@ + 1, Reset})] /\ since' = since
      /\ call' = [c \in Callers |-> [call[c] EXCEPT !.pause = IF @ = 0 THEN 0 ELSE @ - 1]]
  BY DEF Tick, history
<1>2. breaker \in [state : States, failures : Nat, openFor : Nat]
  BY DEF EInv, Shape
<1>3. Min({breaker.openFor + 1, Reset}) \in Nat
  BY <1>2, MinOfTwo, EsignAssumption
<1>4. /\ breaker' \in [state : States, failures : Nat, openFor : Nat]
      /\ breaker'.state = breaker.state /\ breaker'.failures = breaker.failures
  BY <1>1, <1>2, <1>3
<1>5. DOMAIN call' = Callers /\ \A c \in Callers : DOMAIN call'[c] = Fields /\ call'[c].pc = call[c].pc
  BY <1>1 DEF EInv, Shape, Fields
<1> QED
  BY <1>1, <1>4, <1>5 DEF EInv, Shape, Calm, Once, Counting

(***************************************************************************)
(* The inductive invariant of the breaker and its callers, in every state. *)
(***************************************************************************)
THEOREM EsignInductive == EsignSpec => []EInv
<1>1. EInv /\ [EsignNext]_esignVars => EInv'
  <2> SUFFICES ASSUME EInv, [EsignNext]_esignVars PROVE EInv'
    OBVIOUS
  <2>1. CASE UNCHANGED esignVars
    BY <2>1 DEF esignVars, history, EInv, Shape, Calm, Once, Counting
  <2>2. CASE Weather
    BY <2>2 DEF Weather, history, EInv, Shape, Calm, Once, Counting
  <2>3. ASSUME NEW c \in Callers, Attempt(c) PROVE EInv'
    BY <2>3, AskEInv, FlipEInv, SendEInv, SucceedEInv, WaitEInv, RecordFailureEInv, StampEInv
       DEF Attempt
  <2> QED
    BY <2>1, <2>2, <2>3, CallEInv, WaitEInv, TickEInv DEF EsignNext
<1> QED
  BY <1>1, InitEInv, PTL DEF EsignSpec

(***************************************************************************)
(* While the breaker is open a caller sends at most once, and it is closed *)
(* only with fewer failures than it stands, for any number of threads that *)
(* share it without a lock (resilience.py:56-81).                          *)
(***************************************************************************)
THEOREM BreakerAlwaysHolds == EsignSpec => []BreakerHolds
<1>1. EInv => BreakerHolds
  BY DEF EInv, Once, Counting, BreakerHolds
<1> QED
  BY <1>1, EsignInductive, PTL

-----------------------------------------------------------------------------
(* What callers are told *)

Trying == {"ask", "flip", "sleep"}
Active == Trying \cup {"wait", "record", "stamp"}

\* A call that sent s requests, of which e were acted on and l went unanswered: an
\* attempt at most adds to each, and only one that was made.
Fits(r, s, e, l) ==
    /\ r.pc \in Active \cup {"idle", "done"}
    /\ r.pc = "idle" => s = 0 /\ e = 0 /\ l = 0
    /\ r.pc \in Active => /\ Ready(r.op) /\ r.attempt \in 1 .. MaxAttempts /\ e <= l
                          /\ r.pc \in Trying => s = r.attempt - 1 /\ l = s
                          /\ r.pc \notin Trying => s = r.attempt
                          /\ r.pc = "wait" => l = r.attempt - 1
                          /\ r.pc \in {"record", "stamp"} =>
                                l = IF r.fatal THEN r.attempt - 1 ELSE r.attempt
    /\ r.pc = "done" =>
          /\ s <= MaxAttempts /\ (s > 0 => Ready(r.op)) /\ e <= l + 1
          /\ r.result = "ok" => e > 0 /\ s = l + 1
          /\ r.result \in {"refused", "redirected"} => e <= l /\ s = l + 1
          /\ r.result = "unreachable" => l = s /\ s = MaxAttempts
          /\ r.result = "open" => l = s
          /\ r.result \notin {"ok", "refused", "redirected", "unreachable", "open"} => s = 0

Counts == [Callers -> Nat]

Tally == /\ sent \in Counts /\ effects \in Counts /\ losses \in Counts
         /\ \A c \in Callers : Fits(call[c], sent[c], effects[c], losses[c])

LEMMA InitTally == EsignInit => Tally
  BY IdleFields DEF EsignInit, Tally, Counts, Nothing, Fits, Active, Trying

\* A step of one caller.
LEMMA StepTally ==
    ASSUME Shape, Tally, NEW c \in Callers, NEW r, DOMAIN r = Fields, Set(c, r),
           NEW s \in Nat, NEW e \in Nat, NEW l \in Nat, Fits(r, s, e, l),
           sent' = [sent EXCEPT ![c] = s], effects' = [effects EXCEPT ![c] = e],
           losses' = [losses EXCEPT ![c] = l], UNCHANGED spec
    PROVE  Tally'
<1>1. call'[c] = r /\ \A d \in Callers \ {c} : call'[d] = call[d]
  BY SetKeeps
<1>2. /\ sent' \in Counts /\ effects' \in Counts /\ losses' \in Counts
      /\ sent'[c] = s /\ effects'[c] = e /\ losses'[c] = l
      /\ \A d \in Callers \ {c} : /\ sent'[d] = sent[d] /\ effects'[d] = effects[d]
                                 /\ losses'[d] = losses[d]
  BY DEF Tally, Counts
<1>3. \A d \in Callers : Fits(call'[d], sent'[d], effects'[d], losses'[d])
  <2> SUFFICES ASSUME NEW d \in Callers PROVE Fits(call'[d], sent'[d], effects'[d], losses'[d])
    OBVIOUS
  <2>1. CASE d = c
    BY <2>1, <1>1, <1>2
  <2>2. CASE d # c
    BY <2>2, <1>1, <1>2 DEF Tally
  <2> QED
    BY <2>1, <2>2
<1>4. \A op : Ready(op)' = Ready(op)
  BY DEF Ready, Configured
<1>5. \A d \in Callers : Fits(call[d], sent[d], effects[d], losses[d])'
  BY <1>3, <1>4 DEF Fits
<1> QED
  BY <1>2, <1>5 DEF Tally

\* A step that sends nothing and learns nothing.
LEMMA QuietTally ==
    ASSUME Shape, Tally, NEW c \in Callers, NEW r, DOMAIN r = Fields, Set(c, r),
           Fits(r, sent[c], effects[c], losses[c]), UNCHANGED <<spec, sent, effects, losses>>
    PROVE  Tally'
<1>1. sent[c] \in Nat /\ effects[c] \in Nat /\ losses[c] \in Nat
  BY DEF Tally, Counts
<1>2. /\ sent' = [sent EXCEPT ![c] = sent[c]] /\ effects' = [effects EXCEPT ![c] = effects[c]]
      /\ losses' = [losses EXCEPT ![c] = losses[c]]
  BY DEF Tally, Counts
<1> QED
  BY <1>1, <1>2, StepTally

\* One request more, as long as there are not too many.
LEMMA CountedOne == ASSUME NEW n \in Nat, n < MaxAttempts PROVE Counted(n) = n + 1
<1>1. n + 1 \in Nat /\ MaxAttempts + 1 \in Nat /\ n + 1 < MaxAttempts + 1
  BY EsignAssumption
<1> QED
  BY <1>1, MinOfTwo DEF Counted

LEMMA CountedNat == ASSUME NEW n \in Nat PROVE Counted(n) \in Nat
  BY MinOfTwo, EsignAssumption DEF Counted

LEMMA CallTally == Shape /\ Tally /\ (\E c \in Callers : Call(c)) => Tally'
<1> SUFFICES ASSUME Shape, Tally, NEW c \in Callers, Call(c) PROVE Tally'
  OBVIOUS
<1>1. UNCHANGED <<spec, sent, effects, losses>> /\ call[c].pc = "idle"
  BY DEF Call, history
<1>2. sent[c] = 0 /\ effects[c] = 0 /\ losses[c] = 0
  BY <1>1 DEF Tally, Fits
<1>3. PICK op \in Operations, bad \in BOOLEAN :
         Set(c, IF ~Ready(op)
                THEN [Idle EXCEPT !.pc = "done", !.op = op, !.result = "not_ready"]
                ELSE IF MaxAttempts = 0
                THEN [Idle EXCEPT !.pc = "done", !.op = op, !.result = "assertion"]
                ELSE [Idle EXCEPT !.pc = "ask", !.op = op, !.bad = bad, !.attempt = 1])
  BY DEF Call
<1>4. CASE ~Ready(op) \/ MaxAttempts = 0
  <2>1. PICK r : DOMAIN r = Fields /\ r.pc = "done" /\ r.result \in {"not_ready", "assertion"}
                 /\ Set(c, r)
    BY <1>3, <1>4, IdleFields DEF Fields
  <2>2. Fits(r, 0, 0, 0)
    BY <2>1, EsignAssumption DEF Fits, Active, Trying
  <2> QED
    BY <1>1, <1>2, <2>1, <2>2, QuietTally
<1>5. CASE Ready(op) /\ MaxAttempts # 0
  <2> DEFINE r == [Idle EXCEPT !.pc = "ask", !.op = op, !.bad = bad, !.attempt = 1]
  <2>1. DOMAIN r = Fields /\ r.pc = "ask" /\ r.attempt = 1 /\ r.op = op /\ Set(c, r)
    BY <1>3, <1>5, IdleFields DEF Fields
  <2> HIDE DEF r
  <2>2. Fits(r, 0, 0, 0)
    BY <1>5, <2>1, EsignAssumption DEF Fits, Active, Trying
  <2> QED
    BY <1>1, <1>2, <2>1, <2>2, QuietTally
<1> QED
  BY <1>4, <1>5

LEMMA AskTally == Shape /\ Tally /\ (\E c \in Callers : Ask(c) \/ Flip(c)) => Tally'
<1> SUFFICES ASSUME Shape, Tally, NEW c \in Callers, Ask(c) \/ Flip(c) PROVE Tally'
  OBVIOUS
<1>1. UNCHANGED <<spec, sent, effects, losses>> /\ call[c].pc \in {"ask", "flip"}
  BY DEF Ask, Flip, history
<1>2. PICK r : /\ DOMAIN r = Fields /\ Set(c, r) /\ r.op = call[c].op /\ r.attempt = call[c].attempt
               /\ (r.pc \in Trying \/ (r.pc = "done" /\ r.result = "open"))
  <2>1. DOMAIN call[c] = Fields
    BY DEF Shape
  <2>2. CASE Ask(c) /\ Expired
    <3> DEFINE r == [call[c] EXCEPT !.pc = "flip"]
    <3>1. Set(c, r) /\ DOMAIN r = Fields /\ r.pc = "flip" /\ r.op = call[c].op
          /\ r.attempt = call[c].attempt
      BY <2>1, <2>2 DEF Ask, Fields
    <3> QED
      BY <3>1 DEF Trying
  <2>3. CASE Flip(c) \/ (Ask(c) /\ ~Expired /\ Allows)
    <3> DEFINE r == LetThrough(c)
    <3>1. Set(c, r) /\ DOMAIN r = Fields /\ r.pc = "sleep" /\ r.op = call[c].op
          /\ r.attempt = call[c].attempt
      BY <2>1, <2>3 DEF Ask, Flip, LetThrough, Fields
    <3> QED
      BY <3>1 DEF Trying
  <2>4. CASE Ask(c) /\ ~Expired /\ ~Allows
    <3> DEFINE r == [call[c] EXCEPT !.pc = "done", !.result = "open"]
    <3>1. Set(c, r) /\ DOMAIN r = Fields /\ r.pc = "done" /\ r.result = "open"
          /\ r.op = call[c].op /\ r.attempt = call[c].attempt
      BY <2>1, <2>4 DEF Ask, Fields
    <3> QED
      BY <3>1
  <2> QED
    BY <2>2, <2>3, <2>4
<1>3. Fits(call[c], sent[c], effects[c], losses[c]) /\ sent[c] \in Nat /\ losses[c] \in Nat
      /\ effects[c] \in Nat
  BY DEF Tally, Counts
<1>4. Fits(r, sent[c], effects[c], losses[c])
  BY <1>1, <1>2, <1>3, EsignAssumption DEF Fits, Active, Trying
<1> QED
  BY <1>1, <1>2, <1>4, QuietTally

LEMMA SendTally == Shape /\ Tally /\ (\E c \in Callers : Send(c)) => Tally'
<1> SUFFICES ASSUME Shape, Tally, NEW c \in Callers, Send(c) PROVE Tally'
  OBVIOUS
<1> DEFINE r == [call[c] EXCEPT !.pc = "wait"]
<1>1. /\ DOMAIN r = Fields /\ r.pc = "wait" /\ r.op = call[c].op /\ r.attempt = call[c].attempt
      /\ Set(c, r) /\ call[c].pc = "sleep"
  BY DEF Send, Shape, Fields
<1> HIDE DEF r
<1>2. /\ Fits(call[c], sent[c], effects[c], losses[c])
      /\ sent[c] \in Nat /\ effects[c] \in Nat /\ losses[c] \in Nat
  BY DEF Tally, Counts
<1>3. Counted(sent[c]) = sent[c] + 1 /\ sent[c] + 1 \in Nat
  BY <1>1, <1>2, CountedOne, EsignAssumption DEF Fits, Active, Trying
<1>4. Fits(r, sent[c] + 1, effects[c], losses[c])
  BY <1>1, <1>2, EsignAssumption DEF Fits, Active, Trying
<1>5. /\ sent' = [sent EXCEPT ![c] = sent[c] + 1] /\ effects' = [effects EXCEPT ![c] = effects[c]]
      /\ losses' = [losses EXCEPT ![c] = losses[c]] /\ UNCHANGED spec
  BY <1>3 DEF Send, Tally, Counts
<1> QED
  BY <1>1, <1>2, <1>3, <1>4, <1>5, StepTally

\* Answered: the caller has been served, or sent elsewhere.
LEMMA SucceedTally == Shape /\ Tally /\ (\E c \in Callers : Succeed(c)) => Tally'
<1> SUFFICES ASSUME Shape, Tally, NEW c \in Callers, Succeed(c) PROVE Tally'
  OBVIOUS
<1>1. /\ Fits(call[c], sent[c], effects[c], losses[c]) /\ call[c].pc = "wait"
      /\ sent[c] \in Nat /\ effects[c] \in Nat /\ losses[c] \in Nat
      /\ UNCHANGED <<spec, sent, losses>>
  BY DEF Tally, Counts, Succeed
<1>2. CASE /\ effects' = [effects EXCEPT ![c] = Counted(@)]
           /\ Set(c, [call[c] EXCEPT !.pc = "done", !.result = "ok"])
  <2> DEFINE r == [call[c] EXCEPT !.pc = "done", !.result = "ok"]
  <2>1. DOMAIN r = Fields /\ r.pc = "done" /\ r.result = "ok" /\ r.op = call[c].op
    BY DEF Shape, Fields
  <2> HIDE DEF r
  <2>2. Counted(effects[c]) = effects[c] + 1
    BY <1>1, CountedOne, EsignAssumption DEF Fits, Active, Trying
  <2>3. Fits(r, sent[c], effects[c] + 1, losses[c]) /\ effects[c] + 1 \in Nat
    BY <1>1, <2>1, EsignAssumption DEF Fits, Active, Trying
  <2>4. /\ sent' = [sent EXCEPT ![c] = sent[c]] /\ effects' = [effects EXCEPT ![c] = effects[c] + 1]
        /\ losses' = [losses EXCEPT ![c] = losses[c]] /\ Set(c, r)
    BY <1>1, <1>2, <2>2 DEF Tally, Counts, r
  <2> QED
    BY <1>1, <2>1, <2>3, <2>4, StepTally
<1>3. CASE effects' = effects /\ Set(c, [call[c] EXCEPT !.pc = "done", !.result = "redirected"])
  <2> DEFINE r == [call[c] EXCEPT !.pc = "done", !.result = "redirected"]
  <2>1. DOMAIN r = Fields /\ r.pc = "done" /\ r.result = "redirected" /\ r.op = call[c].op
    BY DEF Shape, Fields
  <2> HIDE DEF r
  <2>2. Fits(r, sent[c], effects[c], losses[c])
    BY <1>1, <2>1, EsignAssumption DEF Fits, Active, Trying
  <2>3. Set(c, r) /\ UNCHANGED <<spec, sent, effects, losses>>
    BY <1>1, <1>3 DEF r
  <2> QED
    BY <2>1, <2>2, <2>3, QuietTally
<1> QED
  BY <1>2, <1>3 DEF Succeed

LEMMA RejectTally == Shape /\ Tally /\ (\E c \in Callers : Reject(c)) => Tally'
<1> SUFFICES ASSUME Shape, Tally, NEW c \in Callers, Reject(c) PROVE Tally'
  OBVIOUS
<1> DEFINE r == [call[c] EXCEPT !.pc = "record", !.fatal = TRUE]
<1>1. /\ DOMAIN r = Fields /\ r.pc = "record" /\ r.fatal = TRUE /\ r.op = call[c].op
      /\ r.attempt = call[c].attempt /\ Set(c, r) /\ call[c].pc = "wait"
      /\ UNCHANGED <<spec, sent, effects, losses>>
  BY DEF Reject, Shape, Fields, history
<1> HIDE DEF r
<1>2. Fits(call[c], sent[c], effects[c], losses[c])
  BY DEF Tally
<1>3. Fits(r, sent[c], effects[c], losses[c])
  BY <1>1, <1>2, EsignAssumption DEF Fits, Active, Trying
<1> QED
  BY <1>1, <1>3, QuietTally

\* Unanswered: nobody knows, and the loss accounts for what may have been done.
LEMMA MissTally == Shape /\ Tally /\ (\E c \in Callers : Miss(c)) => Tally'
<1> SUFFICES ASSUME Shape, Tally, NEW c \in Callers, Miss(c) PROVE Tally'
  OBVIOUS
<1> DEFINE r == [call[c] EXCEPT !.pc = "record", !.fatal = FALSE]
<1>1. /\ DOMAIN r = Fields /\ r.pc = "record" /\ r.fatal = FALSE /\ r.op = call[c].op
      /\ r.attempt = call[c].attempt /\ Set(c, r) /\ call[c].pc = "wait"
      /\ UNCHANGED <<spec, sent>> /\ losses' = [losses EXCEPT ![c] = Counted(@)]
      /\ effects' = effects \/ effects' = [effects EXCEPT ![c] = Counted(@)]
  BY DEF Miss, Shape, Fields
<1> HIDE DEF r
<1>2. /\ Fits(call[c], sent[c], effects[c], losses[c])
      /\ sent[c] \in Nat /\ effects[c] \in Nat /\ losses[c] \in Nat
  BY DEF Tally, Counts
<1>3. /\ Counted(losses[c]) = losses[c] + 1 /\ Counted(effects[c]) = effects[c] + 1
      /\ losses[c] + 1 \in Nat /\ effects[c] + 1 \in Nat
  BY <1>1, <1>2, CountedOne, EsignAssumption DEF Fits, Active, Trying
<1>4. /\ Fits(r, sent[c], effects[c], losses[c] + 1)
      /\ Fits(r, sent[c], effects[c] + 1, losses[c] + 1)
  BY <1>1, <1>2, EsignAssumption DEF Fits, Active, Trying
<1>5. sent' = [sent EXCEPT ![c] = sent[c]] /\ losses' = [losses EXCEPT ![c] = losses[c] + 1]
  BY <1>1, <1>3 DEF Tally, Counts
<1>6. effects' = [effects EXCEPT ![c] = effects[c]] \/ effects' = [effects EXCEPT ![c] = effects[c] + 1]
  BY <1>1, <1>3 DEF Tally, Counts
<1>7. CASE effects' = [effects EXCEPT ![c] = effects[c]]
  <2>1. DOMAIN r = Fields /\ Set(c, r) /\ UNCHANGED spec
    BY <1>1
  <2>2. Fits(r, sent[c], effects[c], losses[c] + 1)
    BY <1>4
  <2> QED
    BY <1>2, <1>3, <1>5, <1>7, <2>1, <2>2, StepTally
<1>8. CASE effects' = [effects EXCEPT ![c] = effects[c] + 1]
  <2>1. DOMAIN r = Fields /\ Set(c, r) /\ UNCHANGED spec
    BY <1>1
  <2>2. Fits(r, sent[c], effects[c] + 1, losses[c] + 1)
    BY <1>4
  <2>3. sent[c] \in Nat /\ effects[c] + 1 \in Nat /\ losses[c] + 1 \in Nat
    BY <1>2, <1>3
  <2> QED
    BY <1>5, <1>8, <2>1, <2>2, <2>3, StepTally
<1> QED
  BY <1>6, <1>7, <1>8

\* After a failure: told of it, or to try again.
LEMMA AfterFailureFits ==
    ASSUME NEW r, DOMAIN r = Fields, r.pc \in {"record", "stamp"},
           NEW s \in Nat, NEW e \in Nat, NEW l \in Nat, Fits(r, s, e, l)
    PROVE  Fits(AfterFailure(r), s, e, l)
<1>1. /\ Ready(r.op) /\ r.attempt \in 1 .. MaxAttempts /\ e <= l /\ s = r.attempt
      /\ l = IF r.fatal THEN r.attempt - 1 ELSE r.attempt
  BY DEF Fits, Active, Trying
<1> DEFINE a == AfterFailure(r)
<1>2. CASE GivesUp(r)
  <2>1. /\ a.pc = "done" /\ a.op = r.op
        /\ a.result = IF r.fatal THEN "refused" ELSE "unreachable"
    BY <1>2 DEF AfterFailure, Fields
  <2>2. ~r.fatal => r.attempt >= MaxAttempts
    BY <1>2 DEF GivesUp
  <2> HIDE DEF a
  <2> QED
    BY <1>1, <2>1, <2>2, EsignAssumption DEF Fits, Active, Trying, a
<1>3. CASE ~GivesUp(r)
  <2>1. a.pc = "ask" /\ a.op = r.op /\ a.attempt = r.attempt + 1
    BY <1>3 DEF AfterFailure, Fields
  <2>2. ~r.fatal /\ ~(r.attempt >= MaxAttempts)
    BY <1>3 DEF GivesUp
  <2> HIDE DEF a
  <2> QED
    BY <1>1, <2>1, <2>2, EsignAssumption DEF Fits, Active, Trying, a
<1> QED
  BY <1>2, <1>3

LEMMA FailTally == Shape /\ Tally /\ (\E c \in Callers : RecordFailure(c) \/ Stamp(c)) => Tally'
<1> SUFFICES ASSUME Shape, Tally, NEW c \in Callers, RecordFailure(c) \/ Stamp(c) PROVE Tally'
  OBVIOUS
<1>1. /\ UNCHANGED <<spec, sent, effects, losses>> /\ call[c].pc \in {"record", "stamp"}
      /\ \/ Set(c, AfterFailure(call[c]))
         \/ call[c].pc = "record" /\ Set(c, [call[c] EXCEPT !.pc = "stamp"])
  BY DEF RecordFailure, Stamp, history
<1>2. /\ DOMAIN call[c] = Fields /\ Fits(call[c], sent[c], effects[c], losses[c])
      /\ sent[c] \in Nat /\ effects[c] \in Nat /\ losses[c] \in Nat
  BY DEF Shape, Tally, Counts
<1>3. CASE Set(c, AfterFailure(call[c]))
  <2>1. DOMAIN AfterFailure(call[c]) = Fields
    BY <1>2, AfterFailureFields
  <2>2. Fits(AfterFailure(call[c]), sent[c], effects[c], losses[c])
    BY <1>1, <1>2, AfterFailureFits
  <2> QED
    BY <1>1, <1>3, <2>1, <2>2, QuietTally
<1>4. CASE call[c].pc = "record" /\ Set(c, [call[c] EXCEPT !.pc = "stamp"])
  <2> DEFINE r == [call[c] EXCEPT !.pc = "stamp"]
  <2>1. /\ DOMAIN r = Fields /\ r.pc = "stamp" /\ r.op = call[c].op /\ r.fatal = call[c].fatal
        /\ r.attempt = call[c].attempt /\ Set(c, r)
    BY <1>2, <1>4 DEF Fields
  <2> HIDE DEF r
  <2>2. Fits(r, sent[c], effects[c], losses[c])
    BY <1>2, <1>4, <2>1 DEF Fits, Active, Trying
  <2> QED
    BY <1>1, <2>1, <2>2, QuietTally
<1> QED
  BY <1>1, <1>3, <1>4

LEMMA ReturnTally == Shape /\ Tally /\ (\E c \in Callers : Return(c)) => Tally'
<1> SUFFICES ASSUME Shape, Tally, NEW c \in Callers, Return(c) PROVE Tally'
  OBVIOUS
<1>1. Fits(Idle, 0, 0, 0) /\ DOMAIN Idle = Fields
  BY IdleFields DEF Fits, Active, Trying
<1> QED
  BY <1>1, StepTally DEF Return

LEMMA TickTally == Shape /\ Tally /\ Tick => Tally'
<1> SUFFICES ASSUME Shape, Tally, Tick PROVE Tally'
  OBVIOUS
<1>1. \A c \in Callers :
         /\ call'[c].pc = call[c].pc /\ call'[c].op = call[c].op /\ call'[c].fatal = call[c].fatal
         /\ call'[c].attempt = call[c].attempt /\ call'[c].result = call[c].result
  BY DEF Tick, Shape, Fields
<1>2. UNCHANGED <<spec, sent, effects, losses>>
  BY DEF Tick, history
<1>3. \A op : Ready(op)' = Ready(op)
  BY <1>2 DEF Ready, Configured
<1>4. \A c \in Callers : Fits(call[c], sent[c], effects[c], losses[c])'
  BY <1>1, <1>2, <1>3 DEF Tally, Fits
<1> QED
  BY <1>2, <1>4 DEF Tally

(***************************************************************************)
(* The tallies of every call agree with where it is and what it was told.  *)
(***************************************************************************)
THEOREM TallyInductive == EsignSpec => []Tally
<1>1. EInv /\ Tally /\ [EsignNext]_esignVars => Tally'
  <2> SUFFICES ASSUME Shape, Tally, [EsignNext]_esignVars PROVE Tally'
    BY DEF EInv
  <2>1. \A op : UNCHANGED spec => Ready(op)' = Ready(op)
    BY DEF Ready, Configured
  <2>2. CASE UNCHANGED esignVars
    BY <2>1, <2>2 DEF esignVars, history, Tally, Fits
  <2>3. CASE Weather
    BY <2>1, <2>3 DEF Weather, history, Tally, Fits
  <2>4. ASSUME NEW c \in Callers, Attempt(c) PROVE Tally'
    BY <2>4, AskTally, SendTally, SucceedTally, RejectTally, MissTally, FailTally DEF Attempt
  <2> QED
    BY <2>2, <2>3, <2>4, CallTally, ReturnTally, TickTally DEF EsignNext
<1> QED
  BY <1>1, InitTally, EsignInductive, PTL DEF EsignSpec

(***************************************************************************)
(* Nothing is sent where or more often than it may be, and what a caller   *)
(* is told of its requests is so, for any number of callers and attempts   *)
(* and any behaviour of the gateway (gateway.py:199-246,                   *)
(* resilience.py:84-120).                                                  *)
(***************************************************************************)
THEOREM OutcomesAreHonest == EsignSpec => []OutcomeIsHonest
<1>1. Tally => OutcomeIsHonest
  <2> SUFFICES ASSUME Tally, NEW c \in Callers
               PROVE  /\ sent[c] <= MaxAttempts
                      /\ sent[c] > 0 => Ready(call[c].op) /\ spec.inside /\ spec.https /\ spec.tls
                      /\ effects[c] <= losses[c] + 1
                      /\ call[c].pc = "done" =>
                            CASE call[c].result = "ok" -> effects[c] > 0 /\ sent[c] = losses[c] + 1
                              [] call[c].result \in {"refused", "redirected"} ->
                                   effects[c] <= losses[c] /\ sent[c] = losses[c] + 1
                              [] call[c].result = "unreachable" ->
                                   losses[c] = sent[c] /\ sent[c] = MaxAttempts
                              [] call[c].result = "open" -> losses[c] = sent[c]
                              [] OTHER -> sent[c] = 0
    BY DEF OutcomeIsHonest
  <2>1. /\ Fits(call[c], sent[c], effects[c], losses[c])
        /\ sent[c] \in Nat /\ effects[c] \in Nat /\ losses[c] \in Nat
    BY DEF Tally, Counts
  <2>2. sent[c] <= MaxAttempts /\ effects[c] <= losses[c] + 1 /\ (sent[c] > 0 => Ready(call[c].op))
    BY <2>1, EsignAssumption DEF Fits, Active, Trying
  <2>3. sent[c] > 0 => spec.inside /\ spec.https /\ spec.tls
    BY <2>2 DEF Ready
  <2> QED
    BY <2>1, <2>2, <2>3 DEF Fits
<1> QED
  BY <1>1, TallyInductive, PTL
===============================================================================
