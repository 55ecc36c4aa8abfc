--------------------------- MODULE PinGateway_proofs ---------------------------
(***************************************************************************)
(* Proofs about PinGateway, for any number of requests and tokens, any     *)
(* limits, and PIN pads as well.  The inductive invariant IInv has a part  *)
(* for each thing a handler relies on: which request is at which step      *)
(* (AtStep), who has an intact buffer (Buffers), what the store holds      *)
(* (Sessions), what shutdown leaves (Closed), what a session was opened    *)
(* for (Checked), what an attempt was charged for (Charges), and what the  *)
(* limiter remembers (Limits).                                             *)
(***************************************************************************)
EXTENDS PinGateway, FiniteSetTheorems, TLAPS

LoginSteps == {"login_find", "open", "reset", "respond"}
SignSteps == {"sign_find", "copy", "sign"}

\* The handler a request runs, by its step.
AtStep == \A r \in Reqs :
    /\ pc[r] \in LoginSteps => arg[r].kind = "login"
    /\ pc[r] \in SignSteps => arg[r].kind = "sign"
    /\ pc[r] = "certs_get" => arg[r].kind = "certs"
    /\ pc[r] = "wipe" => arg[r].kind = "logout"
    /\ pc[r] \in {"read1", "read2"} => arg[r].kind \in {"login", "sign", "certs"}
    /\ arg[r].kind = "login" => arg[r].sid = r

\* An intact buffer belongs to a login that is reading or opening.
Buffers == \A r \in Reqs :
    buf[r] = "live" => pc[r] \in {"read1", "read2", "open"} /\ arg[r].kind = "login"

\* A session is that of a login that got so far; one that is being wiped has
\* left the store.
Sessions == \A r \in Reqs :
    /\ sess[r] # NoSession => /\ pc[r] \in {"reset", "respond"} \cup Done
                              /\ arg[r].kind = "login"
                              /\ sess[r].token = arg[r].tok
    /\ r \in byId => sess[r] # NoSession
    /\ pc[r] = "wipe" => arg[r].sid \notin byId /\ sess[arg[r].sid] # NoSession

\* Nothing runs and nothing is intact once the daemon has stopped.
Closed == stopped => \A r \in Reqs : pc[r] \in Done \cup {"new"} /\ sess[r].mem # "live"

\* Why a session may be opened.
Checked == \A r \in Reqs : pc[r] = "open" =>
    r \in verified \/ arg[r].tok \in PublicCerts \/ arg[r].pin = "empty"

\* A handler that works on a session works on one of its own token.
OnSession(r) == arg[r].kind \in {"sign", "certs"} /\ arg[r].sid \in Reqs
ChargeOf(r) ==
    /\ OnSession(r) /\ pc[r] \in {"sign_find", "read1", "read2", "copy", "sign"} =>
          sess[arg[r].sid] # NoSession /\ sess[arg[r].sid].token = arg[r].tok
    /\ pc[r] = "read2" => arg[r].tok \in Pinpads \/ arg[r].sid \in Reqs
    /\ pc[r] = "sign" /\ copy[r] \in {"bad", "zero"} =>
          arg[r].sid \notin byId \/ sess[arg[r].sid].pin = "bad"
    /\ r \in charged => pc[r] \notin {"new", "certs_get"}
    /\ r \in charged /\ arg[r].kind \in {"sign", "certs"} =>
          /\ arg[r].sid \in Reqs /\ sess[arg[r].sid] # NoSession
          /\ arg[r].sid \notin byId \/ sess[arg[r].sid].pin = "bad"
Charges == \A r \in Reqs : ChargeOf(r)

\* The limiter still has every stamp that matters.
Limits == \A k \in Tokens :
    /\ hits[k] \subseteq admitted[k]
    /\ \A r \in admitted[k] : /\ pc[r] # "new" /\ hitAt[r] <= now
                              /\ now - hitAt[r] < Window => r \in hits[k]

SessionInv == /\ SessionTypeOK /\ Sessions /\ StoreAndMemoryAgree
              /\ UncheckedSessionExplained

LimiterInv == ClockTypeOK /\ LimiterTypeOK /\ Limits /\ AttemptsBounded

HandlerInv == GatewayTypeOK /\ AtStep /\ Buffers /\ Closed /\ Checked /\ Charges

IInv == HandlerInv /\ SessionInv /\ LimiterInv

-----------------------------------------------------------------------------
(***************************************************************************)
(* A session is told from its absence by its memory.                       *)
(***************************************************************************)
LEMMA SessionShape ==
    ASSUME TypeOK, NEW s \in Reqs
    PROVE  /\ sess[s] # NoSession <=> sess[s] \in Session
           /\ sess[s] # NoSession <=> sess[s].mem \in {"live", "zero"}
           /\ sess[s] = NoSession => sess[s].mem = "none"
BY DEF TypeOK, SessionTypeOK, NoSession, Session

LEMMA Wipe ==
    ASSUME NEW o \in Session
    PROVE  /\ Erase(o) \in Session /\ Erase(o).mem = "zero"
           /\ Erase(o).token = o.token /\ Erase(o).pin = o.pin
BY DEF Erase, Session

\* What get does to the sessions, or nothing.
Looked == /\ sess' \in [Reqs -> Session \cup {NoSession}]
          /\ byId' \subseteq byId
          /\ \A x \in Reqs : /\ sess'[x] # NoSession <=> sess[x] # NoSession
                             /\ sess'[x].token = sess[x].token
                             /\ sess'[x].pin = sess[x].pin
                             /\ sess'[x].mem # sess[x].mem => sess'[x].mem = "zero" /\ x \notin byId'
                             /\ x \in byId /\ x \notin byId' => sess'[x].mem = "zero"

(***************************************************************************)
(* Looking up a session erases it or leaves it; it never comes back.       *)
(***************************************************************************)
LEMMA GetEffect ==
    ASSUME TypeOK, Sessions, NEW s \in Reqs, StoreGet(s)
    PROVE  Looked
<1>1. CASE s \in byId /\ Expired(s)
  <2>1. sess[s] \in Session /\ sess[s] # NoSession
    BY <1>1, SessionShape DEF Sessions
  <2>2. /\ sess' = [sess EXCEPT ![s] = Erase(sess[s])]
        /\ byId' = byId \ {s}
    BY <1>1 DEF StoreGet
  <2>3. Erase(sess[s]) \in Session /\ Erase(sess[s]).mem = "zero" /\ Erase(sess[s]) # NoSession
        /\ Erase(sess[s]).token = sess[s].token /\ Erase(sess[s]).pin = sess[s].pin
    BY <2>1, Wipe DEF NoSession
  <2> QED BY <2>1, <2>2, <2>3 DEF TypeOK, SessionTypeOK, Looked
<1>2. CASE ~(s \in byId /\ Expired(s))
  BY <1>2 DEF StoreGet, sessionVars, TypeOK, SessionTypeOK, Looked
<1> QED BY <1>1, <1>2

-----------------------------------------------------------------------------
(***************************************************************************)
(* The invariant holds initially.                                          *)
(***************************************************************************)
LEMMA InitIInv == Init => IInv
<1> SUFFICES ASSUME Init PROVE IInv
  OBVIOUS
<1> USE DEF Init, SessionInit, LimiterInit
<1>1. TypeOK
  <2>1. NoArg \in Arg /\ NoArg.kind = "none"
    BY DEF NoArg, Arg
  <2>2. ClockTypeOK /\ SessionTypeOK /\ LimiterTypeOK
    BY MaxTimeAssumption DEF ClockTypeOK, SessionTypeOK, LimiterTypeOK
  <2>3. PinTries \in 0 .. PinTries
    BY TokenAssumption
  <2>4. /\ arg \in [Reqs -> Arg]
        /\ \A r \in Reqs : arg[r].kind = "none"
    BY <2>1
  <2>5. GatewayTypeOK
    BY <2>3, <2>4 DEF GatewayTypeOK, Steps
  <2> QED BY <2>2, <2>5 DEF TypeOK
<1>2. AtStep /\ Buffers
  BY DEF AtStep, Buffers, LoginSteps, SignSteps, NoArg
<1>3. Sessions /\ StoreAndMemoryAgree /\ UncheckedSessionExplained
  BY DEF Sessions, StoreAndMemoryAgree, UncheckedSessionExplained
<1>4. Closed /\ Checked
  BY DEF Closed, Checked
<1>5. Charges
  BY DEF Charges, ChargeOf, OnSession
<1>6. Limits
  BY DEF Limits
<1>7. AttemptsBounded
  <2>1. \A k \in Tokens : \A w \in 0 .. MaxTime : InWindow(k, w) = {}
    BY DEF InWindow
  <2>2. Cardinality({}) = 0 /\ 0 <= MaxAttempts
    BY FS_EmptySet, LimiterAssumption
  <2> HIDE DEF Init
  <2> QED BY <2>1, <2>2 DEF AttemptsBounded
<1> QED BY <1>1, <1>2, <1>3, <1>4, <1>5, <1>6, <1>7 DEF IInv, HandlerInv, SessionInv, LimiterInv, TypeOK

-----------------------------------------------------------------------------
(***************************************************************************)
(* Steps of a handler that touch neither the stores nor its request.       *)
(***************************************************************************)
Quiet(r) == \/ LoginFindToken(r) \/ LoginRespond(r)
            \/ ReadPublic(r) \/ ReadPrivate(r) \/ ReadBreaks(r)
            \/ SignFindToken(r) \/ SignCopyPin(r) \/ SignRefused(r) \/ SignOnToken(r)

LEMMA AfterReads ==
    ASSUME TypeOK, AtStep, NEW r \in Reqs, pc[r] \in {"read1", "read2"}, NEW b \in BOOLEAN
    PROVE  /\ arg[r].tok \in Tokens
           /\ arg[r].kind = "login" => AfterRead(r, b) = "open" /\ AfterReadError(r) = "failed"
           /\ arg[r].kind = "sign" => AfterRead(r, b) \in {"copy", "failed"} /\ AfterReadError(r) = "failed"
           /\ arg[r].kind = "certs" => AfterRead(r, b) = "ok" /\ AfterReadError(r) = "ok"
BY DEF AtStep, AfterRead, AfterReadError, AfterLogin, ReadFailed, TypeOK, GatewayTypeOK

(***************************************************************************)
(* Where each of them goes, and what it does to its buffer.                *)
(***************************************************************************)
LEMMA QuietMoves ==
    ASSUME TypeOK, AtStep, NEW r \in Reqs, Quiet(r)
    PROVE  /\ UNCHANGED <<now, byId, sess, limiterVars, arg, stopped>>
           /\ \E next \in {"read1", "read2", "open", "copy", "sign"} \cup Done :
                 /\ pc' = [pc EXCEPT ![r] = next]
                 /\ \/ pc[r] \in {"login_find", "sign_find"} /\ next \in {"read1", "failed"}
                    \/ pc[r] = "respond" /\ next \in Done
                    \/ pc[r] = "read1" /\ next = "read2"
                       /\ (arg[r].tok \in Pinpads \/ arg[r].sid \in Reqs)
                    \/ /\ pc[r] \in {"read1", "read2"} /\ arg[r].kind = "login"
                       /\ next \in {"open", "failed"}
                    \/ /\ pc[r] \in {"read1", "read2"} /\ arg[r].kind = "sign"
                       /\ next \in {"copy", "failed"}
                    \/ pc[r] \in {"read1", "read2"} /\ arg[r].kind = "certs" /\ next = "ok"
                    \/ pc[r] = "copy" /\ next = "sign"
                    \/ pc[r] = "sign" /\ next \in Done
                 /\ \/ buf' = buf /\ (next \in Done => pc[r] \notin {"read1", "read2"} \/ arg[r].kind # "login")
                    \/ buf' = EraseBuf(r) /\ next \in Done
                    \/ pc[r] = "login_find" /\ next = "read1" /\ buf' = [buf EXCEPT ![r] = "live"]
<1> USE DEF Goto, sessionVars, Done
<1>1. CASE LoginFindToken(r)
  BY <1>1 DEF LoginFindToken
<1>2. CASE LoginRespond(r)
  BY <1>2 DEF LoginRespond
<1>3. CASE ReadPublic(r)
  <2>1. arg[r].kind \in {"login", "sign", "certs"} /\ pc[r] = "read1"
    BY <1>3 DEF ReadPublic, AtStep
  <2>2. PICK next : /\ \/ next = AfterRead(r, arg[r].tok \in PublicKeys)
                       \/ next = AfterReadError(r)
                       \/ next = "read2" /\ (arg[r].tok \in Pinpads \/ HasCallback(r))
                    /\ pc' = [pc EXCEPT ![r] = next]
                    /\ buf' = IF next = "failed" THEN EraseBuf(r) ELSE buf
    <3> DEFINE t == arg[r].tok
               next == CASE t \in PublicCerts -> AfterRead(r, t \in PublicKeys)
                         [] t \notin PublicCerts /\ lockSeen[r] -> AfterReadError(r)
                         [] t \notin PublicCerts /\ ~lockSeen[r] ->
                                IF t \in Pinpads \/ HasCallback(r) THEN "read2"
                                ELSE AfterReadError(r)
    <3>1. pc' = [pc EXCEPT ![r] = next] /\ buf' = IF next = "failed" THEN EraseBuf(r) ELSE buf
      BY <1>3 DEF ReadPublic
    <3>2. lockSeen[r] \in BOOLEAN
      BY DEF TypeOK, GatewayTypeOK
    <3>3. \/ next = AfterRead(r, t \in PublicKeys)
          \/ next = AfterReadError(r)
          \/ next = "read2" /\ (t \in Pinpads \/ HasCallback(r))
      BY <3>2
    <3> QED BY <3>1, <3>3
  <2>3. UNCHANGED <<now, byId, sess, limiterVars, arg, stopped>>
    BY <1>3 DEF ReadPublic
  <2>4. (arg[r].tok \in PublicKeys) \in BOOLEAN
    OBVIOUS
  <2> QED BY <2>1, <2>2, <2>3, <2>4, AfterReads DEF HasCallback
<1>4. CASE ReadPrivate(r)
  <2>1. arg[r].kind \in {"login", "sign", "certs"} /\ pc[r] = "read2"
    BY <1>4 DEF ReadPrivate, AtStep
  <2>2. PICK next : /\ \/ \E b \in BOOLEAN : next = AfterRead(r, b)
                       \/ next = AfterReadError(r)
                    /\ pc' = [pc EXCEPT ![r] = next]
                    /\ buf' = IF next = "failed" THEN EraseBuf(r) ELSE buf
    <3>1. PICK p : LET accepted == TokenAccepts(arg[r].tok, p)
                       next == IF accepted \/ p = "empty" THEN AfterRead(r, accepted)
                               ELSE AfterReadError(r)
                   IN /\ pc' = [pc EXCEPT ![r] = next]
                      /\ buf' = IF next = "failed" THEN EraseBuf(r) ELSE buf
      BY <1>4 DEF ReadPrivate
    <3>2. TokenAccepts(arg[r].tok, p) \in BOOLEAN
      BY DEF TokenAccepts
    <3> QED BY <3>1, <3>2
  <2>3. UNCHANGED <<now, byId, sess, limiterVars, arg, stopped>>
    BY <1>4 DEF ReadPrivate
  <2> QED BY <2>1, <2>2, <2>3, AfterReads
<1>5. CASE ReadBreaks(r)
  <2>1. arg[r].kind \in {"login", "sign", "certs"}
    BY <1>5 DEF ReadBreaks, AtStep
  <2> QED BY <1>5, <2>1, AfterReads DEF ReadBreaks
<1>6. CASE SignFindToken(r)
  BY <1>6 DEF SignFindToken
<1>7. CASE SignCopyPin(r)
  BY <1>7 DEF SignCopyPin
<1>8. CASE SignRefused(r)
  BY <1>8 DEF SignRefused
<1>9. CASE SignOnToken(r)
  BY <1>9 DEF SignOnToken
<1> QED BY <1>1, <1>2, <1>3, <1>4, <1>5, <1>6, <1>7, <1>8, <1>9 DEF Quiet

-----------------------------------------------------------------------------
(* The limiter *)

(***************************************************************************)
(* A step that is none of the limiter's, of a request that has started.    *)
(***************************************************************************)
LEMMA LimiterKept ==
    ASSUME LimiterInv, UNCHANGED <<now, limiterVars>>,
           \A x \in Reqs : pc'[x] = "new" => pc[x] = "new"
    PROVE  LimiterInv'
BY DEF LimiterInv, limiterVars, ClockTypeOK, LimiterTypeOK, Limits, AttemptsBounded, InWindow

LEMMA LimiterTick ==
    ASSUME LimiterInv, ClockTick
    PROVE  LimiterInv'
<1> USE DEF ClockTick, Tick, LimiterInv, limiterVars, reqVars
<1>1. ClockTypeOK' /\ LimiterTypeOK'
  BY MaxTimeAssumption DEF ClockTypeOK, LimiterTypeOK
<1>2. Limits'
  BY LimiterAssumption, MaxTimeAssumption DEF ClockTypeOK, LimiterTypeOK, Limits
<1>3. AttemptsBounded'
  BY DEF AttemptsBounded, InWindow
<1> QED BY <1>1, <1>2, <1>3

(***************************************************************************)
(* What allow keeps of the stamps: eviction and pruning lose no fresh one. *)
(***************************************************************************)
LEMMA EvictKeepsFresh ==
    ASSUME LimiterTypeOK, NEW k \in Tokens
    PROVE  /\ EvictStale[k] \subseteq hits[k]
           /\ Fresh(EvictStale[k]) = Fresh(hits[k])
           /\ Fresh(hits[k]) \subseteq EvictStale[k]
BY DEF EvictStale, Fresh, LimiterTypeOK

LEMMA LimiterRefuse ==
    ASSUME LimiterInv, NEW k \in Tokens, Refuse(k), now' = now,
           \A x \in Reqs : pc'[x] = "new" => pc[x] = "new"
    PROVE  LimiterInv'
<1> USE DEF LimiterInv, Refuse
<1>1. \A j \in Tokens : hits'[j] = IF j = k THEN Fresh(hits[j]) ELSE EvictStale[j]
  BY EvictKeepsFresh DEF EvictStale, LimiterTypeOK
<1>2. /\ hits' \in [Tokens -> SUBSET Reqs]
      /\ \A j \in Tokens : Fresh(hits[j]) \subseteq hits'[j] /\ hits'[j] \subseteq hits[j]
  <2>1. \A j \in Tokens : Fresh(hits[j]) \subseteq hits'[j] /\ hits'[j] \subseteq hits[j]
    BY <1>1, EvictKeepsFresh DEF Fresh
  <2>2. hits' = [j \in Tokens |-> hits'[j]]
    BY DEF EvictStale
  <2> QED BY <2>1, <2>2 DEF LimiterTypeOK
<1>3. ClockTypeOK' /\ LimiterTypeOK'
  BY <1>2 DEF ClockTypeOK, LimiterTypeOK
<1>4. Limits'
  BY <1>2 DEF Limits, Fresh, LimiterTypeOK
<1>5. AttemptsBounded'
  BY DEF AttemptsBounded, InWindow
<1> QED BY <1>3, <1>4, <1>5

LEMMA LimiterReset ==
    ASSUME LimiterInv, NEW k \in Tokens, Reset(k), now' = now,
           \A x \in Reqs : pc'[x] = "new" => pc[x] = "new"
    PROVE  LimiterInv'
<1> USE DEF LimiterInv, Reset
<1>1. ClockTypeOK' /\ LimiterTypeOK'
  BY DEF ClockTypeOK, LimiterTypeOK
<1>2. Limits'
  BY DEF Limits, LimiterTypeOK
<1>3. AttemptsBounded'
  <2> SUFFICES ASSUME NEW j \in Tokens, NEW w \in 0 .. MaxTime
               PROVE  Cardinality(InWindow(j, w)') <= MaxAttempts
    BY DEF AttemptsBounded
  <2>1. CASE j = k
    <3>1. InWindow(j, w)' = {}
      BY <2>1 DEF InWindow, LimiterTypeOK
    <3> QED BY <3>1, FS_EmptySet, LimiterAssumption
  <2>2. CASE j # k
    <3>1. InWindow(j, w)' = InWindow(j, w)
      BY <2>2 DEF InWindow, LimiterTypeOK
    <3> QED BY <3>1 DEF AttemptsBounded
  <2> QED BY <2>1, <2>2
<1> QED BY <1>1, <1>2, <1>3

(***************************************************************************)
(* An admitted request is the last of every window it falls into, so the   *)
(* stamps the limiter counted are all the others in it.                    *)
(***************************************************************************)
LEMMA LimiterAdmit ==
    ASSUME LimiterInv, NEW r \in Reqs, NEW k \in Tokens, Admit(r, k), now' = now,
           pc[r] = "new", pc'[r] # "new",
           \A x \in Reqs : pc'[x] = "new" => pc[x] = "new"
    PROVE  LimiterInv'
<1> USE DEF LimiterInv, Admit
<1> DEFINE F == Fresh(hits[k])
<1>0. now \in Nat /\ Window \in Nat /\ MaxAttempts \in Nat /\ hitAt \in [Reqs -> Nat]
  BY MaxTimeAssumption, LimiterAssumption DEF ClockTypeOK, LimiterTypeOK
<1>1. \A j \in Tokens : hits'[j] = IF j = k THEN F \cup {r} ELSE EvictStale[j]
  BY EvictKeepsFresh DEF EvictStale
<1>2. /\ hits' \in [Tokens -> SUBSET Reqs]
      /\ \A j \in Tokens : /\ Fresh(hits[j]) \subseteq hits'[j]
                           /\ hits'[j] \subseteq hits[j] \cup (IF j = k THEN {r} ELSE {})
      /\ r \in hits'[k]
  <2>1. \A j \in Tokens : /\ Fresh(hits[j]) \subseteq hits'[j]
                          /\ hits'[j] \subseteq hits[j] \cup (IF j = k THEN {r} ELSE {})
    BY <1>1, EvictKeepsFresh DEF Fresh
  <2>2. hits' = [j \in Tokens |-> hits'[j]]
    BY DEF EvictStale
  <2>3. \A j \in Tokens : hits'[j] \subseteq Reqs
    BY <2>1 DEF LimiterTypeOK
  <2>4. hits' \in [Tokens -> SUBSET Reqs]
    BY <2>2, <2>3
  <2> QED BY <1>1, <2>1, <2>4
<1>3. ClockTypeOK' /\ LimiterTypeOK'
  BY <1>2 DEF ClockTypeOK, LimiterTypeOK
<1>4. \A j \in Tokens : /\ r \notin admitted[j]
                        /\ admitted'[j] = admitted[j] \cup (IF j = k THEN {r} ELSE {})
  BY DEF Limits, LimiterTypeOK
<1>5. hitAt'[r] = now /\ \A x \in Reqs \ {r} : hitAt'[x] = hitAt[x]
  BY DEF LimiterTypeOK
<1>6. Limits'
  <2> SUFFICES ASSUME NEW j \in Tokens
               PROVE  /\ hits'[j] \subseteq admitted'[j]
                      /\ \A x \in admitted'[j] :
                            /\ pc'[x] # "new" /\ hitAt'[x] <= now
                            /\ now - hitAt'[x] < Window => x \in hits'[j]
    BY DEF Limits
  <2>1. hits'[j] \subseteq admitted'[j]
    BY <1>2, <1>4 DEF Limits
  <2>2. ASSUME NEW x \in admitted'[j]
        PROVE  /\ pc'[x] # "new" /\ hitAt'[x] <= now
               /\ now - hitAt'[x] < Window => x \in hits'[j]
    <3>1. CASE x = r
      BY <3>1, <1>0, <1>2, <1>4, <1>5
    <3>2. CASE x # r
      <4>1. x \in admitted[j] /\ x \in Reqs /\ hitAt'[x] = hitAt[x]
        BY <3>2, <1>4, <1>5 DEF LimiterTypeOK
      <4>2. now - hitAt[x] < Window => x \in Fresh(hits[j])
        BY <4>1 DEF Limits, Fresh
      <4> QED BY <4>1, <4>2, <1>2 DEF Limits
    <3> QED BY <3>1, <3>2
  <2> QED BY <2>1, <2>2
<1>7. AttemptsBounded'
  <2> SUFFICES ASSUME NEW j \in Tokens, NEW w \in 0 .. MaxTime
               PROVE  Cardinality(InWindow(j, w)') <= MaxAttempts
    BY DEF AttemptsBounded
  <2>1. CASE j # k \/ ~(w <= now /\ now < w + Window)
    <3>1. InWindow(j, w)' = InWindow(j, w)
      BY <2>1, <1>4, <1>5 DEF InWindow, LimiterTypeOK
    <3> QED BY <3>1 DEF AttemptsBounded
  <2>2. CASE j = k /\ w <= now /\ now < w + Window
    <3>1. InWindow(k, w)' \subseteq F \cup {r}
      <4> SUFFICES ASSUME NEW x \in admitted'[k], x # r, w <= hitAt'[x]
                   PROVE  x \in F
        BY DEF InWindow
      <4>1. x \in admitted[k] /\ x \in Reqs /\ hitAt'[x] = hitAt[x]
        BY <1>4, <1>5 DEF LimiterTypeOK
      <4>2. now - hitAt[x] < Window
        BY <4>1, <2>2, <1>0, MaxTimeAssumption
      <4> QED BY <4>1, <4>2 DEF Limits, Fresh
    <3>2. IsFiniteSet(F) /\ F \subseteq Reqs
      BY FS_Subset, LimiterAssumption DEF Fresh, LimiterTypeOK
    <3>3. Cardinality(F) < MaxAttempts /\ Cardinality(F) \in Nat
      BY <3>2, EvictKeepsFresh, FS_CardinalityType DEF HasRoom
    <3>4. IsFiniteSet(F \cup {r}) /\ Cardinality(F \cup {r}) <= Cardinality(F) + 1
      <4>1. /\ IsFiniteSet(F \cup {r})
            /\ Cardinality(F \cup {r}) = IF r \in F THEN Cardinality(F) ELSE Cardinality(F) + 1
        BY <3>2, FS_AddElement
      <4> QED BY <4>1, <3>3
    <3>5. Cardinality(F \cup {r}) <= MaxAttempts /\ Cardinality(F \cup {r}) \in Nat
      BY <3>3, <3>4, FS_CardinalityType, <1>0
    <3>6. IsFiniteSet(InWindow(k, w)') /\ Cardinality(InWindow(k, w)') <= Cardinality(F \cup {r})
      BY <3>1, <3>4, FS_Subset
    <3>7. Cardinality(InWindow(k, w)') \in Nat
      BY <3>6, FS_CardinalityType
    <3> QED BY <2>2, <3>5, <3>6, <3>7, <1>0
  <2> QED BY <2>1, <2>2
<1> QED BY <1>3, <1>6, <1>7

-----------------------------------------------------------------------------
(* The sessions *)

\* A session that left the store stays out of it, and none changes hands.
Lasting == \A s \in Reqs : sess[s] # NoSession =>
               /\ sess'[s] # NoSession
               /\ sess'[s].token = sess[s].token /\ sess'[s].pin = sess[s].pin
               /\ s \notin byId => s \notin byId'

LEMMA NothingIsLooked ==
    ASSUME SessionTypeOK, sess' = sess, byId' = byId
    PROVE  Looked
BY DEF Looked, SessionTypeOK

\* Request r moves on, and keeps its arguments once it knows them.
Moved(r, next) ==
    /\ pc' = [pc EXCEPT ![r] = next]
    /\ \A x \in Reqs \ {r} : arg'[x] = arg[x]
    /\ arg'[r] = arg[r] \/ pc[r] \in {"new", "certs_get"}
    /\ verified \subseteq verified'

(***************************************************************************)
(* A step that opens and closes no session, but may find one expired.      *)
(***************************************************************************)
LEMMA SessionsKept ==
    ASSUME TypeOK, AtStep, SessionInv, Looked, NEW r \in Reqs, NEW next, Moved(r, next),
           pc[r] \notin Done \cup {"wipe", "reset", "respond"}
             \/ next \in {"reset", "respond"} \cup Done,
           pc[r] # "wipe", next # "wipe"
    PROVE  SessionInv' /\ Lasting
<1> USE DEF SessionInv, Moved
<1>0. pc \in [Reqs -> Steps]
  BY DEF TypeOK, GatewayTypeOK
<1>1. SessionTypeOK'
  BY DEF Looked, SessionTypeOK
<1>2. Sessions'
  <2> SUFFICES ASSUME NEW s \in Reqs
      PROVE /\ sess'[s] # NoSession => /\ pc'[s] \in {"reset", "respond"} \cup Done
                                       /\ arg'[s].kind = "login"
                                       /\ sess'[s].token = arg'[s].tok
            /\ s \in byId' => sess'[s] # NoSession
            /\ pc'[s] = "wipe" => arg'[s].sid \notin byId' /\ sess'[arg'[s].sid] # NoSession
    BY DEF Sessions
  <2>1. ASSUME sess'[s] # NoSession
        PROVE  /\ pc'[s] \in {"reset", "respond"} \cup Done
               /\ arg'[s].kind = "login"
               /\ sess'[s].token = arg'[s].tok
    <3>1. sess[s] # NoSession /\ sess'[s].token = sess[s].token
      BY <2>1 DEF Looked
    <3>2. pc[s] \in {"reset", "respond"} \cup Done /\ arg[s].kind = "login" /\ sess[s].token = arg[s].tok
      BY <3>1 DEF Sessions
    <3> QED BY <3>1, <3>2, <1>0 DEF Done
  <2>2. s \in byId' => sess'[s] # NoSession
    BY DEF Looked, Sessions
  <2>3. ASSUME pc'[s] = "wipe"
        PROVE  arg'[s].sid \notin byId' /\ sess'[arg'[s].sid] # NoSession
    <3>1. pc[s] = "wipe" /\ s # r
      BY <2>3, <1>0
    <3>2. arg[s].sid \notin byId /\ sess[arg[s].sid] # NoSession /\ arg'[s] = arg[s]
      BY <3>1 DEF Sessions
    <3>3. arg[s].sid \in Reqs
      BY <3>1 DEF AtStep, TypeOK, GatewayTypeOK
    <3> QED BY <3>2, <3>3 DEF Looked
  <2> QED BY <2>1, <2>2, <2>3
<1>3. StoreAndMemoryAgree'
  <2> SUFFICES ASSUME NEW s \in Reqs, sess'[s] # NoSession
      PROVE  IF s \in byId' THEN sess'[s].mem = "live"
             ELSE \/ sess'[s].mem = "zero"
                  \/ \E x \in Reqs : pc'[x] = "wipe" /\ arg'[x].sid = s
    BY DEF StoreAndMemoryAgree
  <2>1. IF s \in byId THEN sess[s].mem = "live"
        ELSE \/ sess[s].mem = "zero"
             \/ \E x \in Reqs : pc[x] = "wipe" /\ arg[x].sid = s
    BY DEF Looked, StoreAndMemoryAgree
  <2>2. \A x \in Reqs : pc[x] = "wipe" => pc'[x] = "wipe" /\ arg'[x] = arg[x]
    BY <1>0
  <2> QED BY <2>1, <2>2 DEF Looked
<1>4. UncheckedSessionExplained'
  BY DEF Looked, UncheckedSessionExplained
<1>5. Lasting
  BY DEF Looked, Lasting
<1> QED BY <1>1, <1>2, <1>3, <1>4, <1>5

(***************************************************************************)
(* A login opens its session, which is not in the store yet.               *)
(***************************************************************************)
LEMMA SessionsOpen ==
    ASSUME TypeOK, AtStep, SessionInv, Checked, NEW r \in Reqs, OpenSession(r)
    PROVE  SessionInv' /\ Lasting
<1> USE DEF SessionInv, OpenSession, Goto
<1> DEFINE new == [token |-> arg[r].tok, pin |-> arg[r].pin, expires |-> Deadline, mem |-> "live"]
<1>0. /\ pc \in [Reqs -> Steps] /\ arg[r].kind = "login"
      /\ arg[r].tok \in Tokens /\ arg[r].pin \in Pins
  BY DEF TypeOK, GatewayTypeOK, AtStep, LoginSteps
<1>1. sess' = [sess EXCEPT ![r] = new] /\ byId' = byId \cup {r}
  BY DEF StoreLogin
<1>2. new \in Session /\ new # NoSession /\ new.mem = "live"
      /\ new.token = arg[r].tok /\ new.pin = arg[r].pin
  <2>1. Deadline \in 0 .. (MaxTime + TTL)
    BY TTLAssumption, MaxTimeAssumption DEF Deadline, TypeOK, ClockTypeOK
  <2> QED BY <1>0, <2>1 DEF Session, NoSession
<1>3. sess[r] = NoSession /\ r \notin byId
  BY DEF Sessions, Done
<1>4. SessionTypeOK'
  BY <1>1, <1>2 DEF SessionTypeOK
<1>5. Sessions'
  BY <1>0, <1>1, <1>2, <1>3, SMTT(30) DEF Sessions, SessionTypeOK, AtStep, TypeOK, GatewayTypeOK, Done
<1>6. StoreAndMemoryAgree'
  BY <1>0, <1>1, <1>2, <1>3 DEF StoreAndMemoryAgree, SessionTypeOK
<1>7. UncheckedSessionExplained'
  BY <1>1, <1>2, <1>3 DEF UncheckedSessionExplained, SessionTypeOK, Checked
<1>8. Lasting
  BY <1>1, <1>3 DEF Lasting, SessionTypeOK
<1> QED BY <1>4, <1>5, <1>6, <1>7, <1>8

(***************************************************************************)
(* logout takes a session out; until it is erased, the handler answers for *)
(* it.                                                                     *)
(***************************************************************************)
LEMMA SessionsPop ==
    ASSUME TypeOK, AtStep, SessionInv, NEW r \in Reqs, NEW s \in Reqs, StartLogout(r, s)
    PROVE  SessionInv' /\ Lasting
<1> USE DEF SessionInv, StartLogout, Goto, StorePop
<1>0. pc \in [Reqs -> Steps] /\ arg \in [Reqs -> Arg]
  BY DEF TypeOK, GatewayTypeOK
<1>1. /\ sess' = sess /\ byId' = byId \ {s}
      /\ pc' = [pc EXCEPT ![r] = IF s \in byId THEN "wipe" ELSE "ok"]
      /\ arg'[r].sid = s /\ \A x \in Reqs \ {r} : arg'[x] = arg[x]
  BY <1>0
<1>2. sess[r] = NoSession
  BY DEF Sessions, Done
<1>3. SessionTypeOK'
  BY <1>1 DEF SessionTypeOK
<1>4. Sessions'
  BY <1>0, <1>1, <1>2 DEF Sessions, Done
<1>5. StoreAndMemoryAgree'
  <2> SUFFICES ASSUME NEW x \in Reqs, sess[x] # NoSession
      PROVE  IF x \in byId' THEN sess[x].mem = "live"
             ELSE \/ sess[x].mem = "zero"
                  \/ \E q \in Reqs : pc'[q] = "wipe" /\ arg'[q].sid = x
    BY <1>1 DEF StoreAndMemoryAgree
  <2>1. CASE x = s /\ s \in byId
    BY <2>1, <1>0, <1>1
  <2>2. CASE ~(x = s /\ s \in byId)
    <3>1. x \in byId <=> x \in byId'
      BY <2>2, <1>1
    <3>2. \A q \in Reqs : pc[q] = "wipe" => pc'[q] = "wipe" /\ arg'[q] = arg[q]
      BY <1>0, <1>1
    <3> QED BY <3>1, <3>2 DEF StoreAndMemoryAgree
  <2> QED BY <2>1, <2>2
<1>6. UncheckedSessionExplained'
  BY <1>1 DEF UncheckedSessionExplained
<1>7. Lasting
  BY <1>1 DEF Lasting
<1> QED BY <1>3, <1>4, <1>5, <1>6, <1>7

LEMMA SessionsErase ==
    ASSUME TypeOK, AtStep, SessionInv, NEW r \in Reqs, LogoutErase(r)
    PROVE  SessionInv' /\ Lasting
<1> USE DEF SessionInv, LogoutErase, Goto
<1> DEFINE s == arg[r].sid
<1>0. pc \in [Reqs -> Steps] /\ s \in Reqs
  BY DEF TypeOK, GatewayTypeOK, AtStep
<1>1. /\ sess' = [sess EXCEPT ![s] = Erase(sess[s])] /\ byId' = byId
      /\ pc' = [pc EXCEPT ![r] = "ok"] /\ arg' = arg
  BY DEF StoreErase
<1>2. s \notin byId /\ sess[s] # NoSession /\ sess[s] \in Session
  BY <1>0, SessionShape DEF Sessions
<1>3. /\ Erase(sess[s]) \in Session /\ Erase(sess[s]) # NoSession
      /\ Erase(sess[s]).mem = "zero"
      /\ Erase(sess[s]).token = sess[s].token /\ Erase(sess[s]).pin = sess[s].pin
  BY <1>2, Wipe DEF NoSession
<1>4. sess[r] = NoSession
  BY <1>0 DEF Sessions, Done
<1>5. \A x \in Reqs : /\ sess'[x] # NoSession <=> sess[x] # NoSession
                      /\ sess'[x].token = sess[x].token /\ sess'[x].pin = sess[x].pin
                      /\ x # s => sess'[x] = sess[x]
                      /\ x = s => sess'[x].mem = "zero"
  BY <1>0, <1>1, <1>2, <1>3 DEF SessionTypeOK
<1>6. SessionTypeOK'
  BY <1>0, <1>1, <1>3 DEF SessionTypeOK
<1>7. Sessions'
  BY <1>0, <1>1, <1>5 DEF Sessions, Done, AtStep, TypeOK, GatewayTypeOK
<1>8. StoreAndMemoryAgree'
  <2> SUFFICES ASSUME NEW x \in Reqs, sess'[x] # NoSession
      PROVE  IF x \in byId THEN sess'[x].mem = "live"
             ELSE \/ sess'[x].mem = "zero"
                  \/ \E q \in Reqs : pc'[q] = "wipe" /\ arg[q].sid = x
    BY <1>1 DEF StoreAndMemoryAgree
  <2>1. CASE x = s
    BY <2>1, <1>2, <1>5
  <2>2. CASE x # s
    <3>1. sess[x] # NoSession /\ sess'[x] = sess[x]
      BY <2>2, <1>5
    <3>2. \A q \in Reqs : pc[q] = "wipe" /\ arg[q].sid = x => pc'[q] = "wipe"
      BY <2>2, <1>0, <1>1
    <3> QED BY <3>1, <3>2 DEF StoreAndMemoryAgree
  <2> QED BY <2>1, <2>2
<1>9. UncheckedSessionExplained'
  BY <1>5 DEF UncheckedSessionExplained
<1>10. Lasting
  BY <1>1, <1>5 DEF Lasting
<1> QED BY <1>6, <1>7, <1>8, <1>9, <1>10

(***************************************************************************)
(* Shutdown finds no handler in the middle of a logout and erases the rest.*)
(***************************************************************************)
LEMMA SessionsClear ==
    ASSUME TypeOK, AtStep, SessionInv, Shutdown
    PROVE  SessionInv' /\ Lasting /\ Closed'
<1> USE DEF SessionInv, Shutdown, reqVars, StoreClear
<1>1. \A x \in Reqs : /\ sess'[x] = IF x \in byId THEN Erase(sess[x]) ELSE sess[x]
                      /\ x \in byId => /\ sess[x] # NoSession
                                       /\ Erase(sess[x]) \in Session
                                       /\ Erase(sess[x]) # NoSession
                                       /\ Erase(sess[x]).mem = "zero"
                                       /\ Erase(sess[x]).token = sess[x].token
                                       /\ Erase(sess[x]).pin = sess[x].pin
  BY SessionShape, Wipe DEF Sessions, NoSession
<1>2. \A x \in Reqs : /\ sess'[x] # NoSession <=> sess[x] # NoSession
                      /\ sess'[x].token = sess[x].token /\ sess'[x].pin = sess[x].pin
  BY <1>1
<1>3. SessionTypeOK'
  BY <1>1 DEF SessionTypeOK
<1>4. Sessions'
  BY <1>2 DEF Sessions, AtStep, TypeOK, GatewayTypeOK
<1>5. \A x \in Reqs : pc[x] \in Done \cup {"new"} /\ pc[x] # "wipe"
  BY DEF Drained, Done
<1>6. \A x \in Reqs : sess'[x] # NoSession => sess'[x].mem = "zero"
  BY <1>1, <1>5 DEF StoreAndMemoryAgree
<1>7. StoreAndMemoryAgree'
  BY <1>6 DEF StoreAndMemoryAgree
<1>8. UncheckedSessionExplained'
  BY <1>2 DEF UncheckedSessionExplained
<1>9. Lasting
  BY <1>2 DEF Lasting
<1>10. Closed'
  BY <1>5, <1>6 DEF Closed, NoSession
<1> QED BY <1>3, <1>4, <1>7, <1>8, <1>9, <1>10

-----------------------------------------------------------------------------
(* The attempts *)

(***************************************************************************)
(* Sessions last, so what was charged to other requests stays explained.   *)
(***************************************************************************)
LEMMA ChargesOfOthers ==
    ASSUME TypeOK, AtStep, Charges, Lasting, NEW r \in Reqs, NEW x \in Reqs, x # r,
           pc'[x] = pc[x], arg'[x] = arg[x], copy'[x] = copy[x],
           charged' \subseteq charged \cup {r}
    PROVE  ChargeOf(x)'
<1>1. ChargeOf(x)
  BY DEF Charges
<1>2. OnSession(x)' = OnSession(x)
  BY DEF OnSession
<1>3. \A s \in Reqs : sess[s] # NoSession =>
          /\ sess'[s] # NoSession
          /\ sess'[s].token = sess[s].token /\ sess'[s].pin = sess[s].pin
          /\ s \notin byId => s \notin byId'
  BY DEF Lasting
<1>4. pc[x] = "sign" => OnSession(x)
  BY DEF AtStep, SignSteps, OnSession, TypeOK, GatewayTypeOK
<1>5. OnSession(x) => arg[x].sid \in Reqs
  BY DEF OnSession
<1> QED BY <1>1, <1>2, <1>3, <1>4, <1>5 DEF ChargeOf

(***************************************************************************)
(* A PIN the session hands over while it is open is the one it was opened  *)
(* with: zeros come from a closed one, and only for the session's token.   *)
(***************************************************************************)
LEMMA HandedOver ==
    ASSUME TypeOK, StoreAndMemoryAgree, NEW s \in Reqs, NEW t, sess[s] # NoSession, sess[s].token = t,
           SessionPin(s, t) \in {"bad", "zero"}
    PROVE  s \notin byId \/ sess[s].pin = "bad"
<1>1. sess[s].pin \in Pins
  BY SessionShape DEF Session
<1>2. s \in byId => sess[s].mem = "live"
  BY DEF StoreAndMemoryAgree
<1> QED BY <1>1, <1>2 DEF SessionPin, PinBytes, Pins

LEMMA SessionPinType ==
    ASSUME TypeOK, NEW s \in Reqs, NEW t
    PROVE  SessionPin(s, t) \in Pins \cup {"none", "zero"}
<1>1. sess[s].pin \in Pins \cup {"none"}
  BY DEF TypeOK, SessionTypeOK, Session, NoSession
<1> QED BY <1>1 DEF SessionPin, PinBytes, Pins

-----------------------------------------------------------------------------
(* Every step preserves the invariant *)

LEMMA IInvTypes == IInv => TypeOK
BY DEF IInv, HandlerInv, SessionInv, LimiterInv, TypeOK

(***************************************************************************)
(* What a quiet step does to PINs, counters and histories.                 *)
(***************************************************************************)
LEMMA TokenKeepsCount ==
    ASSUME TypeOK, NEW t \in Tokens, NEW p
    PROVE  TriesAfter(t, p) \in [Tokens -> 0 .. PinTries]
<1>1. PinTries \in Nat /\ tries \in [Tokens -> 0 .. PinTries]
  BY TokenAssumption DEF TypeOK, GatewayTypeOK
<1>2. PinTries \in 0 .. PinTries /\ (tries[t] # 0 => tries[t] - 1 \in 0 .. PinTries)
  BY <1>1
<1> QED BY <1>1, <1>2 DEF TriesAfter

LEMMA QuietData ==
    ASSUME TypeOK, AtStep, NEW r \in Reqs, Quiet(r)
    PROVE  /\ copy' \in [Reqs -> Pins \cup {"none", "zero"}]
           /\ \A x \in Reqs \ {r} : copy'[x] = copy[x]
           /\ lockSeen' \in [Reqs -> BOOLEAN]
           /\ tries' \in [Tokens -> 0 .. PinTries]
           /\ verified \subseteq verified' /\ verified' \subseteq Reqs
           /\ charged \subseteq charged' /\ charged' \subseteq charged \cup {r}
<1> USE DEF TypeOK, GatewayTypeOK
<1>0. /\ pc[r] \in {"read1", "read2"} \cup SignSteps => arg[r].tok \in Tokens
      /\ pc[r] = "copy" => arg[r].sid \in Reqs
  BY DEF AtStep, SignSteps
<1>1. CASE LoginFindToken(r)
  BY <1>1 DEF LoginFindToken
<1>2. CASE LoginRespond(r)
  BY <1>2 DEF LoginRespond
<1>3. CASE ReadPublic(r)
  BY <1>3 DEF ReadPublic
<1>4. CASE ReadPrivate(r)
  <2>1. PICK p : /\ tries' = TriesAfter(arg[r].tok, p)
                 /\ verified' \in {verified, verified \cup {r}}
                 /\ charged' = charged \/ Charge(r, arg[r].tok, p)
    BY <1>4 DEF ReadPrivate
  <2>2. charged' \in {charged, charged \cup {r}}
    BY <2>1 DEF Charge
  <2>3. UNCHANGED <<copy, lockSeen>> /\ arg[r].tok \in Tokens
    BY <1>0, <1>4 DEF ReadPrivate
  <2> QED BY <2>1, <2>2, <2>3, TokenKeepsCount
<1>5. CASE ReadBreaks(r)
  BY <1>5 DEF ReadBreaks
<1>6. CASE SignFindToken(r)
  BY <1>6 DEF SignFindToken
<1>7. CASE SignCopyPin(r)
  BY <1>0, <1>7, SessionPinType DEF SignCopyPin
<1>8. CASE SignRefused(r)
  BY <1>8 DEF SignRefused
<1>9. CASE SignOnToken(r)
  <2>1. tries' = TriesAfter(arg[r].tok, copy[r]) /\ Charge(r, arg[r].tok, copy[r])
    BY <1>9 DEF SignOnToken
  <2>2. charged' \in {charged, charged \cup {r}}
    BY <2>1 DEF Charge
  <2>3. UNCHANGED <<copy, lockSeen, verified>> /\ arg[r].tok \in Tokens
    BY <1>0, <1>9 DEF SignOnToken, SignSteps
  <2> QED BY <2>1, <2>2, <2>3, TokenKeepsCount
<1> QED BY <1>1, <1>2, <1>3, <1>4, <1>5, <1>6, <1>7, <1>8, <1>9 DEF Quiet

(***************************************************************************)
(* A login whose read ends well has been checked by the token, or needed   *)
(* no check.                                                               *)
(***************************************************************************)
LEMMA QuietChecks ==
    ASSUME TypeOK, AtStep, NEW r \in Reqs, Quiet(r), pc'[r] = "open"
    PROVE  r \in verified' \/ arg[r].tok \in PublicCerts \/ arg[r].pin = "empty"
<1> USE DEF Goto
<1>0. pc \in [Reqs -> Steps]
  BY DEF TypeOK, GatewayTypeOK
<1>1. pc[r] \in {"read1", "read2"} /\ arg[r].kind = "login" /\ arg[r].sid = r
  BY <1>0, QuietMoves DEF AtStep, Done
<1>2. \A b \in BOOLEAN : AfterRead(r, b) = "open" /\ AfterReadError(r) = "failed"
  BY <1>1, AfterReads
<1>3. CASE ReadPublic(r)
  <2>1. lockSeen[r] \in BOOLEAN
    BY DEF TypeOK, GatewayTypeOK
  <2>2. ASSUME arg[r].tok \notin PublicCerts PROVE pc'[r] # "open"
    BY <1>0, <1>2, <1>3, <2>1, <2>2 DEF ReadPublic
  <2> QED BY <2>2
<1>4. CASE ReadPrivate(r)
  <2>1. PICK p \in IF arg[r].tok \in Pinpads THEN {"good", "bad"} ELSE {CallbackPin(r)} :
           /\ pc' = [pc EXCEPT ![r] = IF TokenAccepts(arg[r].tok, p) \/ p = "empty"
                                      THEN AfterRead(r, TokenAccepts(arg[r].tok, p))
                                      ELSE AfterReadError(r)]
           /\ verified' = IF TokenAccepts(arg[r].tok, p) THEN verified \cup {r} ELSE verified
    BY <1>4 DEF ReadPrivate
  <2>2. TokenAccepts(arg[r].tok, p) \/ p = "empty"
    BY <1>0, <1>2, <2>1
  <2>3. p = "empty" => arg[r].pin = "empty"
    BY <1>1, <2>1 DEF CallbackPin
  <2> QED BY <2>1, <2>2, <2>3
<1>5. CASE ReadBreaks(r)
  BY <1>0, <1>2, <1>5 DEF ReadBreaks
<1>6. CASE ~(ReadPublic(r) \/ ReadPrivate(r) \/ ReadBreaks(r))
  BY <1>1, <1>6 DEF Quiet, LoginFindToken, LoginRespond, SignFindToken, SignCopyPin,
                    SignRefused, SignOnToken
<1> QED BY <1>3, <1>4, <1>5, <1>6

(***************************************************************************)
(* A PIN attempt on a session is charged to a session that is closed or    *)
(* was opened with a wrong PIN.                                            *)
(***************************************************************************)
LEMMA QuietCharges ==
    ASSUME TypeOK, AtStep, StoreAndMemoryAgree, Charges, NEW r \in Reqs, Quiet(r)
    PROVE  ChargeOf(r)'
<1> USE DEF Goto
<1> DEFINE s == arg[r].sid
           Lost == s \notin byId \/ sess[s].pin = "bad"
<1>0. /\ pc \in [Reqs -> Steps] /\ copy \in [Reqs -> Pins \cup {"none", "zero"}]
      /\ ChargeOf(r) /\ OnSession(r)' = OnSession(r)
      /\ UNCHANGED <<byId, sess, arg>>
  BY QuietMoves DEF TypeOK, GatewayTypeOK, Charges, OnSession
<1>1. OnSession(r) /\ pc'[r] \in {"sign_find", "read1", "read2", "copy", "sign"} =>
          sess[s] # NoSession /\ sess[s].token = arg[r].tok
  BY <1>0, QuietMoves DEF ChargeOf, Done, OnSession, AtStep, LoginSteps
<1>2. pc'[r] = "read2" => arg[r].tok \in Pinpads \/ s \in Reqs
  BY <1>0, QuietMoves DEF Done
<1>3. pc'[r] \notin {"new", "certs_get"}
  BY <1>0, QuietMoves DEF Done
<1>4. pc[r] \in SignSteps => arg[r].kind = "sign" /\ s \in Reqs /\ OnSession(r)
  BY DEF AtStep, OnSession, TypeOK, GatewayTypeOK
<1>5. pc'[r] = "sign" /\ copy'[r] \in {"bad", "zero"} => Lost
  <2> SUFFICES ASSUME pc'[r] = "sign", copy'[r] \in {"bad", "zero"} PROVE Lost
    OBVIOUS
  <2>1. pc[r] = "copy" /\ SignCopyPin(r)
    <3>1. pc[r] = "copy"
      BY <1>0, QuietMoves DEF Done
    <3> QED BY <3>1 DEF Quiet, LoginFindToken, LoginRespond, ReadPublic, ReadPrivate, ReadBreaks,
                        SignFindToken, SignRefused, SignOnToken
  <2>2. copy'[r] = SessionPin(s, arg[r].tok)
    BY <2>1, <1>0 DEF SignCopyPin
  <2> QED BY <2>1, <2>2, <1>0, <1>4, HandedOver DEF ChargeOf, SignSteps
<1>6. r \in charged' /\ arg[r].kind \in {"sign", "certs"} => s \in Reqs /\ sess[s] # NoSession /\ Lost
  <2> SUFFICES ASSUME r \in charged', arg[r].kind \in {"sign", "certs"}
               PROVE  s \in Reqs /\ sess[s] # NoSession /\ Lost
    OBVIOUS
  <2>1. CASE r \in charged
    BY <2>1, <1>0 DEF ChargeOf
  <2>2. CASE r \notin charged /\ ReadPrivate(r)
    <3>1. PICK p \in IF arg[r].tok \in Pinpads THEN {"good", "bad"} ELSE {CallbackPin(r)} :
             IF arg[r].tok \in Pinpads THEN UNCHANGED charged ELSE Charge(r, arg[r].tok, p)
      BY <2>2 DEF ReadPrivate
    <3>2. arg[r].tok \notin Pinpads /\ p = CallbackPin(r) /\ p \in {"bad", "zero"}
      BY <2>2, <3>1 DEF Charge
    <3>3. s \in Reqs /\ pc[r] = "read2" /\ OnSession(r) /\ p = SessionPin(s, arg[r].tok)
      BY <2>2, <3>2, <1>0 DEF ReadPrivate, ChargeOf, OnSession, CallbackPin
    <3> QED BY <3>2, <3>3, <1>0, HandedOver DEF ChargeOf
  <2>3. CASE r \notin charged /\ SignOnToken(r)
    <3>1. pc[r] = "sign" /\ copy[r] \in {"bad", "zero"}
      BY <2>3 DEF SignOnToken, Charge
    <3> QED BY <3>1, <1>0, <1>4 DEF ChargeOf, SignSteps
  <2>4. CASE r \notin charged /\ ~ReadPrivate(r) /\ ~SignOnToken(r)
    BY <2>4 DEF Quiet, LoginFindToken, LoginRespond, ReadPublic, ReadBreaks,
                SignFindToken, SignCopyPin, SignRefused
  <2> QED BY <2>1, <2>2, <2>3, <2>4
<1> QED BY <1>0, <1>1, <1>2, <1>3, <1>5, <1>6 DEF ChargeOf

LEMMA QuietKeeps ==
    ASSUME IInv, NEW r \in Reqs, Quiet(r)
    PROVE  IInv'
<1> USE DEF IInv
<1>0. TypeOK /\ AtStep /\ Charges /\ StoreAndMemoryAgree /\ HandlerInv /\ SessionInv /\ LimiterInv
      /\ pc \in [Reqs -> Steps] /\ buf \in [Reqs -> {"none", "live", "zero"}]
  BY IInvTypes DEF HandlerInv, SessionInv, GatewayTypeOK
<1>1. PICK next \in {"read1", "read2", "open", "copy", "sign"} \cup Done :
         /\ UNCHANGED <<now, byId, sess, limiterVars, arg, stopped>>
         /\ pc' = [pc EXCEPT ![r] = next]
         /\ \/ pc[r] \in {"login_find", "sign_find"} /\ next \in {"read1", "failed"}
            \/ pc[r] = "respond" /\ next \in Done
            \/ pc[r] = "read1" /\ next = "read2"
               /\ (arg[r].tok \in Pinpads \/ arg[r].sid \in Reqs)
            \/ /\ pc[r] \in {"read1", "read2"} /\ arg[r].kind = "login"
               /\ next \in {"open", "failed"}
            \/ /\ pc[r] \in {"read1", "read2"} /\ arg[r].kind = "sign"
               /\ next \in {"copy", "failed"}
            \/ pc[r] \in {"read1", "read2"} /\ arg[r].kind = "certs" /\ next = "ok"
            \/ pc[r] = "copy" /\ next = "sign"
            \/ pc[r] = "sign" /\ next \in Done
         /\ \/ buf' = buf /\ (next \in Done => pc[r] \notin {"read1", "read2"} \/ arg[r].kind # "login")
            \/ buf' = EraseBuf(r) /\ next \in Done
            \/ pc[r] = "login_find" /\ next = "read1" /\ buf' = [buf EXCEPT ![r] = "live"]
  BY <1>0, QuietMoves
<1>2. pc[r] \notin Done \cup {"new", "wipe", "certs_get", "reset"} /\ next \notin {"new", "wipe"}
  BY <1>1 DEF Done
<1>3. EraseBuf(r) \in [Reqs -> {"none", "live", "zero"}] /\ EraseBuf(r)[r] # "live"
      /\ \A x \in Reqs \ {r} : EraseBuf(r)[x] = buf[x]
  BY <1>0 DEF EraseBuf
<1>4. GatewayTypeOK'
  <2>1. pc' \in [Reqs -> Steps] /\ buf' \in [Reqs -> {"none", "live", "zero"}]
    BY <1>0, <1>1, <1>3 DEF Steps, Done
  <2> QED BY <2>1, <1>0, <1>1, QuietData DEF HandlerInv, GatewayTypeOK
<1>5. AtStep'
  BY <1>0, <1>1 DEF AtStep, LoginSteps, SignSteps, Done
<1>6. Buffers'
  <2> SUFFICES ASSUME NEW x \in Reqs, buf'[x] = "live"
               PROVE  pc'[x] \in {"read1", "read2", "open"} /\ arg[x].kind = "login"
    BY <1>1 DEF Buffers
  <2>1. CASE x # r
    <3>1. buf'[x] = buf[x] /\ pc'[x] = pc[x]
      BY <2>1, <1>0, <1>1, <1>3
    <3> QED BY <3>1 DEF HandlerInv, Buffers
  <2>2. CASE /\ x = r /\ buf' = buf
             /\ next \in Done => pc[r] \notin {"read1", "read2"} \/ arg[r].kind # "login"
    <3>1. pc[r] \in {"read1", "read2", "open"} /\ arg[r].kind = "login"
      BY <2>2 DEF HandlerInv, Buffers
    <3>2. next \in {"read2", "open"}
      BY <2>2, <3>1, <1>1 DEF Done
    <3> QED BY <2>2, <3>1, <3>2, <1>0, <1>1
  <2>3. CASE x = r /\ buf' = EraseBuf(r)
    BY <2>3, <1>3
  <2>4. CASE x = r /\ pc[r] = "login_find" /\ next = "read1"
    BY <2>4, <1>0, <1>1 DEF AtStep, LoginSteps
  <2> QED BY <2>1, <2>2, <2>3, <2>4, <1>1
<1>7. Closed'
  BY <1>0, <1>1, <1>2 DEF HandlerInv, Closed
<1>8. Checked'
  BY <1>0, <1>1, QuietChecks, QuietData DEF HandlerInv, Checked
<1>9. SessionInv' /\ Lasting
  <2>1. Looked
    BY <1>0, <1>1, NothingIsLooked DEF SessionInv
  <2>2. Moved(r, next)
    BY <1>0, <1>1, QuietData DEF Moved
  <2>3. pc[r] \notin Done \cup {"wipe", "reset", "respond"} \/ next \in {"reset", "respond"} \cup Done
    BY <1>1 DEF Done
  <2> QED BY <1>0, <1>2, <2>1, <2>2, <2>3, SessionsKept
<1>10. Charges'
  <2> SUFFICES ASSUME NEW x \in Reqs PROVE ChargeOf(x)'
    BY DEF Charges
  <2>1. CASE x = r
    BY <2>1, <1>0, QuietCharges
  <2>2. CASE x # r
    BY <2>2, <1>0, <1>1, <1>9, QuietData, ChargesOfOthers
  <2> QED BY <2>1, <2>2
<1>11. LimiterInv'
  BY <1>0, <1>1, <1>2, LimiterKept
<1> QED BY <1>4, <1>5, <1>6, <1>7, <1>8, <1>9, <1>10, <1>11 DEF HandlerInv

(***************************************************************************)
(* Opening the session: the local buffer is erased, and the store's takes  *)
(* its place.                                                              *)
(***************************************************************************)
LEMMA OpenKeeps ==
    ASSUME IInv, NEW r \in Reqs, OpenSession(r)
    PROVE  IInv'
<1> USE DEF IInv, OpenSession, Goto
<1>0. TypeOK /\ AtStep /\ Charges /\ Checked /\ SessionInv /\ LimiterInv
      /\ pc \in [Reqs -> Steps] /\ buf \in [Reqs -> {"none", "live", "zero"}]
  BY IInvTypes DEF HandlerInv, GatewayTypeOK
<1>1. SessionInv' /\ Lasting
  BY <1>0, SessionsOpen
<1>2. LimiterInv'
  BY <1>0, LimiterKept
<1>3. GatewayTypeOK' /\ Buffers'
  <2>1. EraseBuf(r) \in [Reqs -> {"none", "live", "zero"}] /\ EraseBuf(r)[r] # "live"
        /\ \A x \in Reqs \ {r} : EraseBuf(r)[x] = buf[x]
    BY <1>0 DEF EraseBuf
  <2>2. GatewayTypeOK'
    BY <1>0, <2>1 DEF HandlerInv, GatewayTypeOK, Steps
  <2>3. Buffers'
    BY <1>0, <2>1 DEF HandlerInv, Buffers
  <2> QED BY <2>2, <2>3
<1>4. AtStep'
  BY <1>0 DEF AtStep, LoginSteps, SignSteps
<1>5. Closed' /\ Checked'
  BY <1>0 DEF HandlerInv, Closed, Checked, Done
<1>6. Charges'
  <2> SUFFICES ASSUME NEW x \in Reqs PROVE ChargeOf(x)'
    BY DEF Charges
  <2>1. CASE x = r
    BY <2>1, <1>0 DEF ChargeOf, Charges, OnSession, AtStep, LoginSteps
  <2>2. CASE x # r
    BY <2>2, <1>0, <1>1, ChargesOfOthers
  <2> QED BY <2>1, <2>2
<1> QED BY <1>1, <1>2, <1>3, <1>4, <1>5, <1>6 DEF HandlerInv

LEMMA ResetKeeps ==
    ASSUME IInv, NEW r \in Reqs, ResetLimiter(r)
    PROVE  IInv'
<1> USE DEF IInv, ResetLimiter, Goto
<1>0. TypeOK /\ AtStep /\ Charges /\ SessionInv /\ LimiterInv /\ pc \in [Reqs -> Steps]
      /\ arg[r].tok \in Tokens
  BY IInvTypes DEF HandlerInv, GatewayTypeOK, AtStep, LoginSteps
<1>1. SessionInv' /\ Lasting
  <2>1. Looked /\ Moved(r, "respond")
    BY <1>0, NothingIsLooked DEF SessionInv, Moved, sessionVars
  <2> QED BY <1>0, <2>1, SessionsKept
<1>2. LimiterInv'
  BY <1>0, LimiterReset
<1>3. GatewayTypeOK' /\ Buffers'
  BY <1>0 DEF HandlerInv, GatewayTypeOK, Buffers, Steps
<1>4. AtStep'
  BY <1>0 DEF AtStep, LoginSteps, SignSteps
<1>5. Closed' /\ Checked'
  BY <1>0 DEF HandlerInv, Closed, Checked, Done, sessionVars
<1>6. Charges'
  <2> SUFFICES ASSUME NEW x \in Reqs PROVE ChargeOf(x)'
    BY DEF Charges
  <2>1. CASE x = r
    BY <2>1, <1>0 DEF ChargeOf, Charges, OnSession, AtStep, LoginSteps
  <2>2. CASE x # r
    BY <2>2, <1>0, <1>1, ChargesOfOthers
  <2> QED BY <2>1, <2>2
<1> QED BY <1>1, <1>2, <1>3, <1>4, <1>5, <1>6 DEF HandlerInv

LEMMA EraseKeeps ==
    ASSUME IInv, NEW r \in Reqs, LogoutErase(r)
    PROVE  IInv'
<1> USE DEF IInv, LogoutErase, Goto
<1>0. TypeOK /\ AtStep /\ Charges /\ SessionInv /\ LimiterInv /\ pc \in [Reqs -> Steps]
  BY IInvTypes DEF HandlerInv, GatewayTypeOK
<1>1. SessionInv' /\ Lasting
  BY <1>0, SessionsErase
<1>2. LimiterInv'
  BY <1>0, LimiterKept
<1>3. GatewayTypeOK' /\ Buffers'
  BY <1>0 DEF HandlerInv, GatewayTypeOK, Buffers, Steps
<1>4. AtStep'
  BY <1>0 DEF AtStep, LoginSteps, SignSteps
<1>5. Closed' /\ Checked'
  BY <1>0 DEF HandlerInv, Closed, Checked, Done
<1>6. Charges'
  <2> SUFFICES ASSUME NEW x \in Reqs PROVE ChargeOf(x)'
    BY DEF Charges
  <2>1. CASE x = r
    BY <2>1, <1>0 DEF ChargeOf, Charges, OnSession, AtStep
  <2>2. CASE x # r
    BY <2>2, <1>0, <1>1, ChargesOfOthers
  <2> QED BY <2>1, <2>2
<1> QED BY <1>1, <1>2, <1>3, <1>4, <1>5, <1>6 DEF HandlerInv

(***************************************************************************)
(* A listing of certificates takes the session if it is authorised, and    *)
(* goes on without one otherwise.                                          *)
(***************************************************************************)
LEMMA CertsGetKeeps ==
    ASSUME IInv, NEW r \in Reqs, CertsGetSession(r)
    PROVE  IInv'
<1> USE DEF IInv, Goto
<1>0. /\ TypeOK /\ AtStep /\ Charges /\ SessionInv /\ LimiterInv /\ pc \in [Reqs -> Steps]
      /\ arg \in [Reqs -> Arg] /\ arg[r].kind = "certs" /\ arg[r].tok \in Tokens
      /\ pc[r] = "certs_get" /\ pc' = [pc EXCEPT ![r] = "read1"]
      /\ UNCHANGED <<now, limiterVars, buf, copy, lockSeen, tries, stopped, verified, charged>>
  BY IInvTypes DEF HandlerInv, GatewayTypeOK, AtStep, CertsGetSession
<1>1. /\ Looked
      /\ \/ arg' = arg /\ (arg[r].sid \in Reqs => Authorised(arg[r].sid, arg[r].tok))
         \/ arg' = [arg EXCEPT ![r].sid = "none"]
  <2>1. CASE arg[r].sid \in Reqs
    BY <2>1, <1>0, GetEffect DEF CertsGetSession, SessionInv
  <2>2. CASE arg[r].sid \notin Reqs
    BY <2>2, <1>0, NothingIsLooked DEF CertsGetSession, SessionInv, sessionVars
  <2> QED BY <2>1, <2>2
<1>2. /\ arg' \in [Reqs -> Arg] /\ arg'[r].kind = "certs" /\ arg'[r].tok = arg[r].tok
      /\ \A x \in Reqs \ {r} : arg'[x] = arg[x]
      /\ arg' = arg \/ arg'[r].sid = "none"
  <2>1. arg[r] \in Arg /\ [arg[r] EXCEPT !.sid = "none"] \in Arg
    BY <1>0 DEF Arg
  <2> QED BY <1>0, <1>1, <2>1 DEF Arg
<1>3. SessionInv' /\ Lasting
  <2>1. Moved(r, "read1")
    BY <1>0, <1>2 DEF Moved
  <2> QED BY <1>0, <1>1, <2>1, SessionsKept DEF Done
<1>4. LimiterInv'
  BY <1>0, LimiterKept
<1>5. GatewayTypeOK' /\ Buffers'
  <2>1. GatewayTypeOK'
    BY <1>0, <1>2 DEF HandlerInv, GatewayTypeOK, Steps
  <2>2. Buffers'
    BY <1>0, <1>2 DEF HandlerInv, Buffers
  <2> QED BY <2>1, <2>2
<1>6. AtStep'
  BY <1>0, <1>2 DEF AtStep, LoginSteps, SignSteps
<1>7. Closed' /\ Checked'
  BY <1>0, <1>1, <1>2 DEF HandlerInv, Closed, Checked, Done, Looked
<1>8. Charges'
  <2> SUFFICES ASSUME NEW x \in Reqs PROVE ChargeOf(x)'
    BY DEF Charges
  <2>1. CASE x = r
    <3>1. OnSession(r)' => sess'[arg'[r].sid] # NoSession /\ sess'[arg'[r].sid].token = arg'[r].tok
      <4> SUFFICES ASSUME OnSession(r)'
                   PROVE  sess'[arg'[r].sid] # NoSession /\ sess'[arg'[r].sid].token = arg'[r].tok
        OBVIOUS
      <4>1. arg'[r].sid = arg[r].sid /\ arg[r].sid \in Reqs /\ arg' = arg
        BY <1>0, <1>1, <1>2, RequestAssumption DEF OnSession
      <4>2. arg[r].sid \in byId /\ sess[arg[r].sid].token = arg[r].tok
        <5>1. CASE arg[r].sid \in Reqs /\ Authorised(arg[r].sid, arg[r].tok)
          BY <5>1 DEF Authorised, Found
        <5>2. CASE arg' = [arg EXCEPT ![r].sid = "none"]
          <6>1. [arg[r] EXCEPT !.sid = "none"].sid = "none"
            BY <1>0 DEF Arg
          <6>2. arg'[r].sid = "none"
            BY <5>2, <6>1, <1>0
          <6> QED BY <6>2, <4>1, RequestAssumption
        <5> QED BY <5>1, <5>2, <4>1, <1>1
      <4>3. sess[arg[r].sid] # NoSession
        BY <4>1, <4>2, <1>0 DEF SessionInv, Sessions
      <4> QED BY <4>1, <4>2, <4>3, <1>1 DEF Looked
    <3>2. r \notin charged
      BY <1>0 DEF Charges, ChargeOf
    <3> QED BY <2>1, <3>1, <3>2, <1>0 DEF ChargeOf
  <2>2. CASE x # r
    BY <2>2, <1>0, <1>2, <1>3, ChargesOfOthers
  <2> QED BY <2>1, <2>2
<1> QED BY <1>3, <1>4, <1>5, <1>6, <1>7, <1>8 DEF HandlerInv

(***************************************************************************)
(* A request that starts knows its arguments from then on.                 *)
(***************************************************************************)
StartsAs(r, a, next) ==
    /\ pc[r] = "new" /\ ~stopped
    /\ arg' = [arg EXCEPT ![r] = a] /\ pc' = [pc EXCEPT ![r] = next]
    /\ UNCHANGED <<now, buf, copy, tries, stopped, verified, charged>>
    /\ lockSeen' \in [Reqs -> BOOLEAN]
    /\ a \in Arg
    /\ a.kind \in {"login", "sign", "certs"} => a.tok \in Tokens
    /\ a.kind \in {"sign", "logout"} => a.sid \in Reqs
    /\ a.kind = "login" => a.pin \in Pins /\ a.sid = r
    /\ \/ next = "login_find" /\ a.kind = "login"
       \/ next = "sign_find" /\ a.kind = "sign"
       \/ next = "certs_get" /\ a.kind = "certs"
       \/ next = "wipe" /\ a.kind = "logout"
       \/ next \in Done

LEMMA StartKeeps ==
    ASSUME IInv, NEW r \in Reqs, NEW a, NEW next, StartsAs(r, a, next), Lasting,
           next = "sign_find" => sess'[a.sid] # NoSession /\ sess'[a.sid].token = a.tok
    PROVE  HandlerInv'
<1> USE DEF IInv, StartsAs
<1>0. /\ TypeOK /\ AtStep /\ Charges /\ pc \in [Reqs -> Steps] /\ arg \in [Reqs -> Arg]
      /\ next \in Steps \ {"new", "read1", "read2", "open", "reset", "respond", "copy", "sign"}
  BY IInvTypes DEF HandlerInv, GatewayTypeOK, Steps, Done
<1>1. GatewayTypeOK'
  BY <1>0 DEF HandlerInv, GatewayTypeOK
<1>2. AtStep'
  BY <1>0 DEF AtStep, LoginSteps, SignSteps, Done
<1>3. Buffers'
  BY <1>0 DEF HandlerInv, Buffers
<1>4. Closed' /\ Checked'
  BY <1>0 DEF HandlerInv, Closed, Checked
<1>5. Charges'
  <2> SUFFICES ASSUME NEW x \in Reqs PROVE ChargeOf(x)'
    BY DEF Charges
  <2>1. CASE x = r
    <3>1. r \notin charged
      BY <1>0 DEF Charges, ChargeOf
    <3> QED BY <2>1, <3>1, <1>0 DEF ChargeOf, OnSession
  <2>2. CASE x # r
    BY <2>2, <1>0, ChargesOfOthers
  <2> QED BY <2>1, <2>2
<1> QED BY <1>1, <1>2, <1>3, <1>4, <1>5 DEF HandlerInv

LEMMA StartLoginKeeps ==
    ASSUME IInv, NEW r \in Reqs, NEW t \in Tokens, NEW p \in Pins, StartLogin(r, t, p)
    PROVE  IInv'
<1> USE DEF IInv, StartLogin, Goto
<1> DEFINE a == [kind |-> "login", tok |-> t, pin |-> p, sid |-> r]
<1>0. /\ TypeOK /\ AtStep /\ SessionInv /\ LimiterInv /\ pc \in [Reqs -> Steps]
      /\ lockSeen \in [Reqs -> BOOLEAN] /\ sess[r] = NoSession
  BY IInvTypes DEF HandlerInv, GatewayTypeOK, SessionInv, Sessions, Done
<1>1. PICK next \in {"login_find", "failed"} :
         /\ pc' = [pc EXCEPT ![r] = next]
         /\ (next = "login_find" /\ Admit(r, t)) \/ Refuse(t)
  OBVIOUS
<1>2. LimiterInv'
  <2>1. pc'[r] # "new" /\ \A x \in Reqs : pc'[x] = "new" => pc[x] = "new"
    BY <1>0, <1>1
  <2>2. now' = now
    OBVIOUS
  <2> QED BY <1>0, <1>1, <2>1, <2>2, LimiterAdmit, LimiterRefuse
<1>3. a \in Arg /\ a.kind = "login" /\ a.tok \in Tokens /\ a.pin \in Pins /\ a.sid = r
  BY DEF Arg
<1>4. SessionInv' /\ Lasting
  <2>1. Looked
    BY <1>0, NothingIsLooked DEF SessionInv, sessionVars
  <2>2. Moved(r, next)
    BY <1>1 DEF Moved
  <2> QED BY <1>0, <1>1, <2>1, <2>2, SessionsKept DEF Done
<1>5. StartsAs(r, a, next)
  BY <1>0, <1>1, <1>3 DEF StartsAs, Done
<1>6. HandlerInv'
  BY <1>1, <1>4, <1>5, StartKeeps
<1> QED BY <1>2, <1>4, <1>6

LEMMA StartSignKeeps ==
    ASSUME IInv, NEW r \in Reqs, NEW s \in Reqs, NEW t \in Tokens, StartSign(r, s, t)
    PROVE  IInv'
<1> USE DEF IInv, StartSign, Goto
<1> DEFINE a == [kind |-> "sign", tok |-> t, pin |-> "none", sid |-> s]
           next == IF Authorised(s, t) THEN "sign_find" ELSE "failed"
<1>0. /\ TypeOK /\ AtStep /\ SessionInv /\ Sessions /\ LimiterInv /\ pc \in [Reqs -> Steps]
      /\ lockSeen \in [Reqs -> BOOLEAN] /\ next \in {"sign_find", "failed"}
  BY IInvTypes DEF HandlerInv, GatewayTypeOK, SessionInv
<1>1. Looked
  BY <1>0, GetEffect
<1>2. LimiterInv'
  BY <1>0, LimiterKept
<1>3. a \in Arg /\ a.kind = "sign" /\ a.tok = t /\ a.sid = s
  BY DEF Arg
<1>4. SessionInv' /\ Lasting
  <2>1. Moved(r, next)
    BY <1>0 DEF Moved
  <2> QED BY <1>0, <1>1, <2>1, SessionsKept DEF Done
<1>5. StartsAs(r, a, next)
  BY <1>0, <1>3 DEF StartsAs, Done
<1>6. next = "sign_find" => sess'[s] # NoSession /\ sess'[s].token = t
  BY <1>0, <1>1 DEF Authorised, Found, Looked, Sessions
<1>7. HandlerInv'
  BY <1>3, <1>4, <1>5, <1>6, StartKeeps
<1> QED BY <1>2, <1>4, <1>7

LEMMA StartCertsKeeps ==
    ASSUME IInv, NEW r \in Reqs, NEW s \in Reqs \cup {"none"}, NEW t \in Tokens,
           StartCerts(r, s, t)
    PROVE  IInv'
<1> USE DEF IInv, StartCerts, Goto
<1> DEFINE a == [kind |-> "certs", tok |-> t, pin |-> "none", sid |-> s]
<1>0. /\ TypeOK /\ AtStep /\ SessionInv /\ LimiterInv /\ pc \in [Reqs -> Steps]
      /\ lockSeen \in [Reqs -> BOOLEAN]
  BY IInvTypes DEF HandlerInv, GatewayTypeOK, SessionInv
<1>1. PICK next \in {"certs_get", "failed"} : pc' = [pc EXCEPT ![r] = next]
  OBVIOUS
<1>2. LimiterInv'
  BY <1>0, <1>1, LimiterKept
<1>3. a \in Arg /\ a.kind = "certs" /\ a.tok \in Tokens
  BY DEF Arg
<1>4. SessionInv' /\ Lasting
  <2>1. Looked
    BY <1>0, NothingIsLooked DEF SessionInv, sessionVars
  <2>2. Moved(r, next)
    BY <1>1 DEF Moved
  <2> QED BY <1>0, <1>1, <2>1, <2>2, SessionsKept DEF Done
<1>5. StartsAs(r, a, next)
  BY <1>0, <1>1, <1>3 DEF StartsAs, Done
<1>6. HandlerInv'
  BY <1>1, <1>4, <1>5, StartKeeps
<1> QED BY <1>2, <1>4, <1>6

LEMMA StartLogoutKeeps ==
    ASSUME IInv, NEW r \in Reqs, NEW s \in Reqs, StartLogout(r, s)
    PROVE  IInv'
<1> USE DEF IInv, StartLogout, Goto
<1> DEFINE a == [kind |-> "logout", tok |-> "none", pin |-> "none", sid |-> s]
           next == IF s \in byId THEN "wipe" ELSE "ok"
<1>0. /\ TypeOK /\ AtStep /\ SessionInv /\ LimiterInv /\ pc \in [Reqs -> Steps]
      /\ lockSeen \in [Reqs -> BOOLEAN] /\ next \in {"wipe", "ok"}
  BY IInvTypes DEF HandlerInv, GatewayTypeOK, SessionInv
<1>1. LimiterInv'
  BY <1>0, LimiterKept
<1>2. a \in Arg /\ a.kind = "logout" /\ a.sid = s
  BY DEF Arg
<1>3. SessionInv' /\ Lasting
  BY <1>0, SessionsPop
<1>4. StartsAs(r, a, next)
  BY <1>0, <1>2 DEF StartsAs, Done
<1>5. HandlerInv'
  BY <1>0, <1>3, <1>4, StartKeeps
<1> QED BY <1>1, <1>3, <1>5

LEMMA ShutdownKeeps ==
    ASSUME IInv, Shutdown
    PROVE  IInv'
<1> USE DEF IInv, Shutdown, reqVars
<1>0. TypeOK /\ AtStep /\ SessionInv /\ LimiterInv /\ Charges
  BY IInvTypes DEF HandlerInv
<1>1. SessionInv' /\ Lasting /\ Closed'
  BY <1>0, SessionsClear
<1>2. LimiterInv'
  BY <1>0, LimiterKept
<1>3. GatewayTypeOK' /\ AtStep' /\ Buffers' /\ Checked'
  BY DEF HandlerInv, GatewayTypeOK, AtStep, Buffers, Checked
<1>4. Charges'
  <2> SUFFICES ASSUME NEW x \in Reqs PROVE ChargeOf(x)'
    BY DEF Charges
  <2>1. pc[x] \in Done \cup {"new"}
    BY DEF Drained
  <2> QED BY <2>1, <1>0, <1>1 DEF Charges, ChargeOf, OnSession, Done, Lasting
<1> QED BY <1>1, <1>2, <1>3, <1>4 DEF HandlerInv

LEMMA TickKeeps ==
    ASSUME IInv, ClockTick
    PROVE  IInv'
<1> USE DEF IInv
<1>1. LimiterInv'
  BY LimiterTick
<1>2. HandlerInv'
  BY DEF ClockTick, reqVars, sessionVars, HandlerInv, GatewayTypeOK, AtStep, Buffers, Closed,
         Checked, Charges, ChargeOf, OnSession
<1>3. SessionInv'
  BY DEF ClockTick, reqVars, sessionVars, SessionInv, SessionTypeOK, Sessions,
         StoreAndMemoryAgree, UncheckedSessionExplained
<1> QED BY <1>1, <1>2, <1>3

LEMMA StutterKeeps ==
    ASSUME IInv, UNCHANGED vars
    PROVE  IInv'
<1> USE DEF IInv, vars
<1>1. LimiterInv'
  BY LimiterKept DEF limiterVars, reqVars
<1>2. HandlerInv'
  BY DEF reqVars, sessionVars, HandlerInv, GatewayTypeOK, AtStep, Buffers, Closed,
         Checked, Charges, ChargeOf, OnSession
<1>3. SessionInv'
  BY DEF reqVars, sessionVars, SessionInv, SessionTypeOK, Sessions,
         StoreAndMemoryAgree, UncheckedSessionExplained
<1> QED BY <1>1, <1>2, <1>3

LEMMA NextIInv == IInv /\ [Next]_vars => IInv'
<1> SUFFICES ASSUME IInv, [Next]_vars PROVE IInv'
  OBVIOUS
<1>1. ASSUME NEW r \in Reqs, Start(r) PROVE IInv'
  BY <1>1, StartLoginKeeps, StartSignKeeps, StartCertsKeeps, StartLogoutKeeps DEF Start
<1>2. ASSUME NEW r \in Reqs, Step(r) PROVE IInv'
  <2>1. Quiet(r) \/ OpenSession(r) \/ ResetLimiter(r) \/ CertsGetSession(r) \/ LogoutErase(r)
    BY <1>2 DEF Step, Quiet
  <2> QED BY <2>1, QuietKeeps, OpenKeeps, ResetKeeps, CertsGetKeeps, EraseKeeps
<1> QED BY <1>1, <1>2, ShutdownKeeps, TickKeeps, StutterKeeps DEF Next

-----------------------------------------------------------------------------
(* The theorems *)

(***************************************************************************)
(* The invariant holds in every reachable state of the daemon.             *)
(***************************************************************************)
THEOREM GatewayInductive == Spec => []IInv
BY InitIInv, NextIInv, PTL DEF Spec

(***************************************************************************)
(* Clock, sessions, limiter, requests and tokens have their types.         *)
(***************************************************************************)
THEOREM GatewayTypeCorrect == Spec => []TypeOK
BY IInvTypes, GatewayInductive, PTL

(***************************************************************************)
(* The store and the memory agree, however logins, logouts, expiry and     *)
(* signatures overlap (service/sessions.py).                               *)
(***************************************************************************)
THEOREM StoreAgreesWithMemory == Spec => []StoreAndMemoryAgree
<1>1. IInv => StoreAndMemoryAgree
  BY DEF IInv, SessionInv
<1> QED BY <1>1, GatewayInductive, PTL

(***************************************************************************)
(* No login answers while its own copy of the PIN is intact                *)
(* (service/api/gateway.py login).                                         *)
(***************************************************************************)
THEOREM BuffersAreErased == Spec => []BufferErasedAtExit
<1>1. IInv => BufferErasedAtExit
  BY DEF IInv, HandlerInv, Buffers, BufferErasedAtExit, Done
<1> QED BY <1>1, GatewayInductive, PTL

(***************************************************************************)
(* After shutdown no PIN is left, in the store or in a handler             *)
(* (service/deps.py close).                                                *)
(***************************************************************************)
THEOREM ShutdownLeavesNoPin == Spec => []NoPinAfterShutdown
<1>1. IInv => NoPinAfterShutdown
  BY DEF IInv, HandlerInv, Closed, Buffers, Done, NoPinAfterShutdown
<1> QED BY <1>1, GatewayInductive, PTL

(***************************************************************************)
(* A PIN is intact only where it is in use, whatever requests overlap      *)
(* (service/sessions.py, gateway.login, ServiceDeps.close).                *)
(***************************************************************************)
THEOREM PinsAreConfined == Spec => []PinsConfined
<1>1. StoreAndMemoryAgree /\ BufferErasedAtExit /\ NoPinAfterShutdown => PinsConfined
  BY DEF PinsConfined
<1> QED BY <1>1, StoreAgreesWithMemory, BuffersAreErased, ShutdownLeavesNoPin, PTL

(***************************************************************************)
(* No window holds more logins than the limiter allows, for any number of  *)
(* concurrent requests (service/security.py allow).                        *)
(***************************************************************************)
THEOREM LoginsAreLimited == Spec => []AttemptsBounded
<1>1. IInv => AttemptsBounded
  BY DEF IInv, LimiterInv
<1> QED BY <1>1, GatewayInductive, PTL

(***************************************************************************)
(* A request on an open session with the right PIN never costs the token   *)
(* an attempt (gateway.py sign and list_certs).                            *)
(***************************************************************************)
THEOREM NoAttemptWasted == Spec => []AttemptLostOnlyWithSession
<1>1. IInv => AttemptLostOnlyWithSession
  <2> SUFFICES ASSUME IInv, NEW r \in charged, arg[r].kind \in {"sign", "certs"}
               PROVE  arg[r].sid \notin byId \/ sess[arg[r].sid].pin = "bad"
    BY DEF AttemptLostOnlyWithSession
  <2>1. r \in Reqs
    BY DEF IInv, HandlerInv, GatewayTypeOK
  <2> QED BY <2>1 DEF IInv, HandlerInv, Charges, ChargeOf
<1> QED BY <1>1, GatewayInductive, PTL

(***************************************************************************)
(* Every session was opened for a PIN the token accepted, or for one that  *)
(* needed no check (gateway.py login over cert_reader.py).                 *)
(***************************************************************************)
THEOREM SessionsAreChecked == Spec => []UncheckedSessionExplained
<1>1. IInv => UncheckedSessionExplained
  BY DEF IInv, SessionInv
<1> QED BY <1>1, GatewayInductive, PTL
================================================================================
