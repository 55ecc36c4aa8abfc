-------------------------------- MODULE Esign --------------------------------
(***************************************************************************)
(* core/esign: the client of the ministry's eSign gateway.  A call is      *)
(* refused before the network unless the specification of the connection   *)
(* is filled in and safe; then it is tried up to MaxAttempts times, with   *)
(* growing pauses, under a circuit breaker that all callers share.         *)
(*                                                                         *)
(* The breaker has no lock.  A thread can be interrupted where a method    *)
(* calls out, which for the breaker is where it reads the clock: between   *)
(* finding the pause over and saying so, and between opening and noting    *)
(* when.  Time is what is left of a pause, and how long ago the breaker    *)
(* was last opened, up to the pause that matters.                          *)
(***************************************************************************)
EXTENDS Naturals, FiniteSetsExt

CONSTANTS Callers, Operations,
          Specs,         \* what esign_gateway_spec.yaml may say
          MaxAttempts, Base, Longest,  \* RetryPolicy
          Threshold, Reset             \* of the breaker

ASSUME EsignAssumption ==
    /\ Specs \subseteq [filled : BOOLEAN, addressed : BOOLEAN, domains : BOOLEAN,
                        defined : SUBSET Operations, tls : BOOLEAN, json : BOOLEAN,
                        https : BOOLEAN, inside : BOOLEAN]
    /\ {MaxAttempts, Base, Longest, Reset} \subseteq Nat /\ Threshold \in Nat \ {0}

VARIABLES
    spec,     \* the specification loaded
    breaker,  \* [state, failures, openFor]
    call,     \* [Callers -> the state of its _call()]
    up,       \* whether the gateway and the network are well
    sent, effects, losses,  \* history, of the call: requests sent, acted on, unanswered
    since     \* history: [Callers -> requests sent since the breaker was opened; 0 when it is not]

history == <<sent, effects, losses, since>>
esignVars == <<spec, breaker, call, up, history>>

\* delay_for
Delay(attempt) == IF attempt <= 1 THEN 0 ELSE Min({Base * 2 ^ (attempt - 2), Longest})

\* is_configured: below that make_gateway gives the gateway that refuses everything.
Configured == spec.filled /\ spec.addressed /\ spec.domains /\ spec.defined # {}

\* _require_ready, operation, _check_egress
Ready(op) ==
    /\ Configured /\ spec.tls /\ spec.json
    /\ op \in spec.defined
    /\ spec.https /\ spec.inside

Idle == [pc |-> "idle", op |-> CHOOSE op \in Operations : TRUE, bad |-> FALSE, attempt |-> 0,
         pause |-> 0, fatal |-> FALSE, result |-> "none"]

Nothing == [c \in Callers |-> 0]

EsignInit ==
    /\ spec \in Specs /\ up \in BOOLEAN
    /\ breaker = [state |-> "closed", failures |-> 0, openFor |-> Reset]
    /\ call = [c \in Callers |-> Idle]
    /\ sent = Nothing /\ effects = Nothing /\ losses = Nothing /\ since = Nothing

\* More than one request too many need not be told apart.
Counted(n) == Min({n + 1, MaxAttempts + 1})

Set(c, r) == call' = [call EXCEPT ![c] = r]

\* register, submit_signature, query_status, health: a payload may be one that the
\* gateway does not take.
Call(c) ==
    /\ call[c].pc = "idle"
    /\ \E op \in Operations, bad \in BOOLEAN :
          Set(c, IF ~Ready(op)
                 THEN [Idle EXCEPT !.pc = "done", !.op = op, !.result = "not_ready"]
                 ELSE IF MaxAttempts = 0  \* no attempt: assert last_exc is not None
                 THEN [Idle EXCEPT !.pc = "done", !.op = op, !.result = "assertion"]
                 ELSE [Idle EXCEPT !.pc = "ask", !.op = op, !.bad = bad, !.attempt = 1])
    /\ UNCHANGED <<spec, breaker, up, history>>

Expired == breaker.state = "open" /\ breaker.openFor >= Reset

LetThrough(c) == [call[c] EXCEPT !.pc = "sleep", !.pause = Delay(call[c].attempt)]

\* Bug: an open breaker lets through as well.
Allows_Open == TRUE

\* What the state says, when it need not change.
Allows == breaker.state # "open"

\* allow
Ask(c) ==
    /\ call[c].pc = "ask"
    /\ Set(c, IF Expired THEN [call[c] EXCEPT !.pc = "flip"]
              ELSE IF Allows THEN LetThrough(c)
              ELSE [call[c] EXCEPT !.pc = "done", !.result = "open"])
    /\ UNCHANGED <<spec, breaker, up, history>>

\* state, after the clock was read.
Flip(c) ==
    /\ call[c].pc = "flip"
    /\ breaker' = [breaker EXCEPT !.state = "half_open"]
    /\ Set(c, LetThrough(c))
    /\ since' = Nothing
    /\ UNCHANGED <<spec, up, sent, effects, losses>>

Send(c) ==
    /\ call[c].pc = "sleep" /\ call[c].pause = 0
    /\ Set(c, [call[c] EXCEPT !.pc = "wait"])
    /\ sent' = [sent EXCEPT ![c] = Counted(@)]
    /\ since' = IF breaker.state = "open" THEN [since EXCEPT ![c] = Counted(@)] ELSE since
    /\ UNCHANGED <<spec, breaker, up, effects, losses>>

\* Bug: a success leaves a tested breaker as it is.
AfterSuccess_Kept(b) == [b EXCEPT !.failures = 0]

\* record_success
AfterSuccess(b) == [b EXCEPT !.failures = 0, !.state = "closed"]

\* An answer below 400: done, or sent elsewhere.
Succeed(c) ==
    /\ call[c].pc = "wait" /\ ~call[c].bad
    /\ breaker' = AfterSuccess(breaker) /\ since' = Nothing
    /\ \/ /\ effects' = [effects EXCEPT ![c] = Counted(@)]
          /\ Set(c, [call[c] EXCEPT !.pc = "done", !.result = "ok"])
       \/ /\ ~up /\ effects' = effects
          /\ Set(c, [call[c] EXCEPT !.pc = "done", !.result = "redirected"])
    /\ UNCHANGED <<spec, up, sent, losses>>

\* 4xx: the request was not acted on.
Reject(c) ==
    /\ call[c].pc = "wait" /\ call[c].bad
    /\ Set(c, [call[c] EXCEPT !.pc = "record", !.fatal = TRUE])
    /\ UNCHANGED <<spec, breaker, up, history>>

\* No answer in time, or 5xx: nobody knows whether it was acted on.
Miss(c) ==
    /\ call[c].pc = "wait" /\ ~up
    /\ Set(c, [call[c] EXCEPT !.pc = "record", !.fatal = FALSE])
    /\ losses' = [losses EXCEPT ![c] = Counted(@)]
    /\ \/ effects' = effects
       \/ ~call[c].bad /\ effects' = [effects EXCEPT ![c] = Counted(@)]
    /\ UNCHANGED <<spec, breaker, up, sent, since>>

\* Bug: what the gateway refused is tried again.
GivesUp_Never4xx(r) == r.attempt >= MaxAttempts

\* is_retryable, and the end of the attempts.
GivesUp(r) == r.fatal \/ r.attempt >= MaxAttempts

\* Bug: the attempts are not counted.
AfterFailure_Uncounted(r) ==
    IF r.fatal THEN [r EXCEPT !.pc = "done", !.result = "refused"] ELSE [r EXCEPT !.pc = "ask"]

\* Raise, or the next attempt.
AfterFailure(r) ==
    IF GivesUp(r)
    THEN [r EXCEPT !.pc = "done", !.result = IF r.fatal THEN "refused" ELSE "unreachable"]
    ELSE [r EXCEPT !.pc = "ask", !.attempt = @ + 1]

\* Failures count up to the threshold, which is all they are compared with.
Failures == Min({breaker.failures + 1, Threshold})

\* record_failure, up to where _trip reads the clock.
RecordFailure(c) ==
    /\ call[c].pc = "record"
    /\ LET tested == breaker.state = "half_open" \/ Expired
           trips == tested \/ Failures >= Threshold
       IN  /\ breaker' = [breaker EXCEPT !.failures = IF tested THEN @ ELSE Failures,
                                         !.state = IF trips THEN "open" ELSE @]
           /\ Set(c, IF trips THEN [call[c] EXCEPT !.pc = "stamp"] ELSE AfterFailure(call[c]))
           /\ since' = IF tested THEN Nothing ELSE since
    /\ UNCHANGED <<spec, up, sent, effects, losses>>

\* _opened_at
Stamp(c) ==
    /\ call[c].pc = "stamp"
    /\ breaker' = [breaker EXCEPT !.openFor = 0]
    /\ Set(c, AfterFailure(call[c]))
    /\ UNCHANGED <<spec, up, history>>

\* The caller has its answer.
Return(c) ==
    /\ call[c].pc = "done" /\ Set(c, Idle)
    /\ sent' = [sent EXCEPT ![c] = 0] /\ effects' = [effects EXCEPT ![c] = 0]
    /\ losses' = [losses EXCEPT ![c] = 0]
    /\ UNCHANGED <<spec, breaker, up, since>>

Tick ==
    /\ breaker' = [breaker EXCEPT !.openFor = Min({@ + 1, Reset})]
    /\ call' = [c \in Callers |-> [call[c] EXCEPT !.pause = IF @ = 0 THEN 0 ELSE @ - 1]]
    /\ UNCHANGED <<spec, up, history>>

\* The gateway or the network breaks down or comes back.
Weather == up' = ~up /\ UNCHANGED <<spec, breaker, call, history>>

Attempt(c) == \/ Ask(c) \/ Flip(c) \/ Send(c) \/ Succeed(c) \/ Reject(c) \/ Miss(c)
              \/ RecordFailure(c) \/ Stamp(c)

EsignNext == (\E c \in Callers : Call(c) \/ Attempt(c) \/ Return(c)) \/ Tick \/ Weather

\* The threads run, time passes, and every request has its answer or its timeout.
EsignFairness == WF_esignVars(Tick) /\ \A c \in Callers : WF_esignVars(Attempt(c))

EsignSpec == EsignInit /\ [][EsignNext]_esignVars /\ EsignFairness

-----------------------------------------------------------------------------
(***************************************************************************)
(* Nothing leaves for a place or over a channel the specification does not *)
(* allow, nor more often than MaxAttempts.  A caller that is told of a     *)
(* success has been served; one that is told of a refusal was not by that  *)
(* attempt; "unreachable" is said only when no attempt had an answer.  A   *)
(* submission is acted on twice only if an answer to it was lost or a 5xx  *)
(* (gateway.py:139-235, resilience.py:84-120).                             *)
(***************************************************************************)
OutcomeIsHonest ==
    \A c \in Callers :
        /\ sent[c] <= MaxAttempts
        /\ sent[c] > 0 => Ready(call[c].op) /\ spec.inside /\ spec.https /\ spec.tls
        /\ effects[c] <= losses[c] + 1
        /\ call[c].pc = "done" =>
              CASE call[c].result = "ok" -> effects[c] > 0 /\ sent[c] = losses[c] + 1
                [] call[c].result \in {"refused", "redirected"} ->
                     effects[c] <= losses[c] /\ sent[c] = losses[c] + 1
                [] call[c].result = "unreachable" -> losses[c] = sent[c] /\ sent[c] = MaxAttempts
                [] call[c].result = "open" -> losses[c] = sent[c]
                [] OTHER -> sent[c] = 0

(***************************************************************************)
(* While the breaker is open a caller sends at most once, and then only    *)
(* what it had been let through for before: the gateway gets no more than  *)
(* one request of each.  The breaker is closed only with fewer failures    *)
(* than it stands (resilience.py:56-82).                                   *)
(***************************************************************************)
BreakerHolds ==
    /\ breaker.state = "open" => \A c \in Callers : since[c] <= 1
    /\ breaker.state = "closed" => breaker.failures < Threshold

(***************************************************************************)
(* Every call comes back, however the gateway, the breaker and the other   *)
(* callers behave (resilience.py:84-120).                                  *)
(***************************************************************************)
CallsReturn == \A c \in Callers : (call[c].pc \notin {"idle", "done"}) ~> (call[c].pc = "done")

(***************************************************************************)
(* Once the gateway is well for good, nobody sends what it rejects, and    *)
(* somebody keeps calling, the breaker closes and stays closed, whatever   *)
(* late failures and interrupted threads there still are                   *)
(* (resilience.py:49-82).                                                  *)
(***************************************************************************)
BreakerRecovers ==
    /\ <>[](up /\ \A c \in Callers : ~call[c].bad)
    /\ []<>(\E c \in Callers : call[c].pc = "ask")
    => <>[](breaker.state = "closed")
==============================================================================
