----------------------------- MODULE PinGateway -----------------------------
(***************************************************************************)
(* service/api/gateway.py: the /login, /logout, /sign and                  *)
(* /tokens/{id}/certs handlers of the daemon, run by concurrent threads    *)
(* over the shared SessionStore and RateLimiter, with the two-step         *)
(* certificate read of core/cert_reader.py and the token's PIN counter.    *)
(*                                                                         *)
(* One action per step of a handler that another thread can see: a method  *)
(* under a lock, or one PKCS#11 operation (core/pkcs11_ops.py runs each    *)
(* under one process-wide lock and logs out before releasing it).  pc[r]   *)
(* is the step request r is about to take; "ok" and "failed" are its HTTP  *)
(* outcome.                                                                *)
(***************************************************************************)
EXTENDS SessionStore, RateLimiter

CONSTANTS PublicCerts,    \* tokens whose certificates are found without login
          PublicKeys,     \* tokens whose private key objects are found without login
          Pinpads,        \* tokens with a protected authentication path
          PinTries        \* wrong PINs in a row before the token locks itself

ASSUME TokenAssumption == /\ PublicCerts \subseteq Tokens
                          /\ PublicKeys \subseteq Tokens
                          /\ Pinpads \subseteq Tokens
                          /\ PinTries \in Nat \ {0}
ASSUME RequestAssumption == "none" \notin Reqs \cup Tokens

VARIABLES
    pc,         \* [Reqs -> step]
    arg,        \* [Reqs -> the body of the request]
    buf,        \* [Reqs -> login's own PIN bytearray: none, live or zero]
    copy,       \* [Reqs -> sign's pin_str]
    lockSeen,   \* [Reqs -> pin_state.locked as enumerated by this request]
    tries,      \* [Tokens -> PIN attempts left]; external, the smart card
    stopped,    \* the daemon has run ServiceDeps.close
    verified,   \* history: login requests whose PIN the token accepted
    charged     \* history: requests that cost the token a PIN attempt

reqVars == <<pc, arg, buf, copy, lockSeen>>
vars == <<now, sessionVars, limiterVars, reqVars, tries, stopped, verified, charged>>

Steps == {"new", "login_find", "read1", "read2", "open", "reset", "respond",
          "sign_find", "certs_find", "certs_get", "copy", "sign", "wipe",
          "ok", "failed"}
Done == {"ok", "failed"}
NoArg == [kind |-> "none", tok |-> "none", pin |-> "none", sid |-> "none"]
Arg == [kind : {"none", "login", "sign", "certs", "logout"}, tok : Tokens \cup {"none"},
        pin : Pins \cup {"none"}, sid : Reqs \cup {"none"}]

GatewayTypeOK ==
    /\ pc \in [Reqs -> Steps]
    /\ arg \in [Reqs -> Arg]
    /\ \A r \in Reqs : /\ arg[r].kind \in {"login", "sign", "certs"} => arg[r].tok \in Tokens
                       /\ arg[r].kind \in {"sign", "logout"} => arg[r].sid \in Reqs
                       /\ arg[r].kind = "login" => arg[r].pin \in Pins
    /\ buf \in [Reqs -> {"none", "live", "zero"}]
    /\ copy \in [Reqs -> Pins \cup {"none", "zero"}]
    /\ lockSeen \in [Reqs -> BOOLEAN]
    /\ tries \in [Tokens -> 0 .. PinTries]
    /\ stopped \in BOOLEAN
    /\ verified \subseteq Reqs
    /\ charged \subseteq Reqs

(***************************************************************************)
(* Everything has its type: clock, sessions, limiter, requests, tokens.    *)
(***************************************************************************)
TypeOK == ClockTypeOK /\ SessionTypeOK /\ LimiterTypeOK /\ GatewayTypeOK

Init ==
    /\ now = 0
    /\ SessionInit
    /\ LimiterInit
    /\ pc = [r \in Reqs |-> "new"]
    /\ arg = [r \in Reqs |-> NoArg]
    /\ buf = [r \in Reqs |-> "none"]
    /\ copy = [r \in Reqs |-> "none"]
    /\ lockSeen = [r \in Reqs |-> FALSE]
    /\ tries = [t \in Tokens |-> PinTries]
    /\ stopped = FALSE
    /\ verified = {}
    /\ charged = {}

-----------------------------------------------------------------------------
Goto(r, step) == pc' = [pc EXCEPT ![r] = step]

\* Where a handler ends when its certificate read reports an error: login
\* answers 401, sign finds no certificate and answers 404, the listing is
\* answered with the error in its body.
ReadFailed(r) == IF arg[r].kind = "certs" THEN "ok" ELSE "failed"

\* Bug: an error path of login forgets its buffer.
EraseBuf_Forgotten(r) == buf

\* login's finally-style clean-up of its own buffer on an early exit.
EraseBuf(r) == IF buf[r] = "live" THEN [buf EXCEPT ![r] = "zero"] ELSE buf

\* C_Login with PIN p (external).  An empty PIN is never sent: the code tests
\* "if pin", so the operation goes on without being logged in.
TokenAccepts(t, p) == p = "good" /\ tries[t] > 0
TriesAfter(t, p) ==
    IF p = "empty" \/ tries[t] = 0 THEN tries
    ELSE [tries EXCEPT ![t] = IF p = "good" THEN PinTries ELSE @ - 1]
Charge(r, t, p) == charged' = IF p \in {"bad", "zero"} /\ tries[t] > 0
                              THEN charged \cup {r} ELSE charged

-----------------------------------------------------------------------------
(* POST /login *)

\* The limiter answers; 429 ends the request.
StartLogin(r, t, p) ==
    /\ pc[r] = "new" /\ ~stopped
    /\ arg' = [arg EXCEPT ![r] = [kind |-> "login", tok |-> t, pin |-> p, sid |-> r]]
    /\ \/ Admit(r, t) /\ Goto(r, "login_find")
       \/ Refuse(t) /\ Goto(r, "failed")
    /\ UNCHANGED <<now, sessionVars, buf, copy, lockSeen, tries, stopped, verified, charged>>

\* _find_token enumerates; the PIN state it reports is the one of this moment.
\* On success the PIN goes into a bytearray; an absent token ends in 404.
LoginFindToken(r) ==
    /\ pc[r] = "login_find"
    /\ \/ /\ lockSeen' = [lockSeen EXCEPT ![r] = (tries[arg[r].tok] = 0)]
          /\ buf' = [buf EXCEPT ![r] = "live"]
          /\ Goto(r, "read1")
       \/ Goto(r, "failed") /\ UNCHANGED <<lockSeen, buf>>
    /\ UNCHANGED <<now, sessionVars, limiterVars, arg, copy, tries, stopped, verified, charged>>

\* Bug: login goes on to open a session although the token refused the PIN.
AfterLogin_ErrorIgnored(r, accepted) == "open"

\* read_fn returned: an error is answered with 401, otherwise a session opens.
AfterLogin(r, accepted) == IF accepted THEN "open" ELSE "failed"

\* sessions.login, then the local buffer is erased.
OpenSession(r) ==
    /\ pc[r] = "open"
    /\ StoreLogin(r, arg[r].tok, arg[r].pin)
    /\ buf' = EraseBuf(r)
    /\ Goto(r, "reset")
    /\ UNCHANGED <<now, limiterVars, arg, copy, lockSeen, tries, stopped, verified, charged>>

ResetLimiter(r) ==
    /\ pc[r] = "reset"
    /\ Reset(arg[r].tok)
    /\ Goto(r, "respond")
    /\ UNCHANGED <<now, sessionVars, arg, buf, copy, lockSeen, tries, stopped, verified, charged>>

\* _enrich runs the validator over the certificates.  When it raises, the
\* client gets a 500 and never learns the id of the session left in the store.
LoginRespond(r) ==
    /\ pc[r] = "respond"
    /\ \E outcome \in Done : Goto(r, outcome)
    /\ UNCHANGED <<now, sessionVars, limiterVars, arg, buf, copy, lockSeen, tries,
                   stopped, verified, charged>>

-----------------------------------------------------------------------------
(* cert_reader.read_certificates, shared by the three handlers *)

\* The PIN the callback hands over: login's own buffer, or the session's
\* buffer as it is now.  A PIN typed for another token is a wrong one.
SessionPin(s, t) == IF sess[s].token = t \/ PinBytes(s) = "empty"
                    THEN PinBytes(s) ELSE "bad"
CallbackPin(r) == IF arg[r].kind = "login" THEN arg[r].pin
                  ELSE SessionPin(arg[r].sid, arg[r].tok)
HasCallback(r) == arg[r].sid \in Reqs

\* Where each handler goes once it has the certificates.  sign needs one
\* whose private key is visible (_find_signing_cert).
AfterRead(r, keyVisible) ==
    CASE arg[r].kind = "login" -> AfterLogin(r, TRUE)
      [] arg[r].kind = "sign"  -> IF keyVisible THEN "copy" ELSE "failed"
      [] OTHER                 -> "ok"
AfterReadError(r) ==
    IF arg[r].kind = "login" THEN AfterLogin(r, FALSE) ELSE ReadFailed(r)

\* B1: look without login.  Certificates found end the read: the PIN is not
\* used.  Otherwise the PIN state enumerated earlier decides.
ReadPublic(r) ==
    /\ pc[r] = "read1"
    /\ LET t == arg[r].tok
           next == CASE t \in PublicCerts -> AfterRead(r, t \in PublicKeys)
                     [] t \notin PublicCerts /\ lockSeen[r] -> AfterReadError(r)
                     [] t \notin PublicCerts /\ ~lockSeen[r] ->
                            IF t \in Pinpads \/ HasCallback(r) THEN "read2"
                            ELSE AfterReadError(r)
       IN /\ Goto(r, next)
          /\ buf' = IF next = "failed" THEN EraseBuf(r) ELSE buf
    /\ UNCHANGED <<now, sessionVars, limiterVars, arg, copy, lockSeen, tries,
                   stopped, verified, charged>>

\* B2: one PKCS#11 operation that logs in and looks again.
ReadPrivate(r) ==
    /\ pc[r] = "read2"
    /\ \E p \in IF arg[r].tok \in Pinpads THEN {"good", "bad"} ELSE {CallbackPin(r)} :
        LET t == arg[r].tok
            accepted == TokenAccepts(t, p)
            next == IF accepted \/ p = "empty" THEN AfterRead(r, accepted)
                    ELSE AfterReadError(r)
        IN /\ Goto(r, next)
           /\ buf' = IF next = "failed" THEN EraseBuf(r) ELSE buf
           /\ tries' = TriesAfter(t, p)
           /\ verified' = IF accepted THEN verified \cup {r} ELSE verified
           /\ IF t \in Pinpads THEN UNCHANGED charged ELSE Charge(r, t, p)
    /\ UNCHANGED <<now, sessionVars, limiterVars, arg, copy, lockSeen, stopped>>

\* The token is unplugged, the middleware or the bridge fails: either read
\* ends with an error and no PIN was checked.
ReadBreaks(r) ==
    /\ pc[r] \in {"read1", "read2"}
    /\ Goto(r, AfterReadError(r))
    /\ buf' = EraseBuf(r)
    /\ UNCHANGED <<now, sessionVars, limiterVars, arg, copy, lockSeen, tries,
                   stopped, verified, charged>>

-----------------------------------------------------------------------------
(* POST /sign *)

\* The session ids a client can hold: those a login answered with.
Known == {s \in Reqs : arg[s].kind = "login" /\ pc[s] = "ok"}

\* Bug: the token of the session is not compared.
Authorised_AnyToken(s, t) == Found(s)

Authorised(s, t) == Found(s) /\ sess[s].token = t

StartSign(r, s, t) ==
    /\ pc[r] = "new" /\ ~stopped /\ s \in Known
    /\ arg' = [arg EXCEPT ![r] = [kind |-> "sign", tok |-> t, pin |-> "none", sid |-> s]]
    /\ StoreGet(s)
    /\ Goto(r, IF Authorised(s, t) THEN "sign_find" ELSE "failed")
    /\ UNCHANGED <<now, limiterVars, buf, copy, lockSeen, tries, stopped, verified, charged>>

\* 404 when the token is gone, 400 when the payload is not base64.
SignFindToken(r) ==
    /\ pc[r] = "sign_find"
    /\ \/ /\ lockSeen' = [lockSeen EXCEPT ![r] = (tries[arg[r].tok] = 0)]
          /\ Goto(r, "read1")
       \/ Goto(r, "failed") /\ UNCHANGED lockSeen
    /\ UNCHANGED <<now, sessionVars, limiterVars, arg, buf, copy, tries, stopped,
                   verified, charged>>

\* pin_str = session.pin_bytes(): the session is read again, without the lock.
SignCopyPin(r) ==
    /\ pc[r] = "copy"
    /\ copy' = [copy EXCEPT ![r] = SessionPin(arg[r].sid, arg[r].tok)]
    /\ Goto(r, "sign")
    /\ UNCHANGED <<now, sessionVars, limiterVars, arg, buf, lockSeen, tries,
                   stopped, verified, charged>>

\* Signer.sign refuses (422, 409, 400) before the token sees the PIN.
SignRefused(r) ==
    /\ pc[r] = "sign"
    /\ Goto(r, "failed")
    /\ UNCHANGED <<now, sessionVars, limiterVars, arg, buf, copy, lockSeen, tries,
                   stopped, verified, charged>>

\* The PKCS#11 sign operation: login with the copied PIN, then C_Sign, which
\* may still fail, as may the time stamp after it.
SignOnToken(r) ==
    /\ pc[r] = "sign"
    /\ LET t == arg[r].tok
       IN /\ \E outcome \in IF TokenAccepts(t, copy[r]) THEN Done ELSE {"failed"} :
                Goto(r, outcome)
          /\ tries' = TriesAfter(t, copy[r])
          /\ Charge(r, t, copy[r])
    /\ UNCHANGED <<now, sessionVars, limiterVars, arg, buf, copy, lockSeen,
                   stopped, verified>>

-----------------------------------------------------------------------------
(* GET /tokens/{id}/certs, with or without a session id *)

StartCerts(r, s, t) ==
    /\ pc[r] = "new" /\ ~stopped /\ s \in Known \cup {"none"}
    /\ arg' = [arg EXCEPT ![r] = [kind |-> "certs", tok |-> t, pin |-> "none", sid |-> s]]
    /\ \/ /\ lockSeen' = [lockSeen EXCEPT ![r] = (tries[t] = 0)]
          /\ Goto(r, "certs_get")
       \/ Goto(r, "failed") /\ UNCHANGED lockSeen
    /\ UNCHANGED <<now, sessionVars, limiterVars, buf, copy, tries, stopped,
                   verified, charged>>

\* A session that is missing, expired or of another token is silently ignored.
CertsGetSession(r) ==
    /\ pc[r] = "certs_get"
    /\ IF arg[r].sid \in Reqs
       THEN /\ StoreGet(arg[r].sid)
            /\ arg' = IF Authorised(arg[r].sid, arg[r].tok) THEN arg
                      ELSE [arg EXCEPT ![r].sid = "none"]
       ELSE UNCHANGED <<sessionVars, arg>>
    /\ Goto(r, "read1")
    /\ UNCHANGED <<now, limiterVars, buf, copy, lockSeen, tries, stopped, verified, charged>>

-----------------------------------------------------------------------------
(* POST /logout and shutdown *)

StartLogout(r, s) ==
    /\ pc[r] = "new" /\ ~stopped /\ s \in Known
    /\ arg' = [arg EXCEPT ![r] = [kind |-> "logout", tok |-> "none", pin |-> "none", sid |-> s]]
    /\ StorePop(s)
    /\ Goto(r, IF s \in byId THEN "wipe" ELSE "ok")
    /\ UNCHANGED <<now, limiterVars, buf, copy, lockSeen, tries, stopped, verified, charged>>

LogoutErase(r) ==
    /\ pc[r] = "wipe"
    /\ StoreErase(arg[r].sid)
    /\ Goto(r, "ok")
    /\ UNCHANGED <<now, limiterVars, arg, buf, copy, lockSeen, tries, stopped,
                   verified, charged>>

\* uvicorn lets running requests finish before it ends the lifespan (external).
Drained == \A r \in Reqs : pc[r] \in Done \cup {"new"}

\* ServiceDeps.close
Shutdown ==
    /\ ~stopped /\ Drained
    /\ StoreClear
    /\ stopped' = TRUE
    /\ UNCHANGED <<now, limiterVars, reqVars, tries, verified, charged>>

ClockTick ==
    /\ Tick
    /\ UNCHANGED <<sessionVars, limiterVars, reqVars, tries, stopped, verified, charged>>

\* A handler that has started goes on.
Step(r) ==
    \/ LoginFindToken(r) \/ OpenSession(r) \/ ResetLimiter(r) \/ LoginRespond(r)
    \/ ReadPublic(r) \/ ReadPrivate(r) \/ ReadBreaks(r)
    \/ SignFindToken(r) \/ SignCopyPin(r) \/ SignRefused(r) \/ SignOnToken(r)
    \/ CertsGetSession(r) \/ LogoutErase(r)

\* A client sends a request.
Start(r) ==
    \/ \E t \in Tokens, p \in Pins : StartLogin(r, t, p)
    \/ \E s \in Reqs, t \in Tokens : StartSign(r, s, t)
    \/ \E s \in Reqs \cup {"none"}, t \in Tokens : StartCerts(r, s, t)
    \/ \E s \in Reqs : StartLogout(r, s)

Next == \/ \E r \in Reqs : Start(r) \/ Step(r)
        \/ Shutdown
        \/ ClockTick

Spec == Init /\ [][Next]_vars

\* Started handlers run on (threads of the server's pool) and time passes;
\* clients are free to send nothing more.
FairSpec == Spec /\ WF_vars(ClockTick) /\ \A r \in Reqs : WF_vars(Step(r))

-----------------------------------------------------------------------------
(***************************************************************************)
(* The store and the memory agree: a session in the dictionary still holds *)
(* the PIN it was opened with, and one that left it (logout, expiry seen   *)
(* by get, shutdown) holds zeros, but for a logout between its pop and its *)
(* zeroize (service/sessions.py).                                          *)
(***************************************************************************)
StoreAndMemoryAgree ==
    \A s \in Reqs : sess[s] # NoSession =>
        IF s \in byId THEN sess[s].mem = "live"
        ELSE \/ sess[s].mem = "zero"
             \/ \E r \in Reqs : pc[r] = "wipe" /\ arg[r].sid = s

(***************************************************************************)
(* Whichever way a login ends (404, 401, 500 from the read, success), its  *)
(* own PIN bytearray is overwritten before the answer (gateway.login).     *)
(***************************************************************************)
BufferErasedAtExit ==
    \A r \in Reqs : pc[r] \in Done \cup {"reset", "respond"} => buf[r] # "live"

(***************************************************************************)
(* Once ServiceDeps.close has run no PIN buffer anywhere is intact, and no *)
(* handler can open another session.                                       *)
(***************************************************************************)
NoPinAfterShutdown ==
    stopped => \A r \in Reqs : sess[r].mem # "live" /\ buf[r] # "live"

(***************************************************************************)
(* A PIN is intact only where it is in use: in a session that is in the    *)
(* store, in a login that has not answered, and nowhere once the daemon    *)
(* has stopped (service/sessions.py, gateway.login, ServiceDeps.close).    *)
(***************************************************************************)
PinsConfined == StoreAndMemoryAgree /\ BufferErasedAtExit /\ NoPinAfterShutdown

(***************************************************************************)
(* A request that runs on a session whose PIN was right costs the token a  *)
(* PIN attempt only if that session has been closed under it: never while  *)
(* the session is still open, and never with a PIN of another token (the   *)
(* handlers of /sign and /tokens/{id}/certs).                              *)
(***************************************************************************)
AttemptLostOnlyWithSession ==
    \A r \in charged : arg[r].kind \in {"sign", "certs"} =>
        arg[r].sid \notin byId \/ sess[arg[r].sid].pin = "bad"

(***************************************************************************)
(* A session opened for a PIN the token did not accept can only come from  *)
(* the two ways the read succeeds without a check: certificates that need  *)
(* no login, and an empty PIN (gateway.login over read_certificates).      *)
(***************************************************************************)
UncheckedSessionExplained ==
    \A s \in Reqs : sess[s] # NoSession =>
        s \in verified \/ sess[s].token \in PublicCerts \/ sess[s].pin = "empty"

(***************************************************************************)
(* "Moi phien co TTL ngan; het han -> zeroize + xoa": the PIN of a session *)
(* whose time is up is eventually overwritten (service/sessions.py:6).     *)
(***************************************************************************)
ExpiredPinErased ==
    \A s \in Reqs :
        (sess[s].mem = "live" /\ Expired(s)) ~> (sess[s].mem = "zero")
=============================================================================
