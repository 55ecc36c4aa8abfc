---------------------------- MODULE SessionStore ----------------------------
(***************************************************************************)
(* service/sessions.py: the store of PIN sessions kept in RAM.             *)
(*                                                                         *)
(* A session is named after the login request that created it (the code    *)
(* draws a fresh random id).  byId is the dictionary; sess[s] is the       *)
(* PinSession object, which outlives its dictionary entry as long as a     *)
(* handler holds a reference to it.  The PIN buffer of an object is either *)
(* intact ("live") or overwritten ("zero").  Each operator below is the    *)
(* part of a method that runs under the store's lock.                      *)
(***************************************************************************)
EXTENDS DaemonBase

CONSTANT TTL          \* life of a session, in clock units

ASSUME TTLAssumption == TTL \in Nat \ {0}

VARIABLES byId, sess

sessionVars == <<byId, sess>>

\* What a user can type.  "zero" is what reading an erased buffer returns.
Pins == {"good", "bad", "empty"}
NoSession == [token |-> "none", pin |-> "none", expires |-> 0, mem |-> "none"]
Session == [token : Tokens, pin : Pins, expires : 0 .. (MaxTime + TTL),
            mem : {"live", "zero"}]

SessionTypeOK == /\ byId \subseteq Reqs
                 /\ sess \in [Reqs -> Session \cup {NoSession}]

SessionInit == byId = {} /\ sess = [s \in Reqs |-> NoSession]

Expired(s) == now >= sess[s].expires

\* get returns the object exactly when it is stored and not yet expired.
Found(s) == s \in byId /\ ~Expired(s)

\* PinSession.pin_bytes: a copy of the buffer as it is at this moment.
\* Overwriting an empty buffer leaves it empty.
PinBytes(s) == IF sess[s].mem = "live" \/ sess[s].pin = "empty"
               THEN sess[s].pin ELSE "zero"

\* PinSession.zeroize
Erase(o) == [o EXCEPT !.mem = "zero"]

Deadline == now + TTL

\* SessionStore.login: the object holds its own copy of the PIN buffer.
StoreLogin(s, t, p) ==
    /\ sess' = [sess EXCEPT ![s] = [token |-> t, pin |-> p,
                                    expires |-> Deadline, mem |-> "live"]]
    /\ byId' = byId \cup {s}

\* SessionStore.get: an expired session is erased and dropped on the way.
StoreGet(s) ==
    IF s \in byId /\ Expired(s)
    THEN /\ sess' = [sess EXCEPT ![s] = Erase(@)]
         /\ byId' = byId \ {s}
    ELSE UNCHANGED sessionVars

\* SessionStore.logout pops under the lock and erases after releasing it.
StorePop(s) == byId' = byId \ {s} /\ UNCHANGED sess
StoreErase(s) == sess' = [sess EXCEPT ![s] = Erase(@)] /\ UNCHANGED byId

\* SessionStore.clear
StoreClear ==
    /\ sess' = [s \in Reqs |-> IF s \in byId THEN Erase(sess[s]) ELSE sess[s]]
    /\ byId' = {}
=============================================================================
