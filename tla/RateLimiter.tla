---------------------------- MODULE RateLimiter ----------------------------
(***************************************************************************)
(* service/security.py, class RateLimiter: at most MaxAttempts logins per  *)
(* token in a sliding window.  The list of time stamps the code keeps for  *)
(* a key is the set of requests that were let through, each stamped at     *)
(* hitAt; a key with no stamps is a key absent from the dictionary.        *)
(*                                                                         *)
(* admitted is a history variable: every request let through since the     *)
(* last reset of the key, never pruned.                                    *)
(***************************************************************************)
EXTENDS DaemonBase, FiniteSets

CONSTANTS MaxAttempts, Window

ASSUME LimiterAssumption == /\ MaxAttempts \in Nat \ {0}
                            /\ Window \in Nat \ {0}
                            /\ IsFiniteSet(Reqs)

VARIABLES hits, hitAt, admitted

limiterVars == <<hits, hitAt, admitted>>

LimiterTypeOK == /\ hits \in [Tokens -> SUBSET Reqs]
                 /\ hitAt \in [Reqs -> 0 .. MaxTime]
                 /\ admitted \in [Tokens -> SUBSET Reqs]

LimiterInit == /\ hits = [k \in Tokens |-> {}]
               /\ hitAt = [r \in Reqs |-> 0]
               /\ admitted = [k \in Tokens |-> {}]

Fresh(S) == {r \in S : now - hitAt[r] < Window}

\* _evict_stale: keys all of whose stamps left the window disappear.
EvictStale == [k \in Tokens |-> IF Fresh(hits[k]) = {} THEN {} ELSE hits[k]]

\* Bug: the comparison is off by one.
HasRoom_OffByOne(k) == Cardinality(Fresh(EvictStale[k])) <= MaxAttempts

HasRoom(k) == Cardinality(Fresh(EvictStale[k])) < MaxAttempts

\* allow(k) for request r, when it answers True: the stamp is recorded.
Admit(r, k) ==
    /\ HasRoom(k)
    /\ hits' = [EvictStale EXCEPT ![k] = Fresh(@) \cup {r}]
    /\ hitAt' = [hitAt EXCEPT ![r] = now]
    /\ admitted' = [admitted EXCEPT ![k] = @ \cup {r}]

\* allow(k) when it answers False: the pruned list is kept, nothing is added.
Refuse(k) ==
    /\ ~HasRoom(k)
    /\ hits' = [EvictStale EXCEPT ![k] = Fresh(@)]
    /\ UNCHANGED <<hitAt, admitted>>

\* reset(k)
Reset(k) ==
    /\ hits' = [hits EXCEPT ![k] = {}]
    /\ admitted' = [admitted EXCEPT ![k] = {}]
    /\ UNCHANGED hitAt

-----------------------------------------------------------------------------
InWindow(k, w) == {r \in admitted[k] : w <= hitAt[r] /\ hitAt[r] < w + Window}

(***************************************************************************)
(* Whatever requests were admitted, pruned and evicted on the way, no      *)
(* interval of Window time units since the last reset of a token holds     *)
(* more than MaxAttempts admitted logins (RateLimiter.allow).              *)
(***************************************************************************)
AttemptsBounded ==
    \A k \in Tokens : \A w \in 0 .. MaxTime :
        Cardinality(InWindow(k, w)) <= MaxAttempts
=============================================================================
