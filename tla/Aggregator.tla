------------------------------ MODULE Aggregator ------------------------------
(***************************************************************************)
(* core/aggregator.py over core/discovery.py: merge_all_sources() takes    *)
(* the modules of a shallow scan, asks each for its tokens, reads the      *)
(* certificates of every token and those in the store of the operating     *)
(* system, and keeps of every certificate its best copy.                   *)
(*                                                                         *)
(* A token is seen through every module that knows it, so one certificate  *)
(* comes from several sides.  Modules and tokens fail on their own.        *)
(***************************************************************************)
EXTENDS Discovery

CONSTANTS Tokens, Certs,
          Shows,  \* [Files -> SUBSET Tokens]
          Holds,  \* [Tokens -> SUBSET Certs]
          Stores  \* what the store of the system may hold: sequences of certificates, each a store

ASSUME AggregatorAssumption ==
    /\ Shows \in [Files -> SUBSET Tokens] /\ Holds \in [Tokens -> SUBSET Certs]
    /\ IsFiniteSet(Tokens) /\ IsFiniteSet(Certs) /\ \A s \in Stores : s \in Seq(Seq(Certs))

VARIABLES
    apc,     \* none, read, store, merge, done
    seen,    \* the tokens, in order: [token, source]
    raws,    \* copies read so far: [cert, key, source, at], at an index of seen or 0
    records  \* the result: [Certs -> copy], of the certificates found

aggVars == <<apc, seen, raws, records>>
allVars == <<discVars, aggVars>>

Rank == [PKCS11 |-> 0, BRIDGE |-> 1, P11KIT |-> 2, PACKAGE |-> 3, STORE |-> 4]

AggInit == DiscInit /\ apc = "none" /\ seen = <<>> /\ raws = <<>> /\ records = <<>>

\* classify_token_source
Source(c) ==
    CASE c.file \in Proxies -> "P11KIT"
      [] c.file \notin Proxies /\ c.bridge -> "BRIDGE"
      [] c.file \notin Proxies /\ ~c.bridge /\ c.source \in {"vendor_intel", "glob_probe"} -> "PACKAGE"
      [] OTHER -> "PKCS11"

\* enumerate_detailed: a module that fails shows no token.
Enumerate(p) ==
    /\ apc = "none" /\ scan[p].pc = "done" /\ scan[p].options = NoOptions
    /\ \E failing \in SUBSET Listed(scan[p].found) :
          LET shown(c) == IF c.file \in failing \/ c.file \notin files THEN <<>>
                          ELSE [i \in 1 .. Cardinality(Shows[c.file]) |->
                                  [token |-> SetToSeq(Shows[c.file])[i], source |-> Source(c)]]
          IN  seen' = FlattenSeq([i \in DOMAIN scan[p].found |-> shown(scan[p].found[i])])
    /\ apc' = "read"
    /\ UNCHANGED <<discVars, raws, records>>

Reached == IF raws = <<>> THEN 0 ELSE Last(raws).at

Copies(certs, keyed, source, at) ==
    [i \in 1 .. Cardinality(certs) |->
        LET c == SetToSeq(certs)[i] IN
        [cert |-> c, key |-> c \in keyed, source |-> source, at |-> at]]

\* The next token: read, with the keys it let us see, or failed.
ReadToken ==
    /\ apc = "read" /\ \E at \in DOMAIN seen : at > Reached
    /\ \E at \in Reached + 1 .. Len(seen) :
          LET certs == Holds[seen[at].token] IN
          /\ certs # {}
          /\ \E keyed \in SUBSET certs : raws' = raws \o Copies(certs, keyed, seen[at].source, at)
    /\ UNCHANGED <<discVars, apc, seen, records>>

\* No more tokens; then the store, which may fail or be left out.
ReadStore ==
    /\ apc = "read"
    /\ \/ \E stores \in Stores :
             LET certs == StoreOf(host.os, stores) IN
             raws' = raws \o [i \in DOMAIN certs |->
                                [cert |-> certs[i], key |-> FALSE, source |-> "STORE", at |-> 0]]
       \/ raws' = raws
    /\ apc' = "merge"
    /\ UNCHANGED <<discVars, seen, records>>

\* Bug: the source counts before the key.
Better_SourceFirst(c, w) == Rank[c.source] < Rank[w.source]

\* _better
Better(c, w) == IF c.key # w.key THEN c.key ELSE Rank[c.source] < Rank[w.source]

\* What is kept when one more copy is looked at.
Taken(winners, r) ==
    IF r.cert \in DOMAIN winners /\ ~Better(r, winners[r.cert]) THEN winners
    ELSE [c \in DOMAIN winners \cup {r.cert} |-> IF c = r.cert THEN r ELSE winners[c]]

Winners(copies) ==
    LET upTo[k \in 0 .. Len(copies)] == IF k = 0 THEN <<>> ELSE Taken(upTo[k - 1], copies[k])
    IN  upTo[Len(copies)]

\* Every certificate once, at the token of its best copy or among the stored ones.
Merge ==
    /\ apc = "merge" /\ apc' = "done"
    /\ records' = Winners(raws)
    /\ UNCHANGED <<discVars, seen, raws>>

AggNext == \/ DiscNext /\ UNCHANGED aggVars
           \/ \E p \in Procs : Enumerate(p)
           \/ ReadToken \/ ReadStore \/ Merge

AggSpec == AggInit /\ [][AggNext]_allVars

-----------------------------------------------------------------------------
(***************************************************************************)
(* Through however many modules a token was seen, and whatever failed on   *)
(* the way, a certificate that was read at all is listed exactly once: in  *)
(* a copy that can sign if any can, of the most direct source among those, *)
(* and under a token that holds it, unless only the store of the system    *)
(* had it (aggregator.py:158-275).                                         *)
(***************************************************************************)
BestCopyOnce ==
    apc = "done" =>
        /\ DOMAIN records = {r.cert : r \in Range(raws)}
        /\ \A c \in DOMAIN records :
              LET best == records[c]
                  copies == {r \in Range(raws) : r.cert = c}
              IN  /\ best \in copies
                  /\ best.key = (\E r \in copies : r.key)
                  /\ \A r \in copies : r.key = best.key => Rank[best.source] <= Rank[r.source]
                  /\ best.at # 0 => c \in Holds[seen[best.at].token]
                  /\ best.at = 0 => \A r \in copies : r.at = 0
===============================================================================
