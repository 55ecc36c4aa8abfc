------------------------------- MODULE Validator -------------------------------
(***************************************************************************)
(* core/trust/validator.py: validate() decides whether a signer's          *)
(* certificate may be used.  It climbs from the certificate to a trust     *)
(* anchor of the store, one issuer at a time and never back, and then      *)
(* weighs what it finds out about the chain.                               *)
(*                                                                         *)
(* What a chain looks like is given by the constants; which certificates   *)
(* are in the store, in which order, and which carry key identifiers is    *)
(* chosen initially.  What is true of each certificate of the chain, of    *)
(* the store and of the policy is drawn when the chain is complete.        *)
(***************************************************************************)
EXTENDS Naturals, Sequences, FiniteSets, SequencesExt

CONSTANTS Certs,     \* certificates
          Leaf,      \* the signer's
          Subject, Issuer,  \* [Certs -> names]
          Key, SignedBy,    \* [Certs -> keys]: its own, and the one that signed it
          Role,      \* [Certs -> root, ca, foreign, internal]: its directory
          MayIssue,  \* [Certs -> BOOLEAN]: CA=TRUE and keyCertSign
          PathLen,   \* [Certs -> Nat]: pathLenConstraint
          MaxDepth,  \* _MAX_DEPTH
          Stores,    \* the stores considered: sequences of certificates
          Bare,      \* sets of certificates without AKI and SKI considered
          CrlAnswers \* what the CRL distribution points of a certificate answer

Statuses == {"unknown", "invalid", "foreign", "revoked", "expired", "valid"}
Crls == {"absent", "forged", "old", "listed", "clean"}

\* A certificate out of its time, or what its distribution points answer, in their order.
NodeFacts == [time : {"early", "expired"}, crls : {<<"clean">>}]
             \cup [time : {"good"}, crls : CrlAnswers]

ASSUME ValidatorAssumption ==
    /\ Leaf \in Certs /\ MaxDepth \in Nat
    /\ Role \in [Certs -> {"root", "ca", "foreign", "internal"}]
    /\ MayIssue \in [Certs -> BOOLEAN] /\ PathLen \in [Certs -> Nat]
    /\ Stores \subseteq Seq(Certs) /\ Bare \subseteq SUBSET Certs
    /\ CrlAnswers \subseteq Seq(Crls)

VARIABLES
    store,      \* the entries, in the order of the file names
    bare,       \* certificates without key identifiers
    step,       \* climb, times, revocation, store, policy, decide, done
    path,       \* the chain so far
    facts,      \* what is true of path[i]
    storeState, \* ok, unsigned, stale
    policy,     \* met, unfilled, unmet
    flags,      \* hard_invalid, revoked, expired, cannot_assert
    status      \* result.status

inputs == <<store, bare>>
found == <<path, facts, storeState, policy>>
vars == <<inputs, step, found, flags, status>>

Entries == {store[i] : i \in DOMAIN store}

Init ==
    /\ store \in Stores /\ bare \in Bare
    /\ step = IF store = <<>> THEN "done" ELSE "climb"
    /\ status = IF store = <<>> THEN "invalid" ELSE "unknown"
    /\ path = <<Leaf>> /\ facts = <<>>
    /\ storeState = "ok" /\ policy = "met"
    /\ flags = {}

-----------------------------------------------------------------------------
(* The chain *)

IsAnchor(c) == c \in Entries /\ Role[c] \in {"root", "internal"}

\* verify_directly_issued_by: names and signature.
Signs(i, c) == Issuer[c] = Subject[i] /\ SignedBy[c] = Key[i]

ByName(c) == {k \in DOMAIN store : Subject[store[k]] = Issuer[c]}
WithIds(c, k) == c \notin bare /\ store[k] \notin bare
Strong(c) == {k \in ByName(c) : WithIds(c, k) /\ SignedBy[c] = Key[store[k]]}
Weak(c) == {k \in ByName(c) : ~WithIds(c, k)}
First(K) == CHOOSE k \in K : \A j \in K : k <= j

\* Where find_issuer looks: AKI = SKI is preferred to the name alone.
Candidates(c) == IF Strong(c) # {} THEN Strong(c) ELSE Weak(c)

\* Bug: the certificate itself is counted among the intermediate ones.
Below_Off(p) == Len(p)

\* Intermediate certificates below the next issuer.
Below(p) == Len(p) - 1

IssuerOK(i) == MayIssue[i] /\ Below(path) <= PathLen[i]

\* Bug: a certificate met before is climbed to again.
Seen_Never(c) == FALSE

\* Certificate c is in the chain already.
Seen(c) == c \in Range(path)

Top == path[Len(path)]

\* _recognized_foreign
Foreign == {c \in Entries : Role[c] = "foreign"}
RecognizedForeign == \E f \in Foreign : f = Top \/ Signs(f, Top)

Finish(s) == step' = "done" /\ status' = s /\ UNCHANGED <<inputs, found, flags>>

\* The climb ends short of an anchor.
EndOfClimb == Finish(IF RecognizedForeign THEN "foreign" ELSE "invalid")

\* The climb has come to an anchor; what is true of the chain is drawn.
Complete(p) ==
    /\ path' = p
    /\ facts' \in {f \in [1 .. Len(p) -> NodeFacts] : f[Len(p)].crls \in {<<>>, <<"clean">>}}
    /\ storeState' \in {"ok", "unsigned", "stale"}
    /\ policy' \in {"met", "unfilled", "unmet"}
    /\ step' = "times"
    /\ UNCHANGED <<inputs, flags, status>>

LeafIsAnchor ==
    /\ step = "climb" /\ path = <<Leaf>> /\ IsAnchor(Leaf)
    /\ Complete(path)

\* One round of _build_chain.
Climb ==
    /\ step = "climb" /\ ~(path = <<Leaf>> /\ IsAnchor(Leaf))
    /\ IF Len(path) > MaxDepth \/ Candidates(Top) = {} THEN EndOfClimb
       ELSE LET i == store[First(Candidates(Top))] IN
            IF ~Signs(i, Top) \/ ~IssuerOK(i) THEN Finish("invalid")
            ELSE IF Seen(i) THEN EndOfClimb
            ELSE IF IsAnchor(i) THEN Complete(Append(path, i))
            ELSE /\ path' = Append(path, i)
                 /\ UNCHANGED <<inputs, step, facts, storeState, policy, flags, status>>

-----------------------------------------------------------------------------
(* The judgement *)

Judge(from, to, raised) ==
    /\ step = from /\ step' = to
    /\ flags' = flags \cup raised
    /\ UNCHANGED <<inputs, found, status>>

Of(fact, flag) == IF fact THEN {flag} ELSE {}
Nodes == 1 .. Len(path)

CheckTimes ==
    Judge("times", "revocation",
          Of(\E i \in Nodes : facts[i].time = "expired", "expired")
          \cup Of(\E i \in Nodes : facts[i].time = "early", "hardInvalid"))

\* Bug: a CRL that cannot be trusted is passed over.
Decisive_Trusted(crls) == {n \in DOMAIN crls : crls[n] \in {"listed", "clean"}}

\* RevocationChecker.check: the first CRL that can be had and read decides.
Decisive(crls) == {n \in DOMAIN crls : crls[n] # "absent"}

Revocation(crls) ==
    LET answer == crls[First(Decisive(crls))] IN
    IF Decisive(crls) = {} \/ answer \in {"forged", "old"} THEN "undecided"
    ELSE IF answer = "listed" THEN "revoked" ELSE "good"

\* Certificates whose revocation is checked: all but the anchor.
Revocable == 1 .. Len(path) - 1

CheckRevocation ==
    Judge("revocation", "store",
          Of(\E i \in Nodes \cap Revocable : Revocation(facts[i].crls) = "revoked", "revoked")
          \cup Of(\E i \in Nodes \cap Revocable : Revocation(facts[i].crls) = "undecided",
                  "cannotAssert"))

CheckStore == Judge("store", "policy", Of(storeState # "ok", "cannotAssert"))

CheckPolicy ==
    Judge("policy", "decide",
          Of(policy = "unfilled", "cannotAssert") \cup Of(policy = "unmet", "hardInvalid"))

Verdict == CASE "hardInvalid" \in flags -> "invalid"
             [] "hardInvalid" \notin flags /\ "revoked" \in flags -> "revoked"
             [] flags \cap {"hardInvalid", "revoked"} = {} /\ "expired" \in flags -> "expired"
             [] flags = {"cannotAssert"} -> "unknown"
             [] OTHER -> "valid"

Decide == step = "decide" /\ Finish(Verdict)

Next == \/ LeafIsAnchor \/ Climb
        \/ CheckTimes \/ CheckRevocation \/ CheckStore \/ CheckPolicy \/ Decide

Spec == Init /\ [][Next]_vars

-----------------------------------------------------------------------------
\* A chain of distinct certificates no longer than the bound, and a fact for each.
TypeOK ==
    /\ path \in Seq(Certs) /\ path[1] = Leaf
    /\ Len(path) <= MaxDepth + 1 /\ Cardinality(Range(path)) = Len(path)
    /\ facts # <<>> => facts \in [1 .. Len(path) -> NodeFacts]
    /\ flags \subseteq {"hardInvalid", "revoked", "expired", "cannotAssert"}
    /\ status \in Statuses

\* p leads from the signer's certificate to an anchor, as RFC 5280 would have it:
\* every certificate signed by the next, which may sign at that height.
TrueChain(p) ==
    /\ p[1] = Leaf /\ IsAnchor(p[Len(p)])
    /\ \A i \in 1 .. Len(p) - 1 :
          /\ p[i + 1] \in Entries /\ Signs(p[i + 1], p[i])
          /\ MayIssue[p[i + 1]] /\ i - 1 <= PathLen[p[i + 1]]

(***************************************************************************)
(* VALID, the only status assert_signable lets pass, is given only with a  *)
(* true chain to an anchor of a signed and fresh store, with every         *)
(* certificate in its time and every one below the anchor cleared by the   *)
(* first CRL that was had, a genuine and current one that does not list    *)
(* it, under a filled Appendix II (validator.py:10-15, "FAIL-CLOSED").     *)
(***************************************************************************)
ValidIsJustified ==
    status = "valid" =>
        /\ TrueChain(path)
        /\ \A i \in Nodes : facts[i].time = "good"
        /\ \A i \in 1 .. Len(path) - 1 :
              \E n \in DOMAIN facts[i].crls :
                 /\ facts[i].crls[n] = "clean"
                 /\ \A k \in 1 .. n - 1 : facts[i].crls[k] = "absent"
        /\ storeState = "ok" /\ policy = "met"

\* Chains that could be built from the store: every certificate once.
Chains == {p \in UNION {[1 .. n -> Entries \cup {Leaf}] : n \in 1 .. MaxDepth + 1} : TrueChain(p)}

Ambiguous == \E i, j \in DOMAIN store :
                 i # j /\ Subject[store[i]] = Subject[store[j]]

(***************************************************************************)
(* The climb never turns back, and yet, in a store without two             *)
(* certificates of one name, it misses no chain: a certificate that has    *)
(* one is neither called invalid for want of it nor foreign                *)
(* (find_issuer 165-183, _build_chain 319-359).                            *)
(***************************************************************************)
UniqueChainIsFound ==
    step = "done" /\ facts = <<>> /\ ~Ambiguous => Chains = {}
===============================================================================
