----------------------------- MODULE Signer_proofs -----------------------------
(***************************************************************************)
(* Proofs about Validator, for any certificates, store and depth, and      *)
(* about Signer, for any token, key and Appendix I.                        *)
(*                                                                         *)
(* The validator's first invariant has three parts: the path climbed so    *)
(* far is a chain (Chain), it ends at an anchor once its facts are drawn   *)
(* (Drawn), and every judgement already passed without raising a flag      *)
(* found nothing wrong (Judged).  The second says more of the climb: it    *)
(* goes where the store leads and nowhere twice (Walk), and gives up only  *)
(* where there is no chain (Ending).                                       *)
(*                                                                         *)
(* What is proved of the validator carries over: a step of the signer is   *)
(* one of the validator or leaves it alone.  Of the signer itself the      *)
(* invariant keeps, from phase to phase, what the next one relies on: the  *)
(* validator has answered (Admitted), the algorithm is the first that fits *)
(* (Selected), the signature is by a mechanism of the last session (Made), *)
(* and what was told is so (RecordIsTrue); then what is in the variables   *)
(* (Held), in the document (Drafted) and in the signature (Coded).         *)
(***************************************************************************)
EXTENDS Signer, FiniteSetTheorems, SequenceTheorems, WellFoundedInduction, TLAPS

-----------------------------------------------------------------------------
(* The validator *)

Judging == {"times", "revocation", "store", "policy", "decide"}
Flags == {"hardInvalid", "revoked", "expired", "cannotAssert"}

\* Every certificate of the path was issued by the next, which may issue at its height.
Chain ==
    /\ store \in Seq(Certs)
    /\ path \in Seq(Certs) /\ path # <<>> /\ path[1] = Leaf
    /\ \A i \in 1 .. Len(path) - 1 :
          /\ path[i + 1] \in Entries /\ Signs(path[i + 1], path[i])
          /\ MayIssue[path[i + 1]] /\ i - 1 <= PathLen[path[i + 1]]

\* Once the facts are drawn the path leads to an anchor.
Drawn ==
    /\ step \in Judging \cup {"climb", "done"}
    /\ policy \in {"met", "unfilled", "unmet"}
    /\ step \in Judging \/ status = "valid" =>
          IsAnchor(path[Len(path)]) /\ facts \in [Nodes -> NodeFacts]

Past(s) == step \in s \cup {"decide"} \/ status = "valid"

\* What a judgement that raised nothing has found.
Judged ==
    /\ flags \subseteq Flags
    /\ status = "valid" => flags = {} /\ step = "done"
    /\ flags = {} /\ Past({"revocation", "store", "policy"}) =>
          \A i \in Nodes : facts[i].time = "good"
    /\ flags = {} /\ Past({"store", "policy"}) =>
          \A i \in 1 .. Len(path) - 1 : Revocation(facts[i].crls) = "good"
    /\ flags = {} /\ Past({"policy"}) => storeState = "ok"
    /\ flags = {} /\ Past({}) => policy = "met"

IInv == Chain /\ Drawn /\ Judged

-----------------------------------------------------------------------------
\* The first of a set of positions is one of them, and none is before it.
LEMMA FirstIsLeast ==
    ASSUME NEW K, K \subseteq Nat, K # {}
    PROVE  First(K) \in K /\ \A j \in K : First(K) <= j
<1>1. PICK k \in K : \A j \in K : <<j, k>> \notin OpToRel(<, Nat)
  BY WFMin, NatLessThanWellFounded, Zenon
<1>2. \A j \in K : <<j, k>> \in Nat \X Nat /\ <<j, k>>[1] = j /\ <<j, k>>[2] = k
  OBVIOUS
<1>3. \A j \in K : ~(j < k)
  BY <1>1, <1>2, Zenon DEF OpToRel
<1>4. \A j \in K : k <= j
  BY <1>3
<1> QED
  BY <1>4, Zenon DEF First

\* A climb that comes from the store's candidates is to an entry of it.
LEMMA FirstCandidate ==
    ASSUME store \in Seq(Certs), NEW c, Candidates(c) # {}
    PROVE  First(Candidates(c)) \in DOMAIN store /\ store[First(Candidates(c))] \in Entries
<1>1. Candidates(c) \subseteq DOMAIN store /\ DOMAIN store \subseteq Nat
  BY DEF Candidates, Strong, Weak, ByName
<1> QED
  BY <1>1, FirstIsLeast DEF Entries

\* A certificate is good for its revocation only if the first list that was had clears it.
LEMMA GoodIsCleared ==
    ASSUME NEW crls \in Seq(Crls), Revocation(crls) = "good"
    PROVE  \E n \in DOMAIN crls : crls[n] = "clean" /\ \A k \in 1 .. n - 1 : crls[k] = "absent"
<1> DEFINE n == First(Decisive(crls))
<1>1. Decisive(crls) # {} /\ crls[n] \notin {"forged", "old", "listed"}
  BY DEF Revocation
<1>2. Decisive(crls) \subseteq Nat
  BY DEF Decisive
<1>3. n \in Decisive(crls) /\ \A j \in Decisive(crls) : n <= j
  BY <1>1, <1>2, FirstIsLeast
<1>4. n \in DOMAIN crls /\ crls[n] = "clean"
  BY <1>1, <1>3 DEF Decisive, Crls
<1>5. \A k \in 1 .. n - 1 : crls[k] = "absent"
  <2> SUFFICES ASSUME NEW k \in 1 .. n - 1 PROVE crls[k] = "absent"
    OBVIOUS
  <2>1. k \in DOMAIN crls /\ ~(n <= k)
    BY <1>4
  <2> QED
    BY <2>1, <1>3 DEF Decisive
<1> QED
  BY <1>4, <1>5

-----------------------------------------------------------------------------
\* The invariant holds initially.
LEMMA InitIInv == Init => IInv
  BY ValidatorAssumption DEF Init, IInv, Chain, Drawn, Judged, Past, Judging, Flags

\* A path whose facts have just been drawn.
LEMMA CompleteIInv ==
    ASSUME IInv, step = "climb", NEW p \in Seq(Certs), p # <<>>, Complete(p),
           Chain', IsAnchor(p[Len(p)])
    PROVE  IInv'
<1>1. path' = p /\ step' = "times" /\ UNCHANGED <<store, flags, status>>
  BY DEF Complete, inputs
<1>2. facts' \in [1 .. Len(p) -> NodeFacts] /\ policy' \in {"met", "unfilled", "unmet"}
  BY DEF Complete
<1>3. status # "valid"
  BY DEF IInv, Judged
<1>4. Drawn'
  BY <1>1, <1>2 DEF Drawn, Judging, Nodes, IsAnchor, Entries
<1>5. Judged'
  BY <1>1, <1>3 DEF IInv, Judged, Past
<1> QED
  BY <1>4, <1>5 DEF IInv

\* An end short of an anchor is never VALID.
LEMMA FinishIInv ==
    ASSUME IInv, NEW s, Finish(s), s # "valid"
    PROVE  IInv'
<1>1. UNCHANGED <<store, bare, path, facts, storeState, policy, flags>> /\ step' = "done" /\ status' = s
  BY DEF Finish, inputs, found
<1>2. Chain'
  BY <1>1 DEF IInv, Chain, Entries
<1>3. Drawn' /\ Judged'
  BY <1>1 DEF IInv, Drawn, Judged, Past, Judging
<1> QED
  BY <1>2, <1>3 DEF IInv

\* One round of the climb keeps the path a chain.
LEMMA ClimbIInv == IInv /\ (LeafIsAnchor \/ Climb) => IInv'
<1> SUFFICES ASSUME IInv, LeafIsAnchor \/ Climb PROVE IInv'
  OBVIOUS
<1>1. CASE LeafIsAnchor
  <2>1. Complete(path) /\ step = "climb" /\ path = <<Leaf>> /\ IsAnchor(Leaf)
    BY <1>1 DEF LeafIsAnchor
  <2>2. path \in Seq(Certs) /\ path # <<>> /\ path[Len(path)] = Leaf
    BY <2>1 DEF IInv, Chain
  <2>3. Chain'
    BY <2>1 DEF IInv, Chain, Complete, inputs, Entries
  <2> QED
    BY <2>1, <2>2, <2>3, CompleteIInv
<1>2. CASE Climb
  <2> DEFINE i == store[First(Candidates(Top))]
  <2>1. step = "climb"
    BY <1>2 DEF Climb
  <2>2. CASE Len(path) > MaxDepth \/ Candidates(Top) = {}
    <3>1. EndOfClimb
      BY <1>2, <2>2 DEF Climb
    <3> QED
      BY <3>1, FinishIInv DEF EndOfClimb
  <2>3. CASE ~(Len(path) > MaxDepth \/ Candidates(Top) = {})
    <3>1. i \in Entries /\ i \in Certs
      BY <2>3, FirstCandidate DEF IInv, Chain
    <3>2. CASE ~Signs(i, Top) \/ ~IssuerOK(i)
      <4>1. Finish("invalid")
        BY <1>2, <2>3, <3>2 DEF Climb
      <4> QED
        BY <4>1, FinishIInv
    <3>3. CASE Signs(i, Top) /\ IssuerOK(i) /\ Seen(i)
      <4>1. EndOfClimb
        BY <1>2, <2>3, <3>3 DEF Climb
      <4> QED
        BY <4>1, FinishIInv DEF EndOfClimb
    <3>4. CASE Signs(i, Top) /\ IssuerOK(i) /\ ~Seen(i)
      <4> DEFINE p == Append(path, i)
      <4>1. /\ p \in Seq(Certs) /\ p # <<>> /\ p[Len(p)] = i /\ p[1] = Leaf
            /\ Len(p) = Len(path) + 1
            /\ \A j \in 1 .. Len(path) : p[j] = path[j]
        BY <3>1 DEF IInv, Chain
      <4>2. MayIssue[i] /\ Len(path) - 1 <= PathLen[i] /\ Signs(i, path[Len(path)])
        BY <3>4 DEF IssuerOK, Below, Top
      <4>3. \A j \in 1 .. Len(p) - 1 :
               /\ p[j + 1] \in Entries /\ Signs(p[j + 1], p[j])
               /\ MayIssue[p[j + 1]] /\ j - 1 <= PathLen[p[j + 1]]
        <5> SUFFICES ASSUME NEW j \in 1 .. Len(p) - 1
                     PROVE  /\ p[j + 1] \in Entries /\ Signs(p[j + 1], p[j])
                            /\ MayIssue[p[j + 1]] /\ j - 1 <= PathLen[p[j + 1]]
          OBVIOUS
        <5>1. CASE j = Len(path)
          BY <5>1, <3>1, <4>1, <4>2 DEF IInv, Chain
        <5>2. CASE j < Len(path)
          <6>1. p[j] = path[j] /\ p[j + 1] = path[j + 1] /\ j \in 1 .. Len(path) - 1
            BY <5>2, <4>1 DEF IInv, Chain
          <6> QED
            BY <6>1 DEF IInv, Chain
        <5> QED
          BY <5>1, <5>2, <4>1 DEF IInv, Chain
      <4>4. ASSUME path' = p, UNCHANGED store PROVE Chain'
        <5>1. store' \in Seq(Certs) /\ Entries' = Entries
          BY <4>4 DEF IInv, Chain, Entries
        <5> HIDE DEF p
        <5> QED
          BY <5>1, <4>1, <4>3, <4>4 DEF Chain, Signs
      <4>5. CASE IsAnchor(i)
        <5>1. Complete(p)
          BY <1>2, <2>3, <3>4, <4>5 DEF Climb
        <5>2. path' = p /\ UNCHANGED store
          BY <5>1 DEF Complete, inputs
        <5> QED
          BY <5>1, <5>2, <2>1, <4>1, <4>4, <4>5, CompleteIInv
      <4>6. CASE ~IsAnchor(i)
        <5>1. path' = p /\ UNCHANGED <<inputs, step, facts, storeState, policy, flags, status>>
          BY <1>2, <2>3, <3>4, <4>6 DEF Climb
        <5>2. Chain'
          BY <5>1, <4>4 DEF inputs
        <5>3. status # "valid"
          BY <2>1 DEF IInv, Judged
        <5>4. Drawn' /\ Judged'
          BY <5>1, <5>3, <2>1 DEF IInv, Drawn, Judged, Past, Judging
        <5> QED
          BY <5>2, <5>4 DEF IInv
      <4> QED
        BY <4>5, <4>6
    <3> QED
      BY <3>2, <3>3, <3>4
  <2> QED
    BY <2>2, <2>3
<1> QED
  BY <1>1, <1>2

\* A judgement leaves the chain and what was drawn alone, and only adds flags.
LEMMA JudgeKeeps ==
    ASSUME IInv, NEW from \in Judging, NEW to \in Judging, NEW raised \in SUBSET Flags,
           Judge(from, to, raised)
    PROVE  /\ Chain' /\ Drawn' /\ status' # "valid" /\ flags' \subseteq Flags
           /\ flags' = flags \cup raised /\ step = from /\ step' = to
           /\ UNCHANGED <<path, facts, storeState, policy>>
<1>1. /\ UNCHANGED <<store, bare, path, facts, storeState, policy, status>>
      /\ step = from /\ step' = to /\ flags' = flags \cup raised
  BY DEF Judge, inputs, found
<1>2. status # "valid"
  BY <1>1 DEF IInv, Judged, Judging
<1>3. Chain'
  BY <1>1 DEF IInv, Chain, Entries
<1>4. Drawn'
  BY <1>1, <1>2 DEF IInv, Drawn, Nodes, IsAnchor, Entries
<1> QED
  BY <1>1, <1>2, <1>3, <1>4 DEF IInv, Judged

\* The judgements, one after another.
LEMMA JudgeIInv ==
    IInv /\ (CheckTimes \/ CheckRevocation \/ CheckStore \/ CheckPolicy) => IInv'
<1> SUFFICES ASSUME IInv, CheckTimes \/ CheckRevocation \/ CheckStore \/ CheckPolicy
             PROVE  IInv'
  OBVIOUS
<1>1. CASE CheckTimes
  <2> DEFINE raised == Of(\E i \in Nodes : facts[i].time = "expired", "expired")
                       \cup Of(\E i \in Nodes : facts[i].time = "early", "hardInvalid")
  <2>1. raised \in SUBSET Flags
    BY DEF Of, Flags
  <2>2. Judge("times", "revocation", raised)
    BY <1>1 DEF CheckTimes
  <2> HIDE DEF raised
  <2>3. /\ Chain' /\ Drawn' /\ status' # "valid" /\ flags' \subseteq Flags
        /\ flags' = flags \cup raised /\ step = "times" /\ step' = "revocation"
        /\ UNCHANGED <<path, facts, storeState, policy>>
    BY <2>1, <2>2, JudgeKeeps DEF Judging
  <2>4. facts \in [Nodes -> NodeFacts]
    BY <2>3 DEF IInv, Drawn, Judging
  <2>5. raised = {} => \A i \in Nodes : facts[i].time = "good"
    BY <2>4 DEF raised, Of, NodeFacts
  <2> QED
    BY <2>3, <2>5 DEF IInv, Judged, Past, Nodes
<1>2. CASE CheckRevocation
  <2> DEFINE raised ==
                Of(\E i \in Nodes \cap Revocable : Revocation(facts[i].crls) = "revoked", "revoked")
                \cup Of(\E i \in Nodes \cap Revocable :
                           Revocation(facts[i].crls) = "undecided", "cannotAssert")
  <2>1. raised \in SUBSET Flags
    BY DEF Of, Flags
  <2>2. Judge("revocation", "store", raised)
    BY <1>2 DEF CheckRevocation
  <2>3. \A crls : Revocation(crls) \in {"undecided", "revoked", "good"}
    BY DEF Revocation
  <2>4. Nodes \cap Revocable = 1 .. Len(path) - 1
    BY DEF Nodes, Revocable, IInv, Chain
  <2>5. raised = {} => \A i \in 1 .. Len(path) - 1 : Revocation(facts[i].crls) = "good"
    BY <2>3, <2>4 DEF Of
  <2> HIDE DEF raised
  <2>6. /\ Chain' /\ Drawn' /\ status' # "valid" /\ flags' \subseteq Flags
        /\ flags' = flags \cup raised /\ step = "revocation" /\ step' = "store"
        /\ UNCHANGED <<path, facts, storeState, policy>>
    BY <2>1, <2>2, JudgeKeeps DEF Judging
  <2> QED
    BY <2>5, <2>6 DEF IInv, Judged, Past, Nodes
<1>3. CASE CheckStore
  <2> DEFINE raised == Of(storeState # "ok", "cannotAssert")
  <2>1. raised \in SUBSET Flags /\ (raised = {} => storeState = "ok")
    BY DEF Of, Flags
  <2>2. Judge("store", "policy", raised)
    BY <1>3 DEF CheckStore
  <2> HIDE DEF raised
  <2>3. /\ Chain' /\ Drawn' /\ status' # "valid" /\ flags' \subseteq Flags
        /\ flags' = flags \cup raised /\ step = "store" /\ step' = "policy"
        /\ UNCHANGED <<path, facts, storeState, policy>>
    BY <2>1, <2>2, JudgeKeeps DEF Judging
  <2> QED
    BY <2>1, <2>3 DEF IInv, Judged, Past, Nodes
<1>4. CASE CheckPolicy
  <2> DEFINE raised == Of(policy = "unfilled", "cannotAssert") \cup Of(policy = "unmet", "hardInvalid")
  <2>1. raised \in SUBSET Flags /\ (raised = {} => policy = "met")
    BY DEF Of, Flags, IInv, Drawn
  <2>2. Judge("policy", "decide", raised)
    BY <1>4 DEF CheckPolicy
  <2> HIDE DEF raised
  <2>3. /\ Chain' /\ Drawn' /\ status' # "valid" /\ flags' \subseteq Flags
        /\ flags' = flags \cup raised /\ step = "policy" /\ step' = "decide"
        /\ UNCHANGED <<path, facts, storeState, policy>>
    BY <2>1, <2>2, JudgeKeeps DEF Judging
  <2> QED
    BY <2>1, <2>3 DEF IInv, Judged, Past, Nodes
<1> QED
  BY <1>1, <1>2, <1>3, <1>4

\* VALID is what is left when no flag was raised.
LEMMA DecideIInv == IInv /\ Decide => IInv'
<1> SUFFICES ASSUME IInv, Decide PROVE IInv'
  OBVIOUS
<1>1. step = "decide" /\ Finish(Verdict)
  BY DEF Decide
<1>2. Verdict = "valid" => flags = {}
  BY DEF Verdict, IInv, Judged, Flags
<1>3. CASE Verdict # "valid"
  BY <1>1, <1>3, FinishIInv
<1>4. CASE Verdict = "valid"
  <2>1. /\ UNCHANGED <<store, bare, path, facts, storeState, policy, flags>>
        /\ step' = "done" /\ status' = "valid"
    BY <1>1, <1>4 DEF Finish, inputs, found
  <2>2. Chain'
    BY <2>1 DEF IInv, Chain, Entries
  <2>3. Drawn'
    BY <1>1, <2>1 DEF IInv, Drawn, Judging, Nodes, IsAnchor, Entries
  <2>4. Judged'
    BY <1>1, <1>2, <1>4, <2>1 DEF IInv, Judged, Past, Nodes
  <2> QED
    BY <2>2, <2>3, <2>4 DEF IInv
<1> QED
  BY <1>3, <1>4

LEMMA StepIInv == IInv /\ [Next]_vars => IInv'
<1> SUFFICES ASSUME IInv, [Next]_vars PROVE IInv'
  OBVIOUS
<1>1. CASE UNCHANGED vars
  BY <1>1 DEF vars, inputs, found, IInv, Chain, Drawn, Judged, Past, Nodes, IsAnchor, Entries
<1> QED
  BY <1>1, ClimbIInv, JudgeIInv, DecideIInv DEF Next

LEMMA IInvJustifies == IInv => ValidIsJustified
<1> SUFFICES ASSUME IInv, status = "valid"
             PROVE  /\ TrueChain(path)
                    /\ \A i \in Nodes : facts[i].time = "good"
                    /\ \A i \in 1 .. Len(path) - 1 :
                          \E n \in DOMAIN facts[i].crls :
                             /\ facts[i].crls[n] = "clean"
                             /\ \A k \in 1 .. n - 1 : facts[i].crls[k] = "absent"
                    /\ storeState = "ok" /\ policy = "met"
  BY DEF ValidIsJustified
<1>1. TrueChain(path)
  BY DEF IInv, Chain, Drawn, TrueChain
<1>2. flags = {} /\ Past({}) /\ Past({"policy"}) /\ Past({"store", "policy"})
      /\ Past({"revocation", "store", "policy"})
  BY DEF IInv, Judged, Past
<1>3. (\A i \in Nodes : facts[i].time = "good") /\ storeState = "ok" /\ policy = "met"
  BY <1>2 DEF IInv, Judged
<1>4. ASSUME NEW i \in 1 .. Len(path) - 1
      PROVE  \E n \in DOMAIN facts[i].crls :
                /\ facts[i].crls[n] = "clean"
                /\ \A k \in 1 .. n - 1 : facts[i].crls[k] = "absent"
  <2>1. Revocation(facts[i].crls) = "good"
    BY <1>2 DEF IInv, Judged
  <2>2. facts[i] \in NodeFacts
    <3>1. facts \in [Nodes -> NodeFacts]
      BY DEF IInv, Drawn
    <3>2. i \in Nodes
      BY DEF IInv, Chain, Nodes
    <3> QED
      BY <3>1, <3>2
  <2>3. facts[i].crls \in Seq(Crls)
    <3>1. <<"clean">> \in Seq(Crls)
      BY DEF Crls
    <3> QED
      BY <2>2, <3>1, ValidatorAssumption DEF NodeFacts
  <2> QED
    BY <2>1, <2>3, GoodIsCleared
<1> QED
  BY <1>1, <1>3, <1>4

(***************************************************************************)
(* The path is a chain, and every judgement passed stands, in all states   *)
(* of validate().                                                          *)
(***************************************************************************)
THEOREM ValidatorInductive == Spec => []IInv
  BY StepIInv, InitIInv, PTL DEF Spec

(***************************************************************************)
(* VALID is given only for a true chain to an anchor of a signed and fresh *)
(* store, every certificate in its time and cleared by the first CRL that  *)
(* was had, under a filled Appendix II: for any certificates, any store,   *)
(* any depth and any answers (validator.py:166-304).                       *)
(***************************************************************************)
THEOREM ValidIsAlwaysJustified == Spec => []ValidIsJustified
  BY ValidatorInductive, IInvJustifies, PTL

-----------------------------------------------------------------------------
(* The climb *)

\* The certificates that have a candidate issuer, and the one each of them is led to.
Led == {c \in Certs : Candidates(c) # {}}
Lead == [c \in Certs |-> store[First(Candidates(c))]]

\* The path is where the store alone leads, one certificate at a time, none twice.
Walk ==
    /\ Len(path) <= MaxDepth + 1
    /\ \A i, j \in Nodes : path[i] = path[j] => i = j
    /\ \A i \in 1 .. Len(path) - 1 : path[i] \in Led /\ path[i + 1] = Lead[path[i]]

\* While it climbs it has met no anchor; past the climb its facts are drawn.
Ending ==
    /\ step = "climb" => facts = <<>>
    /\ step = "climb" /\ path # <<Leaf>> => \A i \in Nodes : ~IsAnchor(path[i])
    /\ step \in Judging => facts # <<>>
    /\ facts # <<>> => facts \in [Nodes -> NodeFacts]
    /\ status \in Statuses
    /\ UniqueChainIsFound

VInv == IInv /\ Walk /\ Ending

\* Each certificate of s is an entry that signs the one before it.
Links(s) == \A i \in 1 .. Len(s) - 1 : s[i + 1] \in Entries /\ Signs(s[i + 1], s[i])

LEMMA PathLinks == IInv => Links(path)
  BY DEF IInv, Chain, Links

\* A chain that could be built is a sequence of certificates from the signer's to an anchor.
LEMMA ChainShape ==
    ASSUME store \in Seq(Certs), NEW p \in Chains
    PROVE  /\ p \in Seq(Certs) /\ Len(p) \in 1 .. MaxDepth + 1
           /\ p[1] = Leaf /\ IsAnchor(p[Len(p)]) /\ Links(p)
           /\ \A i \in 1 .. Len(p) - 1 :
                 MayIssue[p[i + 1]] /\ i - 1 <= PathLen[p[i + 1]]
<1>1. PICK n \in 1 .. MaxDepth + 1 : p \in [1 .. n -> Entries \cup {Leaf}]
  BY DEF Chains
<1>2. Entries \cup {Leaf} \subseteq Certs
  BY ValidatorAssumption DEF Entries
<1>3. p \in [1 .. n -> Certs] /\ n \in Nat
  BY <1>1, <1>2
<1>4. p \in Seq(Certs) /\ Len(p) = n
  BY <1>3
<1>5. TrueChain(p)
  BY DEF Chains
<1> QED
  BY <1>4, <1>5 DEF TrueChain, Links

\* In a store without two certificates of one name, the climb is led to the issuer.
LEMMA OneCandidate ==
    ASSUME store \in Seq(Certs), ~Ambiguous, NEW c, NEW e \in Entries, Signs(e, c)
    PROVE  Candidates(c) # {} /\ store[First(Candidates(c))] = e
<1>1. PICK k \in DOMAIN store : store[k] = e
  BY DEF Entries
<1>2. k \in ByName(c) /\ SignedBy[c] = Key[store[k]]
  BY <1>1 DEF ByName, Signs
<1>3. \A j \in ByName(c) : j = k
  BY <1>1, <1>2 DEF ByName, Ambiguous
<1>4. Candidates(c) = {k}
  <2>1. CASE WithIds(c, k)
    BY <1>2, <1>3, <2>1 DEF Candidates, Strong
  <2>2. CASE ~WithIds(c, k)
    BY <1>2, <1>3, <2>2 DEF Candidates, Strong, Weak
  <2> QED
    BY <2>1, <2>2
<1>5. First({k}) = k
  <2>1. {k} \subseteq Nat /\ {k} # {}
    BY <1>1
  <2>2. First({k}) \in {k}
    BY <2>1, FirstIsLeast
  <2> QED
    BY <2>2
<1> QED
  BY <1>1, <1>4, <1>5

\* Two entries that sign the same certificate are one.
LEMMA OneIssuer ==
    ASSUME store \in Seq(Certs), ~Ambiguous, NEW c, NEW e \in Entries, NEW f \in Entries,
           Signs(e, c), Signs(f, c)
    PROVE  e = f
  BY OneCandidate

\* So two chains from the signer's certificate agree as far as both go.
LEMMA SamePath ==
    ASSUME store \in Seq(Certs), ~Ambiguous,
           NEW a \in Seq(Certs), Links(a), NEW b \in Seq(Certs), Links(b),
           NEW n \in Nat, n <= Len(a), n <= Len(b), n > 0 => a[1] = b[1]
    PROVE  \A i \in 1 .. n : a[i] = b[i]
<1> DEFINE K == {i \in 1 .. n : a[i] # b[i]}
<1>0. Len(a) \in Nat /\ Len(b) \in Nat /\ K \subseteq Nat
  OBVIOUS
<1> SUFFICES ASSUME K # {} PROVE FALSE
  OBVIOUS
<1> DEFINE m == First(K)
<1>1. m \in K /\ \A j \in K : m <= j
  BY <1>0, FirstIsLeast
<1> HIDE DEF m
<1>2. m \in 2 .. n /\ a[m] # b[m]
  BY <1>1
<1>3. m - 1 \in 1 .. n /\ m - 1 \notin K /\ m - 1 \in 1 .. Len(a) - 1 /\ m - 1 \in 1 .. Len(b) - 1
  BY <1>0, <1>1, <1>2
<1>4. a[m - 1] = b[m - 1]
  BY <1>3
<1>5. (m - 1) + 1 = m
  BY <1>2
<1>6. a[m] \in Entries /\ Signs(a[m], a[m - 1])
  BY <1>3, <1>5 DEF Links
<1>7. b[m] \in Entries /\ Signs(b[m], b[m - 1])
  BY <1>3, <1>5 DEF Links
<1> QED
  BY <1>2, <1>4, <1>6, <1>7, OneIssuer

\* What the climb knows when it is about to give up.
GivesUp ==
    \/ Len(path) > MaxDepth \/ Candidates(Top) = {}
    \/ LET i == store[First(Candidates(Top))] IN ~Signs(i, Top) \/ ~IssuerOK(i) \/ Seen(i)

\* A climb that has met no anchor and gives up has missed no chain.
LEMMA NothingMissed ==
    ASSUME IInv, Walk, \A i \in Nodes : ~IsAnchor(path[i]), GivesUp, ~Ambiguous
    PROVE  Chains = {}
<1> SUFFICES ASSUME NEW p \in Chains PROVE FALSE
  OBVIOUS
<1>1. /\ store \in Seq(Certs) /\ path \in Seq(Certs) /\ Len(path) \in Nat \ {0}
      /\ path[1] = Leaf /\ Links(path)
  BY PathLinks DEF IInv, Chain
<1>2. /\ p \in Seq(Certs) /\ Len(p) \in 1 .. MaxDepth + 1
      /\ p[1] = Leaf /\ IsAnchor(p[Len(p)]) /\ Links(p)
      /\ \A i \in 1 .. Len(p) - 1 : MayIssue[p[i + 1]] /\ i - 1 <= PathLen[p[i + 1]]
  BY <1>1, ChainShape
<1> DEFINE l == Len(path)
           n == Len(p)
<1>3. l \in Nat \ {0} /\ n \in Nat \ {0} /\ n <= MaxDepth + 1 /\ MaxDepth \in Nat
  BY <1>1, <1>2, ValidatorAssumption
\* It goes on where the climb has stopped ...
<1>4. l < n /\ \A i \in 1 .. l : path[i] = p[i]
  <2>1. CASE n <= l
    <3>1. \A i \in 1 .. n : p[i] = path[i]
      BY <1>1, <1>2, <1>3, <2>1, SamePath
    <3>2. IsAnchor(path[n]) /\ n \in Nodes
      BY <1>2, <1>3, <2>1, <3>1 DEF Nodes
    <3> QED
      BY <3>2
  <2>2. CASE l < n
    BY <1>1, <1>2, <1>3, <2>2, SamePath
  <2> QED
    BY <1>3, <2>1, <2>2
\* ... to the only candidate, which may issue there.
<1> DEFINE e == p[l + 1]
<1>5. l \in 1 .. n - 1 /\ Top = p[l] /\ e \in Entries /\ Signs(e, Top)
  BY <1>2, <1>3, <1>4 DEF Links, Top
<1>6. Candidates(Top) # {} /\ store[First(Candidates(Top))] = e
  BY <1>1, <1>5, OneCandidate
<1>7. IssuerOK(e)
  BY <1>2, <1>3, <1>5 DEF IssuerOK, Below
<1> HIDE DEF e
<1>8. Seen(e)
  BY <1>3, <1>4, <1>5, <1>6, <1>7 DEF GivesUp
\* It is one met before, so the chain never leaves those, and none is an anchor.
<1> DEFINE K == {m \in l + 1 .. n : p[m] \notin Range(path)}
<1>9. \A m \in l + 1 .. n : p[m] \in Range(path)
  <2> SUFFICES ASSUME K # {} PROVE FALSE
    OBVIOUS
  <2>1. K \subseteq Nat
    BY <1>3
  <2> DEFINE m == First(K)
  <2>2. m \in K /\ \A j \in K : m <= j
    BY <2>1, FirstIsLeast
  <2> HIDE DEF m
  <2>3. m \in l + 2 .. n /\ p[m] \notin Range(path)
    BY <1>3, <1>8, <2>2 DEF Seen, e
  <2>4. m - 1 \in l + 1 .. n /\ m - 1 \notin K /\ m - 1 \in 1 .. n - 1 /\ (m - 1) + 1 = m
    BY <1>3, <2>2, <2>3
  <2>5. PICK q \in 1 .. l : path[q] = p[m - 1]
    <3>1. p[m - 1] \in Range(path)
      BY <2>4
    <3> QED
      BY <1>1, <3>1 DEF Range
  <2>6. p[m] \in Entries /\ Signs(p[m], p[m - 1])
    BY <1>2, <2>4 DEF Links
  <2>7. q \in 1 .. n - 1 /\ p[q + 1] \in Entries /\ Signs(p[q + 1], p[q]) /\ p[q] = p[m - 1]
    BY <1>2, <1>3, <1>4, <2>5 DEF Links
  <2>8. p[m] = p[q + 1]
    BY <1>1, <2>6, <2>7, OneIssuer
  <2>9. p[q + 1] \in Range(path)
    <3>1. CASE q = l
      BY <3>1, <1>8 DEF Seen, e
    <3>2. CASE q # l
      <4>1. q + 1 \in 1 .. l
        BY <1>3, <3>2
      <4> QED
        BY <1>1, <1>4, <4>1 DEF Range
    <3> QED
      BY <3>1, <3>2
  <2> QED
    BY <2>3, <2>8, <2>9
<1>10. p[n] \in Range(path)
  BY <1>3, <1>4, <1>9
<1>11. PICK q \in Nodes : path[q] = p[n]
  BY <1>1, <1>10 DEF Range, Nodes
<1> QED
  BY <1>2, <1>11

\* Where the store leads is a matter of the store and of its key identifiers.
LEMMA SameLead ==
    ASSUME UNCHANGED <<store, bare>>
    PROVE  Led' = Led /\ Lead' = Lead
<1>1. \A c : Candidates(c)' = Candidates(c)
  BY DEF Candidates, Strong, Weak, ByName, WithIds
<1> QED
  BY <1>1 DEF Led, Lead

\* Chains are a matter of the store alone.
LEMMA SameStore ==
    ASSUME UNCHANGED store
    PROVE  Chains' = Chains /\ Ambiguous' = Ambiguous /\ (\A c : IsAnchor(c)' = IsAnchor(c))
<1>1. Entries' = Entries
  BY DEF Entries
<1>2. \A c : IsAnchor(c)' = IsAnchor(c)
  BY <1>1 DEF IsAnchor
<1>3. \A p : TrueChain(p)' = TrueChain(p)
  BY <1>1 DEF TrueChain, IsAnchor, Signs
<1>4. Ambiguous' = Ambiguous
  BY DEF Ambiguous
<1> QED
  BY <1>1, <1>2, <1>3, <1>4 DEF Chains

LEMMA InitVInv == Init => VInv
<1> SUFFICES ASSUME Init PROVE VInv
  OBVIOUS
<1>1. IInv /\ path = <<Leaf>> /\ facts = <<>> /\ Len(path) = 1 /\ step \in {"climb", "done"}
  BY InitIInv DEF Init
<1>2. Walk
  BY <1>1, ValidatorAssumption DEF Walk, Nodes
<1>3. UniqueChainIsFound
  <2> SUFFICES ASSUME step = "done", NEW p \in Chains PROVE FALSE
    BY DEF UniqueChainIsFound
  <2>1. store = <<>>
    BY DEF Init
  <2>2. store \in Seq(Certs) /\ Entries = {}
    BY <2>1 DEF Entries
  <2>3. IsAnchor(p[Len(p)])
    BY <2>2, ChainShape
  <2> QED
    BY <2>2, <2>3 DEF IsAnchor
<1>4. Ending
  BY <1>1, <1>3 DEF Ending, Judging, Statuses, Init
<1> QED
  BY <1>1, <1>2, <1>4 DEF VInv

\* A climb that gives up.
LEMMA GiveUpWalk ==
    ASSUME VInv, step = "climb", \A i \in Nodes : ~IsAnchor(path[i]), GivesUp,
           NEW s \in Statuses, Finish(s)
    PROVE  Walk' /\ Ending'
<1>1. UNCHANGED <<store, bare, path, facts>> /\ step' = "done" /\ status' = s
  BY DEF Finish, inputs, found
<1>2. Walk'
  BY <1>1, SameLead DEF VInv, Walk, Nodes
<1>3. UniqueChainIsFound'
  BY <1>1, SameStore, NothingMissed DEF VInv, UniqueChainIsFound
<1> QED
  BY <1>1, <1>2, <1>3 DEF VInv, Ending, Nodes, Judging

\* A path that grows by the first candidate, not met before.
LEMMA GrowWalk ==
    ASSUME VInv, Len(path) <= MaxDepth, Candidates(Top) # {},
           ~Seen(store[First(Candidates(Top))]),
           path' = Append(path, store[First(Candidates(Top))]), UNCHANGED <<store, bare>>
    PROVE  Walk'
<1> DEFINE i == store[First(Candidates(Top))]
           l == Len(path)
<1>1. path \in Seq(Certs) /\ i \in Certs /\ l \in Nat \ {0} /\ MaxDepth \in Nat
  BY FirstCandidate, ValidatorAssumption DEF VInv, IInv, Chain
<1>2. /\ Len(path') = l + 1 /\ path'[l + 1] = i
      /\ \A k \in 1 .. l : path'[k] = path[k]
  BY <1>1
<1>3. \A k \in 1 .. l : path[k] # i
  BY <1>1 DEF Seen, Range
<1>4. Top \in Certs /\ Top \in Led /\ Lead[Top] = i
  BY <1>1 DEF Top, Led, Lead
<1>5. \A j, k \in 1 .. l + 1 : path'[j] = path'[k] => j = k
  BY <1>1, <1>2, <1>3 DEF VInv, Walk, Nodes
<1> HIDE DEF i
<1>6. \A k \in 1 .. l : path'[k] \in Led /\ path'[k + 1] = Lead[path'[k]]
  <2> SUFFICES ASSUME NEW k \in 1 .. l
               PROVE  path'[k] \in Led /\ path'[k + 1] = Lead[path'[k]]
    OBVIOUS
  <2>1. CASE k = l
    BY <1>1, <1>2, <1>4, <2>1 DEF Top
  <2>2. CASE k # l
    <3>1. k \in 1 .. l - 1 /\ k + 1 \in 1 .. l
      BY <1>1, <2>2
    <3> QED
      BY <1>2, <3>1 DEF VInv, Walk
  <2> QED
    BY <2>1, <2>2
<1>7. Len(path') <= MaxDepth + 1 /\ Len(path') - 1 = l
  BY <1>1, <1>2
<1> QED
  BY <1>1, <1>2, <1>5, <1>6, <1>7, SameLead DEF Walk, Nodes

\* Once the climb is complete its facts are drawn.
LEMMA CompleteEnding ==
    ASSUME VInv, step = "climb", NEW p \in Seq(Certs), p # <<>>, Complete(p)
    PROVE  Ending'
<1>1. path' = p /\ step' = "times" /\ UNCHANGED status
  BY DEF Complete
<1>2. facts' \in [1 .. Len(p) -> NodeFacts] /\ Len(p) \in Nat \ {0}
  BY DEF Complete
<1>3. facts' # <<>>
  BY <1>2
<1> QED
  BY <1>1, <1>2, <1>3 DEF VInv, Ending, Nodes, Judging, UniqueChainIsFound

LEMMA ClimbVInv == VInv /\ (LeafIsAnchor \/ Climb) => Walk' /\ Ending'
<1> SUFFICES ASSUME VInv, LeafIsAnchor \/ Climb PROVE Walk' /\ Ending'
  OBVIOUS
<1>0. path \in Seq(Certs) /\ path # <<>> /\ path[1] = Leaf /\ Len(path) \in Nat
  BY DEF VInv, IInv, Chain
<1>1. CASE LeafIsAnchor
  <2>1. Complete(path) /\ step = "climb"
    BY <1>1 DEF LeafIsAnchor
  <2>2. UNCHANGED <<store, bare, path>>
    BY <2>1 DEF Complete, inputs
  <2>3. Walk'
    BY <2>2, SameLead DEF VInv, Walk, Nodes
  <2> QED
    BY <1>0, <2>1, <2>3, CompleteEnding
<1>2. CASE Climb
  <2> DEFINE i == store[First(Candidates(Top))]
  <2>1. step = "climb" /\ ~(path = <<Leaf>> /\ IsAnchor(Leaf))
    BY <1>2 DEF Climb
  <2>2. \A k \in Nodes : ~IsAnchor(path[k])
    <3>1. CASE path = <<Leaf>>
      BY <2>1, <3>1 DEF Nodes
    <3>2. CASE path # <<Leaf>>
      BY <2>1, <3>2 DEF VInv, Ending
    <3> QED
      BY <3>1, <3>2
  <2>3. CASE Len(path) > MaxDepth \/ Candidates(Top) = {}
    <3>1. EndOfClimb /\ GivesUp
      BY <1>2, <2>3 DEF Climb, GivesUp
    <3> QED
      BY <2>1, <2>2, <3>1, GiveUpWalk DEF EndOfClimb, Statuses
  <2>4. CASE ~(Len(path) > MaxDepth \/ Candidates(Top) = {})
    <3>1. CASE ~Signs(i, Top) \/ ~IssuerOK(i)
      <4>1. Finish("invalid") /\ GivesUp
        BY <1>2, <2>4, <3>1 DEF Climb, GivesUp
      <4> QED
        BY <2>1, <2>2, <4>1, GiveUpWalk DEF Statuses
    <3>2. CASE Signs(i, Top) /\ IssuerOK(i) /\ Seen(i)
      <4>1. EndOfClimb /\ GivesUp
        BY <1>2, <2>4, <3>2 DEF Climb, GivesUp
      <4> QED
        BY <2>1, <2>2, <4>1, GiveUpWalk DEF EndOfClimb, Statuses
    <3>3. CASE Signs(i, Top) /\ IssuerOK(i) /\ ~Seen(i)
      <4>1. i \in Certs /\ Append(path, i) \in Seq(Certs) /\ Append(path, i) # <<>>
        BY <1>0, <2>4, FirstCandidate DEF VInv, IInv, Chain
      <4>2. CASE IsAnchor(i)
        <5>1. Complete(Append(path, i))
          BY <1>2, <2>4, <3>3, <4>2 DEF Climb
        <5>2. path' = Append(path, i) /\ UNCHANGED <<store, bare>>
          BY <5>1 DEF Complete, inputs
        <5>3. Walk'
          BY <1>0, <2>4, <3>3, <5>2, GrowWalk, ValidatorAssumption
        <5> QED
          BY <2>1, <4>1, <5>1, <5>3, CompleteEnding
      <4>3. CASE ~IsAnchor(i)
        <5>1. path' = Append(path, i) /\ UNCHANGED <<inputs, step, facts, status>>
          BY <1>2, <2>4, <3>3, <4>3 DEF Climb
        <5>2. UNCHANGED <<store, bare>>
          BY <5>1 DEF inputs
        <5>3. Walk'
          BY <1>0, <2>4, <3>3, <5>1, <5>2, GrowWalk, ValidatorAssumption
        <5>4. \A k \in 1 .. Len(path) + 1 : ~IsAnchor(path'[k])
          <6> HIDE DEF i
          <6>1. path'[Len(path) + 1] = i /\ \A k \in 1 .. Len(path) : path'[k] = path[k]
            BY <1>0, <4>1, <5>1
          <6> QED
            BY <1>0, <2>2, <4>3, <6>1 DEF Nodes
        <5>5. Len(path') = Len(path) + 1
          BY <1>0, <4>1, <5>1
        <5>6. \A k \in Nodes' : ~IsAnchor(path[k])'
          BY <5>2, <5>4, <5>5, SameStore DEF Nodes, IsAnchor, Entries
        <5>7. facts = <<>> /\ step' = "climb" /\ facts' = <<>> /\ status' \in Statuses
          BY <2>1, <5>1 DEF VInv, Ending
        <5> QED
          BY <5>3, <5>6, <5>7 DEF Ending, Judging, UniqueChainIsFound
      <4> QED
        BY <4>2, <4>3
    <3> QED
      BY <3>1, <3>2, <3>3
  <2> QED
    BY <2>3, <2>4
<1> QED
  BY <1>1, <1>2

\* The judgements and the decision leave path and facts alone.
LEMMA RestVInv ==
    ASSUME VInv, UNCHANGED <<store, bare, path, facts>>, status' \in Statuses,
           \/ UNCHANGED step
           \/ step \in Judging /\ step' \in Judging \cup {"done"}
    PROVE  Walk' /\ Ending'
<1>1. Walk'
  BY SameLead DEF VInv, Walk, Nodes
<1>2. UniqueChainIsFound'
  BY SameStore DEF VInv, Ending, UniqueChainIsFound
<1>3. \A k \in Nodes : IsAnchor(path[k])' = IsAnchor(path[k])
  BY DEF IsAnchor, Entries
<1> QED
  BY <1>1, <1>2, <1>3 DEF VInv, Ending, Nodes, Judging

LEMMA StepVInv == VInv /\ [Next]_vars => VInv'
<1> SUFFICES ASSUME VInv, [Next]_vars PROVE VInv'
  OBVIOUS
<1>1. IInv'
  BY StepIInv DEF VInv
<1>2. status \in Statuses /\ Verdict \in Statuses
  BY DEF VInv, Ending, Verdict, Statuses
<1>3. CASE UNCHANGED vars
  BY <1>1, <1>2, <1>3, RestVInv DEF VInv, vars, inputs, found
<1>4. CASE CheckTimes \/ CheckRevocation \/ CheckStore \/ CheckPolicy
  <2>1. /\ UNCHANGED <<store, bare, path, facts, status>>
        /\ step \in Judging /\ step' \in Judging
    BY <1>4 DEF CheckTimes, CheckRevocation, CheckStore, CheckPolicy, Judge, inputs, found, Judging
  <2> QED
    BY <1>1, <1>2, <2>1, RestVInv DEF VInv
<1>5. CASE Decide
  <2>1. /\ UNCHANGED <<store, bare, path, facts>> /\ status' = Verdict
        /\ step \in Judging /\ step' = "done"
    BY <1>5 DEF Decide, Finish, inputs, found, Judging
  <2> QED
    BY <1>1, <1>2, <2>1, RestVInv DEF VInv
<1> QED
  BY <1>1, <1>3, <1>4, <1>5, ClimbVInv DEF VInv, Next

(***************************************************************************)
(* The climb keeps to the store, meets nothing twice and gives up only     *)
(* where no chain is, in all states of validate().                         *)
(***************************************************************************)
THEOREM ClimbInductive == Spec => []VInv
  BY StepVInv, InitVInv, PTL DEF Spec

(***************************************************************************)
(* In a store without two certificates of one name, the climb misses no    *)
(* chain, though it never turns back: for any store, depth and constraints *)
(* (find_issuer 165-183, _build_chain 319-359).                            *)
(***************************************************************************)
THEOREM NoChainIsMissed == Spec => []UniqueChainIsFound
<1>1. VInv => UniqueChainIsFound
  BY DEF VInv, Ending
<1> QED
  BY <1>1, ClimbInductive, PTL

\* A sequence without repetition has as many elements as positions.
LEMMA RangeOfDistinct ==
    ASSUME NEW s \in Seq(Certs), \A i, j \in 1 .. Len(s) : s[i] = s[j] => i = j
    PROVE  Cardinality(Range(s)) = Len(s)
<1> DEFINE n == Len(s)
<1>1. n \in Nat /\ DOMAIN s = 1 .. n /\ s \in [1 .. n -> Range(s)]
  BY DEF Range
<1>2. IsFiniteSet(1 .. n) /\ Cardinality(1 .. n) = n
  BY <1>1, FS_Interval
<1>3. s \in Bijection(1 .. n, Range(s))
  BY <1>1 DEF Bijection, Injection, Surjection, IsInjective, Range
<1>4. ExistsBijection(1 .. n, Range(s))
  BY <1>3 DEF ExistsBijection
<1> QED
  BY <1>2, <1>4, FS_Bijection

LEMMA VInvTypes == VInv => TypeOK
<1> SUFFICES ASSUME VInv PROVE TypeOK
  OBVIOUS
<1>1. path \in Seq(Certs) /\ path[1] = Leaf /\ Len(path) <= MaxDepth + 1
  BY DEF VInv, IInv, Chain, Walk
<1>2. Cardinality(Range(path)) = Len(path)
  BY <1>1, RangeOfDistinct DEF VInv, Walk, Nodes
<1>3. /\ facts # <<>> => facts \in [1 .. Len(path) -> NodeFacts]
      /\ flags \subseteq {"hardInvalid", "revoked", "expired", "cannotAssert"}
      /\ status \in Statuses
  BY DEF VInv, IInv, Judged, Ending, Nodes, Flags
<1> QED
  BY <1>1, <1>2, <1>3 DEF TypeOK

-----------------------------------------------------------------------------
(* The signer *)

\* Past the first phase the validator has said VALID, unless the request was refused.
Admitted ==
    /\ phase \in {"choose", "sign", "assemble", "persist"} \/ signature # NoSignature =>
          step = "done" /\ status = "valid"
    /\ phase # "done" => result = Waiting
    /\ phase \in {"validate", "choose", "sign"} => signature = NoSignature

\* a is the first of Appendix I that fits the key and the mechanisms.
Ranked(x, k, mechs, a) ==
    /\ x.filled /\ a \in Algs
    /\ \E n \in DOMAIN x.allowed :
          /\ x.allowed[n] = a /\ Fits(a, x, k, mechs)
          /\ \A m \in 1 .. n - 1 : x.allowed[m] \in Algs => ~Fits(x.allowed[m], x, k, mechs)

Selected ==
    phase \in {"sign", "assemble", "persist"} \/ signature # NoSignature =>
        /\ Ranked(appendix, key, Head(sessions), alg)
        /\ Len(sessions) \in Nat \ {0} /\ sessions \in Seq(TokenMechs)

Made ==
    phase \in {"assemble", "persist"} \/ signature # NoSignature =>
        signature.by \in Of2(alg) \cap Last(sessions)

SInv == IInv /\ Admitted /\ Selected /\ Made /\ RecordIsTrue

-----------------------------------------------------------------------------
\* The choice is the first entry of Appendix I that fits.
LEMMA ChoiceIsRanked ==
    ASSUME NEW x \in Appendices, NEW k, NEW mechs, Choose(x, k, mechs) # NoAlg
    PROVE  /\ Ranked(x, k, mechs, Choose(x, k, mechs))
           /\ Permitted(x) # {}
<1> DEFINE fits == {n \in Permitted(x) : Fits(x.allowed[n], x, k, mechs)}
<1>1. x.allowed \in Seq(STRING) /\ DOMAIN x.allowed = 1 .. Len(x.allowed) /\ Len(x.allowed) \in Nat
  BY SignerAssumption
<1>2. fits # {} /\ Choose(x, k, mechs) = x.allowed[First(fits)]
  BY DEF Choose
<1>3. fits \subseteq Permitted(x) /\ Permitted(x) \subseteq DOMAIN x.allowed /\ fits \subseteq Nat
  BY <1>1 DEF Permitted
<1>4. \A n \in DOMAIN x.allowed :
         n \in fits <=> x.filled /\ x.allowed[n] \in Algs /\ Fits(x.allowed[n], x, k, mechs)
  BY DEF Permitted
<1> HIDE DEF fits
<1>5. First(fits) \in fits /\ \A j \in fits : First(fits) <= j
  BY <1>2, <1>3, FirstIsLeast
<1> DEFINE n == First(fits)
<1>6. n \in DOMAIN x.allowed /\ n \in Nat
  BY <1>3, <1>5
<1>7. \A m \in 1 .. n - 1 : m \in DOMAIN x.allowed /\ m \notin fits
  <2> TAKE m \in 1 .. n - 1
  <2>1. m \in Nat /\ m < n /\ m \in DOMAIN x.allowed
    BY <1>1, <1>6
  <2> QED
    BY <1>5, <1>6, <2>1
<1>8. x.filled /\ x.allowed[n] \in Algs /\ Fits(x.allowed[n], x, k, mechs)
  BY <1>4, <1>5, <1>6
<1>9. \A m \in 1 .. n - 1 : x.allowed[m] \in Algs => ~Fits(x.allowed[m], x, k, mechs)
  BY <1>4, <1>7, <1>8
<1> HIDE DEF n
<1>10. Choose(x, k, mechs) = x.allowed[n]
  BY <1>2 DEF n
<1> QED
  BY <1>2, <1>3, <1>6, <1>8, <1>9, <1>10 DEF Ranked

LEMMA RestIsTrue == result.answer # "ok" => RecordIsTrue
  BY DEF RecordIsTrue

LEMMA RefusalEnds ==
    ASSUME NEW reason, reason # "ok", Refused(reason)
    PROVE  phase' = "done" /\ result'.answer # "ok"
<1>1. phase' = "done" /\ result' = [answer |-> reason]
  BY DEF Refused, Answer
<1> QED
  BY <1>1

LEMMA InitSInv == SignInit => SInv
<1> SUFFICES ASSUME SignInit PROVE SInv
  OBVIOUS
<1>1. IInv /\ phase = "validate" /\ signature = NoSignature /\ result = Waiting
  BY InitIInv DEF SignInit
<1> QED
  BY <1>1 DEF SInv, Admitted, Selected, Made, RecordIsTrue, Waiting

\* The validator's turn: the signer waits, and once it is done it stays done.
LEMMA ValidatorStep == SInv /\ Next /\ UNCHANGED signing => SInv'
<1> SUFFICES ASSUME SInv, Next, UNCHANGED signing PROVE SInv'
  OBVIOUS
<1>1. step # "done"
  BY DEF Next, LeafIsAnchor, Climb, CheckTimes, CheckRevocation, CheckStore, CheckPolicy,
         Judge, Decide
<1>2. phase \notin {"choose", "sign", "assemble", "persist"} /\ signature = NoSignature
  BY <1>1 DEF SInv, Admitted
<1>3. Admitted' /\ Selected' /\ Made' /\ RecordIsTrue'
  BY <1>2 DEF SInv, Admitted, Selected, Made, RecordIsTrue, signing
<1> QED
  BY <1>3, StepIInv DEF SInv

LEMMA StartSInv == SInv /\ StartSigning => SInv'
<1> SUFFICES ASSUME SInv, StartSigning PROVE SInv'
  OBVIOUS
<1>1. /\ UNCHANGED <<step, status, signature, alg, sessions, appendix, key, document>>
      /\ UNCHANGED vars /\ step = "done" /\ phase = "validate"
  BY DEF StartSigning, vars
<1>2. signature = NoSignature \/ status = "valid"
  BY DEF SInv, Admitted
<1>3. \/ phase' = "done" /\ result'.answer # "ok"
      \/ phase' = "choose" /\ result' = result /\ status = "valid"
  <2>1. \/ Refused("not allowed") \/ Refused("format unavailable") \/ Refused("signer error")
        \/ phase' = "choose" /\ result' = result /\ status = "valid"
    BY DEF StartSigning
  <2> QED
    BY <2>1, RefusalEnds
<1>4. IInv'
  BY <1>1, StepIInv DEF SInv
<1>5. Selected' /\ Made'
  BY <1>1, <1>3 DEF SInv, Selected, Made
<1>6. RecordIsTrue'
  BY <1>3, <1>1 DEF SInv, Admitted, RecordIsTrue, Waiting
<1> QED
  BY <1>1, <1>3, <1>4, <1>5, <1>6 DEF SInv, Admitted

LEMMA ChooseSInv == SInv /\ ChooseAlgorithm => SInv'
<1> SUFFICES ASSUME SInv, ChooseAlgorithm PROVE SInv'
  OBVIOUS
<1>1. PICK x \in Appendices, k \in Keys, mechs \in TokenMechs :
         /\ appendix' = x /\ key' = k
         /\ sessions' = IF Permitted(x) = {} THEN <<>> ELSE <<mechs>>
         /\ alg' = Choose(x, k, mechs)
         /\ IF alg' = NoAlg THEN Refused("mechanism unavailable")
            ELSE phase' = "sign" /\ UNCHANGED result
  BY DEF ChooseAlgorithm
<1>2. /\ UNCHANGED <<step, status, signature>> /\ UNCHANGED vars /\ phase = "choose"
  BY DEF ChooseAlgorithm, vars
<1>3. signature = NoSignature /\ step = "done" /\ status = "valid" /\ result = Waiting
  BY <1>2 DEF SInv, Admitted
<1>4. IInv'
  BY <1>2, StepIInv DEF SInv
<1>5. CASE alg' = NoAlg
  <2>1. phase' = "done" /\ result'.answer # "ok"
    BY <1>1, <1>5, RefusalEnds
  <2> QED
    BY <1>2, <1>3, <1>4, <2>1 DEF SInv, Admitted, Selected, Made, RecordIsTrue
<1>6. CASE alg' # NoAlg
  <2>1. phase' = "sign" /\ result' = result /\ signature' = NoSignature
    BY <1>1, <1>2, <1>3, <1>6
  <2>2. Ranked(x, k, mechs, alg') /\ Permitted(x) # {}
    BY <1>1, <1>6, ChoiceIsRanked
  <2>3. sessions' = <<mechs>>
    BY <1>1, <2>2
  <2>4. Head(sessions') = mechs /\ Len(sessions') = 1 /\ sessions' \in Seq(TokenMechs)
    BY <2>3
  <2>5. Selected'
    <3>1. Ranked(appendix', key', Head(sessions'), alg')
      BY <1>1, <2>2, <2>4, Zenon
    <3> QED
      BY <2>4, <3>1 DEF Selected, Ranked, Fits, LongEnough
  <2>6. Admitted' /\ Made' /\ RecordIsTrue'
    BY <1>2, <1>3, <2>1 DEF Admitted, Made, RecordIsTrue, Waiting
  <2> QED
    BY <1>4, <2>5, <2>6 DEF SInv
<1> QED
  BY <1>5, <1>6

\* Another session leaves the choice made in the first.
LEMMA SessionKeeps ==
    ASSUME SInv, phase = "sign", NEW mechs \in TokenMechs, sessions' = Append(sessions, mechs),
           UNCHANGED <<appendix, key, alg>>
    PROVE  /\ Selected' /\ alg \in Algs
           /\ Last(sessions') = mechs
<1>1. /\ Ranked(appendix, key, Head(sessions), alg)
      /\ Len(sessions) \in Nat \ {0} /\ sessions \in Seq(TokenMechs)
  BY DEF SInv, Selected
<1>2. /\ Len(sessions') = Len(sessions) + 1 /\ sessions' \in Seq(TokenMechs)
      /\ sessions'[Len(sessions')] = mechs /\ Head(sessions') = Head(sessions)
  BY <1>1
<1>3. Ranked(appendix, key, Head(sessions), alg)'
  BY <1>1, <1>2 DEF Ranked, Fits, LongEnough
<1>4. Selected'
  BY <1>1, <1>2, <1>3 DEF Selected
<1> QED
  BY <1>1, <1>2, <1>4 DEF Ranked, Last

LEMMA SignedBy2 == \A mech, data : Signed(mech, data).by = mech
  BY DEF Signed

LEMMA SignSInv == SInv /\ SignOnToken => SInv'
<1> SUFFICES ASSUME SInv, SignOnToken PROVE SInv'
  OBVIOUS
<1>1. PICK mechs \in TokenMechs :
         /\ sessions' = Append(sessions, mechs)
         /\ \/ \E mech \in Of2(alg) \cap mechs : \E data :
                  /\ signature' = Signed(mech, data)
                  /\ phase' = "assemble" /\ UNCHANGED result
            \/ Refused("mechanism unavailable") /\ UNCHANGED signature
  BY DEF SignOnToken, Of2
<1>2. /\ UNCHANGED <<appendix, key, alg, step, status>> /\ UNCHANGED vars /\ phase = "sign"
  BY DEF SignOnToken, vars
<1>3. signature = NoSignature /\ step = "done" /\ status = "valid" /\ result = Waiting
  BY <1>2 DEF SInv, Admitted
<1>4. IInv'
  BY <1>2, StepIInv DEF SInv
<1>5. Selected' /\ Last(sessions') = mechs
  BY <1>1, <1>2, SessionKeeps
<1>6. CASE Refused("mechanism unavailable") /\ UNCHANGED signature
  <2>1. phase' = "done" /\ result'.answer # "ok" /\ signature' = NoSignature
    BY <1>3, <1>6, RefusalEnds
  <2> QED
    BY <1>4, <1>5, <2>1 DEF SInv, Admitted, Made, RecordIsTrue
<1>7. ASSUME NEW mech \in Of2(alg) \cap mechs, NEW data,
             signature' = Signed(mech, data), phase' = "assemble", UNCHANGED result
      PROVE  SInv'
  <2>1. signature'.by = mech
    BY <1>7, SignedBy2
  <2>2. Made'
    BY <1>2, <1>5, <2>1 DEF Made, Of2
  <2>3. Admitted' /\ RecordIsTrue'
    BY <1>2, <1>3, <1>7 DEF Admitted, RecordIsTrue, Waiting
  <2> QED
    BY <1>4, <1>5, <2>2, <2>3 DEF SInv
<1> QED
  BY <1>1, <1>6, <1>7

LEMMA RefuseSInv == SInv /\ TokenRefuses => SInv'
<1> SUFFICES ASSUME SInv, TokenRefuses PROVE SInv'
  OBVIOUS
<1>1. /\ UNCHANGED <<appendix, key, alg, step, status, signature>> /\ UNCHANGED vars
      /\ phase = "sign" /\ Refused("error")
  BY DEF TokenRefuses, vars
<1>2. signature = NoSignature
  BY <1>1 DEF SInv, Admitted
<1>3. phase' = "done" /\ result'.answer # "ok" /\ signature' = NoSignature
  BY <1>1, <1>2, RefusalEnds
<1>4. IInv'
  BY <1>1, StepIInv DEF SInv
<1> QED
  BY <1>3, <1>4 DEF SInv, Admitted, Selected, Made, RecordIsTrue

\* Assembling changes the document only; what it answers is its document.
LEMMA AssembleSInv == SInv /\ Assemble => SInv'
<1> SUFFICES ASSUME SInv, Assemble PROVE SInv'
  OBVIOUS
<1>1. /\ UNCHANGED <<request, appendix, key, alg, sessions, step, status, signature>>
      /\ UNCHANGED vars /\ phase = "assemble"
  BY DEF Assemble, vars
<1>2. step = "done" /\ status = "valid" /\ result = Waiting
  BY <1>1 DEF SInv, Admitted
<1>3. IInv'
  BY <1>1, StepIInv DEF SInv
<1>4. \/ request.entry = "sign" /\ phase' = "persist" /\ result' = result
      \/ /\ request.entry # "sign" /\ phase' = "done"
         /\ result' = [answer |-> "ok", document |-> document']
  BY DEF Assemble, Answer
<1>5. Selected' /\ Made'
  BY <1>1, <1>4 DEF SInv, Selected, Made, Ranked, Fits, LongEnough
<1>6. Admitted'
  BY <1>1, <1>2, <1>4 DEF Admitted
<1>7. RecordIsTrue'
  BY <1>1, <1>2, <1>4 DEF RecordIsTrue, Waiting
<1> QED
  BY <1>3, <1>5, <1>6, <1>7 DEF SInv

LEMMA PersistSInv == SInv /\ Persist => SInv'
<1> SUFFICES ASSUME SInv, Persist PROVE SInv'
  OBVIOUS
<1>1. /\ UNCHANGED <<request, appendix, key, alg, sessions, step, status, signature, document>>
      /\ UNCHANGED vars /\ phase = "persist"
  BY DEF Persist, vars
<1>2. step = "done" /\ status = "valid"
  BY <1>1 DEF SInv, Admitted
<1>3. IInv'
  BY <1>1, StepIInv DEF SInv
<1> DEFINE record == [mechanism |-> Registry[alg].hashIn, timestamped |-> StampReported]
<1>4. PICK written \in BOOLEAN :
         /\ phase' = "done"
         /\ result' = [answer |-> "ok", document |-> document, algorithm |-> alg,
                       says |-> record, record |-> IF written THEN record ELSE <<>>]
  BY DEF Persist, Answer
<1>5. record.mechanism \in Of2(alg) /\ record.timestamped = document.stamped
  BY DEF Of2, StampReported
<1>6. signature.by \in Of2(alg)
  BY <1>1 DEF SInv, Made
<1>7. Selected' /\ Made' /\ Admitted'
  BY <1>1, <1>2, <1>4 DEF SInv, Selected, Made, Admitted, Ranked, Fits, LongEnough
<1>8. RecordIsTrue'
  <2> HIDE DEF record
  <2> QED
    BY <1>1, <1>4, <1>5, <1>6 DEF RecordIsTrue, Of2
<1> QED
  BY <1>3, <1>7, <1>8 DEF SInv

LEMMA StepSInv == SInv /\ [SignNext]_signVars => SInv'
<1> SUFFICES ASSUME SInv, [SignNext]_signVars PROVE SInv'
  OBVIOUS
<1>1. CASE UNCHANGED signVars
  <2>1. UNCHANGED vars /\ UNCHANGED signing /\ UNCHANGED <<step, status>>
    BY <1>1 DEF signVars, vars
  <2>2. IInv'
    BY <2>1, StepIInv DEF SInv
  <2> QED
    BY <2>1, <2>2 DEF SInv, signing, Admitted, Selected, Made, RecordIsTrue, Ranked, Fits,
                      LongEnough
<1> QED
  BY <1>1, ValidatorStep, StartSInv, ChooseSInv, SignSInv, RefuseSInv, AssembleSInv,
     PersistSInv DEF SignNext

-----------------------------------------------------------------------------
(***************************************************************************)
(* The signer's invariant: the validator's own, and what each phase leaves *)
(* for the next.                                                           *)
(***************************************************************************)
THEOREM SignerInductive == SignSpec => []SInv
  BY StepSInv, InitSInv, PTL DEF SignSpec

(***************************************************************************)
(* VALID stays justified while the signer works on it (validator.py:10-15, *)
(* signer.py:145-160).                                                     *)
(***************************************************************************)
THEOREM SigningKeepsValid == SignSpec => []ValidIsJustified
  BY SignerInductive, IInvJustifies, PTL DEF SInv

(***************************************************************************)
(* The token signs only for a certificate found VALID, by the first        *)
(* algorithm of Appendix I that fits the key and what the token offered,   *)
(* and by a mechanism it still offers (signer.py:11-19, 316-327).          *)
(***************************************************************************)
THEOREM SigningIsAllowed == SignSpec => []SignedAsAllowed
<1>1. SInv => SignedAsAllowed
  <2> SUFFICES ASSUME SInv, signature # NoSignature PROVE SignedAsAllowed
    BY DEF SignedAsAllowed
  <2>1. status = "valid" /\ signature.by \in Of2(alg) \cap Last(sessions)
    BY DEF SInv, Admitted, Made
  <2>2. appendix.filled /\ alg \in Algs
    BY DEF SInv, Selected, Ranked
  <2>3. PICK n \in DOMAIN appendix.allowed :
           /\ appendix.allowed[n] = alg /\ Fits(alg, appendix, key, Head(sessions))
           /\ \A m \in 1 .. n - 1 :
                 appendix.allowed[m] \in Algs =>
                    ~Fits(appendix.allowed[m], appendix, key, Head(sessions))
    BY DEF SInv, Selected, Ranked
  <2>4. Registry[alg].family = key.family /\ key.bits >= appendix.min[key.family]
    BY <2>3 DEF Fits, LongEnough
  <2> QED
    BY <2>1, <2>2, <2>3, <2>4 DEF SignedAsAllowed, Fits, LongEnough
<1> QED
  BY <1>1, SignerInductive, PTL

(***************************************************************************)
(* What the caller is told, and what is put on record, is what happened    *)
(* (signer.py:215-238, 481-505).                                           *)
(***************************************************************************)
THEOREM RecordsAreTrue == SignSpec => []RecordIsTrue
  BY SignerInductive, PTL DEF SInv

-----------------------------------------------------------------------------
(* The chain in the document *)

\* The recursion of Rounds has a solution, so Rounds is one.
LEMMA RoundsDef ==
    \A n \in 0 .. MaxCollect :
        Rounds[n] = IF n = 0 THEN <<Leaf>> ELSE Longer(Rounds[n - 1], n)
<1> DEFINE Solves(g, m) == g = [n \in 0 .. m |-> IF n = 0 THEN <<Leaf>> ELSE Longer(g[n - 1], n)]
           K == {m \in 0 .. MaxCollect : ~ \E g : Solves(g, m)}
<1>0. MaxCollect \in Nat
  BY DEF MaxCollect
<1>1. K = {}
  <2> SUFFICES ASSUME K # {} PROVE FALSE
    OBVIOUS
  <2> DEFINE m == First(K)
  <2>1. m \in K /\ \A j \in K : m <= j
    <3>1. K \subseteq Nat
      BY <1>0
    <3> QED
      BY <3>1, FirstIsLeast
  <2> HIDE DEF m
  <2>2. m \in 0 .. MaxCollect /\ ~ \E g : Solves(g, m)
    BY <2>1
  <2>3. CASE m = 0
    <3> DEFINE h == [n \in 0 .. 0 |-> <<Leaf>>]
    <3>1. Solves(h, 0)
      OBVIOUS
    <3> QED
      BY <2>2, <2>3, <3>1
  <2>4. CASE m # 0
    <3>1. m - 1 \in 0 .. MaxCollect /\ m - 1 \notin K
      <4>1. m - 1 \in 0 .. MaxCollect /\ ~(m <= m - 1)
        BY <1>0, <2>2, <2>4
      <4>2. m - 1 \notin K
        BY <2>1, <4>1, Zenon
      <4> QED
        BY <4>1, <4>2
    <3>2. PICK g : Solves(g, m - 1)
      BY <3>1
    <3> DEFINE h == [n \in 0 .. m |-> IF n = m THEN Longer(g[m - 1], m) ELSE g[n]]
    <3>3. \A n \in 0 .. m : h[n] = IF n = 0 THEN <<Leaf>> ELSE Longer(h[n - 1], n)
      <4> SUFFICES ASSUME NEW n \in 0 .. m
                   PROVE  h[n] = IF n = 0 THEN <<Leaf>> ELSE Longer(h[n - 1], n)
        OBVIOUS
      <4>1. CASE n = m
        <5>1. h[m - 1] = g[m - 1] /\ h[m] = Longer(g[m - 1], m)
          BY <2>2, <2>4
        <5> QED
          BY <2>4, <4>1, <5>1
      <4>2. CASE n # m
        <5>1. n \in 0 .. m - 1 /\ h[n] = g[n]
          BY <2>2, <4>2
        <5>2. g[n] = IF n = 0 THEN <<Leaf>> ELSE Longer(g[n - 1], n)
          BY <3>2, <5>1
        <5>3. n # 0 => h[n - 1] = g[n - 1]
          BY <2>2, <5>1
        <5> QED
          BY <5>1, <5>2, <5>3
      <4> QED
        BY <4>1, <4>2
    <3>4. DOMAIN h = 0 .. m /\ h = [n \in 0 .. m |-> h[n]]
      OBVIOUS
    <3> HIDE DEF h
    <3>5. Solves(h, m)
      BY <3>3, <3>4
    <3> QED
      BY <2>2, <3>5
  <2> QED
    BY <2>3, <2>4
<1>2. \E g : Solves(g, MaxCollect)
  <2>1. MaxCollect \in 0 .. MaxCollect
    BY <1>0
  <2> QED
    BY <1>1, <2>1, Zenon
<1>3. Solves(Rounds, MaxCollect)
  BY <1>2, Zenon DEF Rounds
<1> QED
  BY <1>3

LEMMA RoundsAreChains ==
    ASSUME store \in Seq(Certs)
    PROVE  \A n \in 0 .. MaxCollect : Rounds[n] \in Seq(Certs) /\ Rounds[n] # <<>>
<1> DEFINE Bad(n) == ~(Rounds[n] \in Seq(Certs) /\ Rounds[n] # <<>>)
           K == {n \in 0 .. MaxCollect : Bad(n)}
<1> SUFFICES ASSUME K # {} PROVE FALSE
  OBVIOUS
<1>0. MaxCollect \in Nat
  BY DEF MaxCollect
<1> DEFINE m == First(K)
<1>1. m \in K /\ \A j \in K : m <= j
  <2>1. K \subseteq Nat
    BY <1>0
  <2> QED
    BY <2>1, FirstIsLeast
<1> HIDE DEF m
<1>2. m \in 0 .. MaxCollect /\ Bad(m)
  BY <1>1
<1>3. CASE m = 0
  <2>1. Rounds[0] = <<Leaf>> /\ <<Leaf>> \in Seq(Certs) /\ <<Leaf>> # <<>>
    BY <1>0, RoundsDef, ValidatorAssumption
  <2> QED
    BY <1>2, <1>3, <2>1
<1>4. CASE m # 0
  <2> DEFINE p == Rounds[m - 1]
  <2>1. m - 1 \in 0 .. MaxCollect /\ m - 1 \notin K
    BY <1>0, <1>1, <1>2, <1>4
  <2>2. p \in Seq(Certs) /\ p # <<>>
    BY <2>1
  <2>3. Rounds[m] = Longer(p, m)
    BY <1>2, <1>4, RoundsDef
  <2> HIDE DEF p
  <2>4. CASE Len(p) < m \/ Ends(p)
    BY <1>2, <2>2, <2>3, <2>4 DEF Longer
  <2>5. CASE ~(Len(p) < m \/ Ends(p))
    <3>1. Candidates(p[Len(p)]) # {}
      BY <2>5 DEF Ends
    <3>2. store[First(Candidates(p[Len(p)]))] \in Certs
      BY <3>1, FirstCandidate
    <3>3. Rounds[m] = Append(p, store[First(Candidates(p[Len(p)]))])
      BY <2>3, <2>5 DEF Longer
    <3>4. Rounds[m] \in Seq(Certs) /\ Rounds[m] # <<>>
      BY <2>2, <3>2, <3>3
    <3> QED
      BY <1>2, <3>4
  <2> QED
    BY <2>4, <2>5
<1> QED
  BY <1>3, <1>4

\* How far n rounds have come along the path.
Along(n) ==
    /\ n < Len(path) => Len(Rounds[n]) = n + 1
    /\ n >= Len(path) => Len(Rounds[n]) >= Len(path)
    /\ \A i \in Nodes : i <= n + 1 => Rounds[n][i] = path[i]

\* Nothing but a self-issued CA below the end of the path stops the rounds short of it.
LEMMA RoundsFollowPath ==
    ASSUME VInv, \A i \in 2 .. Len(path) - 1 : ~SelfIssued(path[i])
    PROVE  \A n \in 0 .. MaxCollect : Along(n)
<1> DEFINE l == Len(path)
           K == {n \in 0 .. MaxCollect : ~Along(n)}
<1> SUFFICES ASSUME K # {} PROVE FALSE
  OBVIOUS
<1>0. /\ MaxCollect \in Nat /\ store \in Seq(Certs)
      /\ path \in Seq(Certs) /\ l \in Nat \ {0} /\ path[1] = Leaf
      /\ \A i, j \in 1 .. l : path[i] = path[j] => i = j
      /\ \A i \in 1 .. l - 1 : path[i] \in Led /\ path[i + 1] = Lead[path[i]]
  BY DEF MaxCollect, VInv, IInv, Chain, Walk, Nodes
<1> DEFINE m == First(K)
<1>1. m \in K /\ \A j \in K : m <= j
  <2>1. K \subseteq Nat
    BY <1>0
  <2> QED
    BY <2>1, FirstIsLeast
<1> HIDE DEF m
<1>2. m \in 0 .. MaxCollect /\ ~Along(m)
  BY <1>1
<1>3. CASE m = 0
  <2>1. Rounds[0] = <<Leaf>>
    BY <1>0, RoundsDef
  <2>2. Len(Rounds[0]) = 1 /\ Rounds[0][1] = Leaf
    BY <2>1
  <2> QED
    BY <1>0, <1>2, <1>3, <2>2 DEF Along, Nodes
<1>4. CASE m # 0
  <2> DEFINE p == Rounds[m - 1]
             e == store[First(Candidates(p[Len(p)]))]
  <2>1. m - 1 \in 0 .. MaxCollect /\ m - 1 \notin K
    <3>1. m - 1 \in 0 .. MaxCollect /\ ~(m <= m - 1)
      BY <1>0, <1>2, <1>4
    <3>2. m - 1 \notin K
      BY <1>1, <3>1, Zenon
    <3> QED
      BY <3>1, <3>2
  <2>2. p \in Seq(Certs) /\ p # <<>> /\ Len(p) \in Nat \ {0} /\ Along(m - 1)
    BY <1>0, <2>1, RoundsAreChains
  <2>3. Rounds[m] = IF Len(p) < m \/ Ends(p) THEN p ELSE Append(p, e)
    BY <1>2, <1>4, RoundsDef DEF Longer
  <2>4. /\ m - 1 < l => Len(p) = m
        /\ m - 1 >= l => Len(p) >= l
        /\ \A i \in 1 .. l : i <= m => p[i] = path[i]
    BY <1>2, <2>2 DEF Along, Nodes
  <2>5. ~(Len(p) < m \/ Ends(p)) => e \in Certs
    BY <1>0, FirstCandidate DEF Ends
  <2>6. CASE m < l
    <3>0. m \in 1 .. l - 1 /\ m \in 1 .. l /\ m - 1 < l /\ m <= m
      BY <1>0, <1>2, <1>4, <2>6
    <3>1. Len(p) = m /\ p[m] = path[m] /\ path[m] \in Led /\ path[m + 1] = Lead[path[m]]
      <4> HIDE DEF p, l
      <4> QED
        BY <1>0, <2>4, <3>0
    <3>2. Candidates(p[m]) # {} /\ e = path[m + 1]
      BY <3>1 DEF Led, Lead
    <3>3. m > 1 => ~SelfIssued(p[m])
      BY <1>0, <1>2, <2>6, <3>1
    <3>4. p[m] \notin Range(Front(p))
      <4>1. Front(p) = SubSeq(p, 1, m - 1)
        BY <3>1 DEF Front
      <4>2. DOMAIN Front(p) = 1 .. m - 1 /\ \A i \in 1 .. m - 1 : Front(p)[i] = p[i]
        BY <1>2, <1>4, <2>2, <3>1, <4>1
      <4>3. \A i \in 1 .. m - 1 : p[i] # p[m]
        <5> SUFFICES ASSUME NEW i \in 1 .. m - 1 PROVE p[i] # p[m]
          OBVIOUS
        <5>1. i \in 1 .. l /\ i <= m /\ i # m
          BY <1>0, <3>0
        <5>2. p[i] = path[i]
          BY <2>4, <5>1
        <5>3. path[i] # path[m]
          BY <1>0, <3>0, <5>1
        <5> QED
          BY <3>1, <5>2, <5>3
      <4> QED
        BY <4>2, <4>3 DEF Range
    <3>5. ~Ends(p)
      BY <3>1, <3>2, <3>3, <3>4 DEF Ends
    <3> HIDE DEF p, e
    <3>6. Rounds[m] = Append(p, e)
      BY <2>3, <3>1, <3>5
    <3>7. /\ e \in Certs /\ Len(Rounds[m]) = m + 1 /\ Rounds[m][m + 1] = path[m + 1]
          /\ \A i \in 1 .. m : Rounds[m][i] = p[i]
      BY <1>2, <2>2, <2>5, <3>1, <3>2, <3>5, <3>6
    <3>8. m < l => Len(Rounds[m]) = m + 1
      BY <3>7
    <3>9. ASSUME NEW i \in 1 .. l, i <= m + 1 PROVE Rounds[m][i] = path[i]
      <4>1. i \in 1 .. m \/ i = m + 1
        BY <1>0, <1>2, <3>9
      <4>2. CASE i = m + 1
        BY <3>7, <4>2
      <4>3. CASE i \in 1 .. m
        BY <2>4, <3>7, <4>3
      <4> QED
        BY <4>1, <4>2, <4>3
    <3>10. ~(m >= l)
      BY <1>0, <2>6, <3>0
    <3> QED
      BY <1>2, <3>8, <3>9, <3>10 DEF Along, Nodes
  <2>7. CASE m >= l
    <3>1. Len(p) >= l /\ \A i \in 1 .. l : p[i] = path[i]
      BY <1>0, <1>2, <1>4, <2>4, <2>7
    <3> HIDE DEF p, e
    <3>2. Len(Rounds[m]) >= l /\ \A i \in 1 .. l : Rounds[m][i] = p[i]
      BY <1>0, <2>2, <2>3, <2>5, <3>1
    <3> QED
      BY <1>0, <1>2, <2>7, <3>1, <3>2 DEF Along, Nodes
  <2> QED
    BY <1>0, <1>2, <2>6, <2>7
<1> QED
  BY <1>3, <1>4

LEMMA CollectedHasPath ==
    ASSUME VInv, \A i \in 2 .. Len(path) - 1 : ~SelfIssued(path[i])
    PROVE  IsPrefix(path, Collected)
<1> DEFINE l == Len(path)
<1>1. path \in Seq(Certs) /\ l \in Nat \ {0} /\ l <= MaxCollect + 1 /\ MaxCollect \in Nat
  BY ValidatorAssumption, SignerAssumption DEF VInv, IInv, Chain, Walk, MaxCollect
<1>2. Collected \in Seq(Certs)
  BY <1>1, RoundsAreChains DEF Collected, VInv, IInv, Chain
<1>3. Along(MaxCollect)
  BY <1>1, RoundsFollowPath
<1>4. Len(Collected) >= l /\ \A i \in 1 .. l : Collected[i] = path[i]
  BY <1>1, <1>3 DEF Along, Collected, Nodes
<1> HIDE DEF Collected
<1>5. SubSeq(path, 1, l) = SubSeq(Collected, 1, l)
  BY <1>1, <1>2, <1>4
<1> QED
  BY <1>2, <1>4, <1>5 DEF IsPrefix

-----------------------------------------------------------------------------
(* The signer's variables and the document, phase by phase *)

Held ==
    /\ phase \in {"validate", "choose", "sign", "assemble", "persist", "done"}
    /\ request.entry \in {"none", "sign", "build_cms"} /\ request.tsa \in BOOLEAN
    /\ alg \in Algs \cup {NoAlg}
    /\ sessions \in Seq(TokenMechs) /\ Len(sessions) <= 2
    /\ phase \in {"validate", "choose"} => sessions = <<>>
    /\ phase = "sign" => Len(sessions) = 1
    /\ phase = "done" <=> result # Waiting

\* A document is made once, of the signature that is there and the chain collected.
Drafted ==
    /\ document.stamped \in BOOLEAN
    /\ phase \in {"validate", "choose", "sign", "assemble"} => document = NoDocument
    /\ phase \in {"assemble", "persist"} \/ document # NoDocument => signature # NoSignature
    /\ document = NoDocument \/ document.chain = Collected

\* What an RSA key has signed is what the document says.
Coded ==
    signature # NoSignature /\ key.family = "RSA" =>
        signature.scheme = alg /\ signature.covers = "attributes" /\ signature.coding = "octets"

DInv == SInv /\ VInv /\ Held /\ Drafted /\ Coded

LEMMA InitDInv == SignInit => DInv
<1> SUFFICES ASSUME SignInit PROVE DInv
  OBVIOUS
<1>1. SInv /\ VInv
  BY InitSInv, InitVInv DEF SignInit
<1>2. Held
  BY DEF SignInit, Held, Waiting
<1>3. Drafted /\ Coded
  BY DEF SignInit, Drafted, Coded, NoDocument
<1> QED
  BY <1>1, <1>2, <1>3 DEF DInv

\* What the steps of the signer have in common: the validator's state stays.
LEMMA SignerStepKeeps ==
    ASSUME DInv, SInv', UNCHANGED vars
    PROVE  VInv' /\ Collected' = Collected
<1>1. VInv'
  BY StepVInv DEF DInv
<1>2. UNCHANGED <<store, bare>>
  BY DEF vars, inputs
<1>3. \A c : Candidates(c)' = Candidates(c)
  BY <1>2 DEF Candidates, Strong, Weak, ByName, WithIds
<1>4. \A p : Ends(p)' = Ends(p)
  BY <1>3 DEF Ends
<1>5. \A p, n : Longer(p, n)' = Longer(p, n)
  BY <1>2, <1>3, <1>4 DEF Longer
<1>6. Rounds' = Rounds
  BY <1>5 DEF Rounds
<1> QED
  BY <1>1, <1>6 DEF Collected

\* A refusal ends the signing with what was made so far.
LEMMA RefusalHeld ==
    ASSUME NEW reason, reason # "waiting", Refused(reason)
    PROVE  phase' = "done" /\ result' # Waiting
  BY DEF Refused, Answer, Waiting

LEMMA ValidatorDInv == DInv /\ Next /\ UNCHANGED signing => DInv'
<1> SUFFICES ASSUME DInv, Next, UNCHANGED signing PROVE DInv'
  OBVIOUS
<1>1. SInv' /\ VInv'
  BY ValidatorStep, StepVInv DEF DInv
<1>2. step # "done"
  BY DEF Next, LeafIsAnchor, Climb, CheckTimes, CheckRevocation, CheckStore, CheckPolicy,
         Judge, Decide
<1>3. signature = NoSignature /\ document = NoDocument
  BY <1>2 DEF DInv, SInv, Admitted, Drafted
<1> QED
  BY <1>1, <1>3 DEF DInv, Held, Drafted, Coded, signing

LEMMA StartDInv == DInv /\ StartSigning => DInv'
<1> SUFFICES ASSUME DInv, StartSigning PROVE DInv'
  OBVIOUS
<1>1. /\ UNCHANGED <<appendix, key, alg, sessions, signature, document>> /\ UNCHANGED vars
      /\ phase = "validate"
  BY DEF StartSigning
<1>2. SInv' /\ VInv' /\ Collected' = Collected
  BY <1>1, StartSInv, SignerStepKeeps DEF DInv
<1>3. request'.entry \in {"none", "sign", "build_cms"} /\ request'.tsa \in BOOLEAN
  BY DEF StartSigning
<1>4. \/ phase' = "done" /\ result' # Waiting
      \/ phase' = "choose" /\ result' = result
  <2>1. \/ Refused("not allowed") \/ Refused("format unavailable") \/ Refused("signer error")
        \/ phase' = "choose" /\ result' = result
    BY DEF StartSigning
  <2> QED
    BY <2>1, RefusalHeld
<1> QED
  BY <1>1, <1>2, <1>3, <1>4 DEF DInv, Held, Drafted, Coded

LEMMA ChooseDInv == DInv /\ ChooseAlgorithm => DInv'
<1> SUFFICES ASSUME DInv, ChooseAlgorithm PROVE DInv'
  OBVIOUS
<1>1. PICK x \in Appendices, k \in Keys, mechs \in TokenMechs :
         /\ sessions' = IF Permitted(x) = {} THEN <<>> ELSE <<mechs>>
         /\ alg' = Choose(x, k, mechs)
         /\ IF alg' = NoAlg THEN Refused("mechanism unavailable")
            ELSE phase' = "sign" /\ UNCHANGED result
  BY DEF ChooseAlgorithm
<1>2. UNCHANGED <<request, signature, document>> /\ UNCHANGED vars /\ phase = "choose"
  BY DEF ChooseAlgorithm
<1>3. SInv' /\ VInv' /\ Collected' = Collected
  BY <1>2, ChooseSInv, SignerStepKeeps DEF DInv
<1>4. signature = NoSignature
  BY <1>2 DEF DInv, SInv, Admitted
<1>5. sessions' \in Seq(TokenMechs) /\ Len(sessions') <= 2
  <2>1. <<mechs>> \in Seq(TokenMechs) /\ Len(<<mechs>>) <= 2
    OBVIOUS
  <2>2. <<>> \in Seq(TokenMechs) /\ Len(<<>>) <= 2
    OBVIOUS
  <2>3. sessions' = <<mechs>> \/ sessions' = <<>>
    BY <1>1
  <2> QED
    BY <2>1, <2>2, <2>3, Zenon
<1>6. CASE alg' = NoAlg
  <2>1. phase' = "done" /\ result' # Waiting
    BY <1>1, <1>6, RefusalHeld
  <2> QED
    BY <1>2, <1>3, <1>4, <1>5, <1>6, <2>1 DEF DInv, Held, Drafted, Coded
<1>7. CASE alg' # NoAlg
  <2>1. alg' \in Algs /\ Permitted(x) # {}
    BY <1>1, <1>7, ChoiceIsRanked DEF Ranked
  <2>2. phase' = "sign" /\ result' = result /\ Len(sessions') = 1
    <3>1. sessions' = <<mechs>>
      BY <1>1, <2>1
    <3> QED
      BY <1>1, <1>7, <3>1
  <2> QED
    BY <1>2, <1>3, <1>4, <1>5, <2>1, <2>2 DEF DInv, Held, Drafted, Coded
<1> QED
  BY <1>6, <1>7

\* What the token makes of the data an RSA algorithm hands it.
LEMMA RSACoding ==
    ASSUME NEW a \in Algs, Registry[a].family = "RSA"
    PROVE  /\ LET s == Signed(Registry[a].hashIn, "attributes")
              IN  s.scheme = a /\ s.covers = "attributes" /\ s.coding = "octets"
           /\ a # "pss" =>
                 LET s == Signed(Registry[a].hashOut, Wrapped(a))
                 IN  s.scheme = a /\ s.covers = "attributes" /\ s.coding = "octets"
<1>1. a \in {"pkcs1", "pss", "ecdsa"}
  BY DEF Algs, Registry
<1>2. Registry["pkcs1"].hashIn = "SHA256_RSA_PKCS" /\ Registry["pkcs1"].hashOut = "RSA_PKCS"
  BY DEF Registry
<1>3. Registry["pss"].hashIn = "SHA256_RSA_PKCS_PSS" /\ Registry["pss"].hashOut = "RSA_PKCS_PSS"
  BY DEF Registry
<1>4. /\ Registry["ecdsa"].family = "EC"
      /\ Registry["ecdsa"].hashIn = "ECDSA_SHA256" /\ Registry["ecdsa"].hashOut = "ECDSA"
  BY DEF Registry
<1>5. Wrapped(a) = "DigestInfo"
  BY DEF Wrapped
<1>6. CASE a = "pkcs1"
  BY <1>2, <1>3, <1>4, <1>5, <1>6 DEF Signed, Of2
<1>7. CASE a = "pss"
  BY <1>2, <1>3, <1>4, <1>7 DEF Signed, Of2
<1> QED
  BY <1>1, <1>4, <1>6, <1>7

\* A session reported after the first.
LEMMA SecondSession ==
    ASSUME NEW S, NEW s \in Seq(S), Len(s) = 1, NEW x \in S
    PROVE  Append(s, x) \in Seq(S) /\ Len(Append(s, x)) = 2
<1>1. Append(s, x) \in Seq(S) /\ Len(Append(s, x)) = Len(s) + 1
  BY AppendProperties, Zenon
<1>2. 1 + 1 = 2
  OBVIOUS
<1> QED
  BY <1>1, <1>2

LEMMA SignDInv == DInv /\ SignOnToken => DInv'
<1> SUFFICES ASSUME DInv, SignOnToken PROVE DInv'
  OBVIOUS
<1>1. PICK mechs \in TokenMechs :
         /\ sessions' = Append(sessions, mechs)
         /\ \/ /\ signature' = Signed(Registry[alg].hashIn, "attributes")
               /\ Registry[alg].hashIn \in mechs
               /\ phase' = "assemble" /\ UNCHANGED result
            \/ /\ alg # "pss" /\ signature' = Signed(Registry[alg].hashOut, Wrapped(alg))
               /\ Registry[alg].hashOut \in mechs
               /\ phase' = "assemble" /\ UNCHANGED result
            \/ Refused("mechanism unavailable") /\ UNCHANGED signature
  BY DEF SignOnToken
<1>2. UNCHANGED <<request, appendix, key, alg, document>> /\ UNCHANGED vars /\ phase = "sign"
  BY DEF SignOnToken
<1>3. SInv' /\ VInv' /\ Collected' = Collected
  BY <1>2, SignSInv, SignerStepKeeps DEF DInv
<1>4. sessions' \in Seq(TokenMechs) /\ Len(sessions') <= 2
  <2>1. sessions \in Seq(TokenMechs) /\ Len(sessions) = 1
    BY <1>2 DEF DInv, Held
  <2>2. Append(sessions, mechs) \in Seq(TokenMechs) /\ Len(Append(sessions, mechs)) = 2
    BY <2>1, SecondSession
  <2>3. sessions' = Append(sessions, mechs)
    BY <1>1
  <2> QED
    BY <2>2, <2>3
<1>5. signature = NoSignature /\ document = NoDocument
  BY <1>2 DEF DInv, SInv, Admitted, Drafted
<1>6. alg \in Algs /\ Registry[alg].family = key.family
  BY <1>2 DEF DInv, SInv, Selected, Ranked, Fits
<1>7. CASE Refused("mechanism unavailable") /\ UNCHANGED signature
  <2>1. phase' = "done" /\ result' # Waiting
    BY <1>7, RefusalHeld
  <2> QED
    BY <1>2, <1>3, <1>4, <1>5, <1>7, <2>1 DEF DInv, Held, Drafted, Coded
<1>8. CASE ~(Refused("mechanism unavailable") /\ UNCHANGED signature)
  <2>1. phase' = "assemble" /\ result' = result
    BY <1>1, <1>8
  <2>2. signature' # NoSignature
    <3>1. signature'.by \in {Registry[alg].hashIn, Registry[alg].hashOut}
      BY <1>1, <1>8, SignedBy2
    <3>2. \A a \in Algs : "none" \notin {Registry[a].hashIn, Registry[a].hashOut}
      BY DEF Algs, Registry
    <3> QED
      BY <1>6, <3>1, <3>2 DEF NoSignature
  <2>3. ASSUME key.family = "RSA"
        PROVE  /\ signature'.scheme = alg /\ signature'.covers = "attributes"
               /\ signature'.coding = "octets"
    <3>1. \/ signature' = Signed(Registry[alg].hashIn, "attributes")
          \/ alg # "pss" /\ signature' = Signed(Registry[alg].hashOut, Wrapped(alg))
      BY <1>1, <1>8
    <3>2. /\ LET s == Signed(Registry[alg].hashIn, "attributes")
             IN  s.scheme = alg /\ s.covers = "attributes" /\ s.coding = "octets"
          /\ alg # "pss" =>
                LET s == Signed(Registry[alg].hashOut, Wrapped(alg))
                IN  s.scheme = alg /\ s.covers = "attributes" /\ s.coding = "octets"
      BY <1>6, <2>3, RSACoding
    <3> QED
      BY <3>1, <3>2
  <2> QED
    BY <1>2, <1>3, <1>4, <1>5, <2>1, <2>2, <2>3 DEF DInv, Held, Drafted, Coded
<1> QED
  BY <1>7, <1>8

LEMMA RefuseDInv == DInv /\ TokenRefuses => DInv'
<1> SUFFICES ASSUME DInv, TokenRefuses PROVE DInv'
  OBVIOUS
<1>1. /\ UNCHANGED <<request, appendix, key, alg, signature, document>> /\ UNCHANGED vars
      /\ phase = "sign" /\ Refused("error")
  BY DEF TokenRefuses
<1>2. PICK mechs \in TokenMechs : sessions' = Append(sessions, mechs)
  BY DEF TokenRefuses
<1>3. SInv' /\ VInv' /\ Collected' = Collected
  BY <1>1, RefuseSInv, SignerStepKeeps DEF DInv
<1>4. sessions' \in Seq(TokenMechs) /\ Len(sessions') <= 2
  <2>1. sessions \in Seq(TokenMechs) /\ Len(sessions) = 1
    BY <1>1 DEF DInv, Held
  <2>2. Append(sessions, mechs) \in Seq(TokenMechs) /\ Len(Append(sessions, mechs)) = 2
    BY <2>1, SecondSession
  <2> QED
    BY <1>2, <2>2
<1>5. phase' = "done" /\ result' # Waiting
  BY <1>1, RefusalHeld
<1> QED
  BY <1>1, <1>3, <1>4, <1>5 DEF DInv, Held, Drafted, Coded

LEMMA AssembleDInv == DInv /\ Assemble => DInv'
<1> SUFFICES ASSUME DInv, Assemble PROVE DInv'
  OBVIOUS
<1>1. /\ UNCHANGED <<request, appendix, key, alg, sessions, signature>> /\ UNCHANGED vars
      /\ phase = "assemble"
  BY DEF Assemble
<1>2. SInv' /\ VInv' /\ Collected' = Collected
  BY <1>1, AssembleSInv, SignerStepKeeps DEF DInv
<1>3. PICK answered \in BOOLEAN :
         document' = [chain |-> Collected, stamped |-> request.tsa /\ answered]
  BY DEF Assemble
<1>4. document'.chain = Collected /\ document'.stamped \in BOOLEAN
  BY <1>3
<1>5. \/ phase' = "persist" /\ result' = result
      \/ phase' = "done" /\ result' # Waiting
  BY DEF Assemble, Answer, Waiting
<1> QED
  BY <1>1, <1>2, <1>4, <1>5 DEF DInv, Held, Drafted, Coded

LEMMA PersistDInv == DInv /\ Persist => DInv'
<1> SUFFICES ASSUME DInv, Persist PROVE DInv'
  OBVIOUS
<1>1. /\ UNCHANGED <<request, appendix, key, alg, sessions, signature, document>>
      /\ UNCHANGED vars /\ phase = "persist"
  BY DEF Persist
<1>2. SInv' /\ VInv' /\ Collected' = Collected
  BY <1>1, PersistSInv, SignerStepKeeps DEF DInv
<1>3. phase' = "done" /\ result' # Waiting
  BY DEF Persist, Answer, Waiting
<1> QED
  BY <1>1, <1>2, <1>3 DEF DInv, Held, Drafted, Coded

(***************************************************************************)
(* What the signer holds in each phase, the chain that led to VALID and    *)
(* the coding of the signature, in all states of a signing.                *)
(***************************************************************************)
THEOREM DocumentInductive == SignSpec => []DInv
<1>1. DInv /\ [SignNext]_signVars => DInv'
  <2> SUFFICES ASSUME DInv, [SignNext]_signVars PROVE DInv'
    OBVIOUS
  <2>1. CASE UNCHANGED signVars
    <3>1. UNCHANGED vars /\ UNCHANGED signing /\ SInv'
      BY <2>1, StepSInv DEF signVars, DInv
    <3>2. VInv' /\ Collected' = Collected
      BY <3>1, SignerStepKeeps
    <3> QED
      BY <3>1, <3>2 DEF DInv, signing, Held, Drafted, Coded
  <2> QED
    BY <2>1, ValidatorDInv, StartDInv, ChooseDInv, SignDInv, RefuseDInv, AssembleDInv,
       PersistDInv DEF SignNext
<1> QED
  BY <1>1, InitDInv, PTL DEF SignSpec

(***************************************************************************)
(* The chain, the request, the sessions and the document have their types, *)
(* no certificate is in the chain twice, and an answer is given at the end *)
(* and not before (sign, build_cms, _build_chain).                         *)
(***************************************************************************)
THEOREM SignerTypeCorrect == SignSpec => []SignerTypeOK
<1>1. DInv => SignerTypeOK
  <2> SUFFICES ASSUME DInv PROVE SignerTypeOK
    OBVIOUS
  <2>1. TypeOK
    BY VInvTypes DEF DInv
  <2>3. (phase = "done") = (result # Waiting)
    BY Zenon DEF DInv, Held
  <2>2. document.chain \in Seq(Certs)
    <3>1. CASE document = NoDocument
      BY <3>1 DEF NoDocument
    <3>2. CASE document # NoDocument
      <4>1. MaxCollect \in 0 .. MaxCollect /\ store \in Seq(Certs)
        BY DEF MaxCollect, DInv, VInv, IInv, Chain
      <4> QED
        BY <3>2, <4>1, RoundsAreChains DEF DInv, Drafted, Collected
    <3> QED
      BY <3>1, <3>2
  <2> QED
    BY <2>1, <2>2, <2>3 DEF DInv, Held, Drafted, SignerTypeOK
<1> QED
  BY <1>1, DocumentInductive, PTL

(***************************************************************************)
(* An RSA document carries a signature of the declared scheme over the     *)
(* attributes and begins with the chain the validator accepted, but for a  *)
(* self-issued CA below the end of it: for any store, token and Appendix I *)
(* (signer.py 321-346, 477-501).                                           *)
(***************************************************************************)
THEOREM DocumentsVerify == SignSpec => []DocumentVerifies
<1>1. DInv => DocumentVerifies
  <2> SUFFICES ASSUME DInv, document # NoDocument, key.family = "RSA"
               PROVE  /\ signature.scheme = alg /\ signature.covers = "attributes"
                      /\ signature.coding = "octets"
                      /\ \/ IsPrefix(path, document.chain)
                         \/ \E i \in 2 .. Len(path) - 1 : SelfIssued(path[i])
    BY DEF DocumentVerifies
  <2>1. signature # NoSignature /\ document.chain = Collected
    BY DEF DInv, Drafted
  <2> QED
    BY <2>1, CollectedHasPath DEF DInv, Coded
<1> QED
  BY <1>1, DocumentInductive, PTL

(***************************************************************************)
(* The climb misses no chain in a signing either (_build_chain 319-359).   *)
(***************************************************************************)
THEOREM SigningMissesNoChain == SignSpec => []UniqueChainIsFound
<1>1. DInv => UniqueChainIsFound
  BY DEF DInv, VInv, Ending
<1> QED
  BY <1>1, DocumentInductive, PTL
================================================================================
