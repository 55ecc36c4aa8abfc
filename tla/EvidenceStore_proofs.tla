------------------------- MODULE EvidenceStore_proofs -------------------------
(***************************************************************************)
(* Proofs about EvidenceStore, for any requests, any files of a piece of   *)
(* evidence and any retention policy.                                      *)
(*                                                                         *)
(* The inductive invariant says of each step of each call what the steps   *)
(* before it have established (Shape, Deleting, Sealing), which of the     *)
(* three records of an item -- its files, the ledger, the audit log -- is  *)
(* ahead of which (Filed, Audited), and what a report that nothing         *)
(* disturbed has seen so far (Quiet).                                      *)
(***************************************************************************)
EXTENDS EvidenceStore, FiniteSetTheorems, TLAPS

Kinds == {"none", "store", "delete", "verify", "export"}
Op == [kind : Kinds, eid : Reqs \cup {NoReq}, signed : 0 .. MaxTime]
View == [len : Nat, sound : BOOLEAN, deleted : SUBSET Reqs, bad : SUBSET Reqs,
         files : SUBSET Blobs, head : Nat]
Record == [type : {"signing", "deletion"}, eid : Reqs]
AuditEntry == [act : {"store", "delete", "export"}, by : Reqs, result : {"ok", "refused"}]

Typed ==
    /\ now \in 0 .. MaxTime
    /\ blobs \in [Reqs -> SUBSET Blobs] /\ flushed \subseteq Reqs
    /\ ledger \in Seq(Record)
    /\ lockBy \in Reqs \cup {NoReq}
    /\ ledgerTorn \in BOOLEAN /\ auditTorn \in BOOLEAN
    /\ audit \subseteq AuditEntry
    /\ pc \in [Reqs -> Steps] /\ op \in [Reqs -> Op]
    /\ todo \in [Reqs -> SUBSET (Blobs \cup Reqs)]
    /\ view \in [Reqs -> View]
    /\ crashes \in 0 .. MaxCrashes /\ powerCuts \in 0 .. crashes
    /\ removing \subseteq Reqs /\ kept \subseteq removing
    /\ disturbed \in [Reqs -> BOOLEAN]

\* The steps of each method.
StepsOf(kind) ==
    CASE kind = "none" -> {"new"}
      [] kind = "store" -> {"blobs", "line", "head", "audit", "ok", "failed", "dead"}
      [] kind = "delete" -> {"find", "list", "unlink", "line", "head", "audit", "refuse",
                             "ok", "failed", "dead"}
      [] kind = "verify" -> {"v_head", "v_deleted", "v_records", "v_blobs",
                             "ok", "failed", "dead"}
      [] kind = "export" -> {"x_blobs", "x_ledger", "x_head", "audit", "ok", "failed", "dead"}

Shape ==
    \A r \in Reqs :
        /\ pc[r] \in StepsOf(op[r].kind)
        /\ op[r].kind = "store" => op[r].eid = r
        /\ pc[r] = "new" => view[r].bad = {}

\* The anchor counts what is in the ledger, and no request appends twice.
Appended == {r \in Reqs : pc[r] \in {"head", "audit", "ok", "failed", "dead"}}

Anchored ==
    /\ \A r \in Reqs : pc[r] = "head" <=> lockBy = r
    /\ crashes = 0 /\ lockBy = NoReq => anchor = Len(ledger)
    /\ anchor \in 0 .. Len(ledger)
    /\ Len(ledger) <= Cardinality(Appended)

\* A delete that passed its checks: the item is recorded and old enough, and once
\* begun, what is left of it is still to be unlinked.
Deleting ==
    \A d \in Reqs : LET e == op[d].eid IN
        /\ pc[d] \in {"list", "unlink"} => AllowDelete /\ OldEnough(e)
        /\ pc[d] \in {"list", "unlink"} \/ (pc[d] = "line" /\ op[d].kind = "delete") =>
              e \in Recorded
        /\ pc[d] = "unlink" => e \in removing /\ (blobs[e] \subseteq todo[d] \/ e \in kept)
        /\ pc[d] = "line" /\ op[d].kind = "delete" =>
              e \in removing /\ (blobs[e] = {} \/ e \in kept)

\* A request that closes its append has its entry in the ledger.
Sealing ==
    \A r \in Reqs :
        /\ pc[r] \in {"head", "audit"} /\ op[r].kind = "store" => r \in Recorded
        /\ pc[r] \in {"head", "audit"} /\ op[r].kind = "delete" => op[r].eid \in Tombstoned

\* The files are there before the record is, and gone before the tombstone.
Filed ==
    /\ \A r \in Reqs : pc[r] = "line" /\ op[r].kind = "store" => blobs[r] = Blobs
    /\ \A e \in Recorded : /\ op[e].kind = "store" /\ pc[e] \in {"head", "audit", "ok", "failed", "dead"}
                           /\ pc[e] = "failed" => auditTorn
    /\ \A r \in Reqs : pc[r] = "x_blobs" => op[r].eid \in Recorded
    /\ removing \subseteq Recorded /\ Tombstoned \subseteq removing
    /\ LedgerMatchesFiles

Audited ==
    /\ \A r \in Reqs : pc[r] = "ok" /\ op[r].kind # "verify" =>
          [act |-> op[r].kind, by |-> r, result |-> "ok"] \in audit
    /\ \A a \in audit :
          /\ pc[a.by] # "new"
          /\ a.result = "ok" => /\ a.act = "store" => a.by \in Recorded
                                /\ a.act = "delete" => op[a.by].eid \in Tombstoned

(***************************************************************************)
(* What a report has seen while nothing moved: every record that has no    *)
(* tombstone has its files, nothing is being appended, and what the report *)
(* noted is still so.                                                      *)
(***************************************************************************)
Still(r) ==
    /\ crashes = 0 /\ lockBy = NoReq
    /\ \A e \in Recorded \ Tombstoned : blobs[e] = Blobs

QuietVerify(r) ==
    /\ pc[r] # "failed" => view[r].bad = {}
    /\ pc[r] = "v_head" => view[r].len = Len(ledger)
    /\ pc[r] \in {"v_deleted", "v_records", "v_blobs", "ok"} => view[r].sound
    /\ pc[r] = "v_records" => view[r].deleted = Tombstoned
    /\ pc[r] = "v_blobs" => todo[r] \subseteq Recorded \ Tombstoned

QuietExport(r) ==
    /\ pc[r] \in {"x_ledger", "x_head", "audit", "ok"} =>
          view[r].files = Blobs \/ op[r].eid \in removing
    /\ pc[r] = "x_head" => view[r].len = Len(ledger)
    /\ pc[r] \in {"audit", "ok"} => view[r].head = view[r].len

Quiet ==
    \A r \in Reqs : ~disturbed[r] =>
        /\ r \in Watching => Still(r)
        /\ op[r].kind = "verify" /\ pc[r] # "dead" => QuietVerify(r)
        /\ op[r].kind = "export" /\ pc[r] # "dead" => QuietExport(r)

IInv == /\ Typed /\ Shape /\ Anchored /\ Deleting /\ Sealing /\ Filed /\ Audited /\ Quiet

-----------------------------------------------------------------------------
(* The ledger *)

LEMMA LedgerSets ==
    ASSUME ledger \in Seq(Record)
    PROVE  /\ Recorded \subseteq Reqs /\ Tombstoned \subseteq Reqs
           /\ Len(ledger) \in Nat
<1>1. \A i \in DOMAIN ledger : ledger[i] \in Record
  OBVIOUS
<1> QED
  BY <1>1 DEF Recorded, Tombstoned, Entries, Record

LEMMA LedgerKept ==
    ASSUME ledger' = ledger
    PROVE  Recorded' = Recorded /\ Tombstoned' = Tombstoned
  BY DEF Recorded, Tombstoned, Entries

\* A record adds one item to those of its type.
LEMMA LedgerAppends ==
    ASSUME ledger \in Seq(Record), NEW x \in Record, ledger' = Append(ledger, x)
    PROVE  /\ ledger' \in Seq(Record) /\ Len(ledger') = Len(ledger) + 1
           /\ Recorded' = IF x.type = "signing" THEN Recorded \cup {x.eid} ELSE Recorded
           /\ Tombstoned' = IF x.type = "signing" THEN Tombstoned ELSE Tombstoned \cup {x.eid}
<1>1. ledger' \in Seq(Record) /\ Len(ledger') = Len(ledger) + 1
  OBVIOUS
<1>2. DOMAIN ledger' = DOMAIN ledger \cup {Len(ledger) + 1}
  BY <1>1
<1>3. ledger'[Len(ledger) + 1] = x /\ \A i \in DOMAIN ledger : ledger'[i] = ledger[i]
  OBVIOUS
<1>4. Entries(ledger') = Entries(ledger) \cup {x}
  BY <1>2, <1>3 DEF Entries
<1>5. x.type = "signing" \/ x.type = "deletion"
  BY DEF Record
<1> DEFINE E == Entries(ledger)
<1> HIDE DEF E
<1>6. Recorded' = {e.eid : e \in {y \in E \cup {x} : y.type = "signing"}}
  BY <1>4 DEF Recorded, E
<1>7. Recorded = {e.eid : e \in {y \in E : y.type = "signing"}}
  BY DEF Recorded, E
<1>8. Tombstoned' = {e.eid : e \in {y \in E \cup {x} : y.type = "deletion"}}
  BY <1>4 DEF Tombstoned, E
<1>9. Tombstoned = {e.eid : e \in {y \in E : y.type = "deletion"}}
  BY DEF Tombstoned, E
<1>10. Recorded' = IF x.type = "signing" THEN Recorded \cup {x.eid} ELSE Recorded
  BY <1>5, <1>6, <1>7
<1>11. Tombstoned' = IF x.type = "signing" THEN Tombstoned ELSE Tombstoned \cup {x.eid}
  BY <1>5, <1>8, <1>9
<1> QED
  BY <1>1, <1>10, <1>11

-----------------------------------------------------------------------------
(* Types *)

\* What a step of request r may write, and what it leaves alone.
LEMMA StepMoves ==
    ASSUME Typed, NEW r \in Reqs, Start(r) \/ Step(r)
    PROVE  /\ \A q \in Reqs \ {r} : /\ pc'[q] = pc[q] /\ op'[q] = op[q]
                                    /\ todo'[q] = todo[q] /\ view'[q] = view[q]
           /\ pc[r] # "new" => op' = op
           /\ UNCHANGED <<now, ledgerTorn, auditTorn, crashes, powerCuts>>
<1>1. UNCHANGED <<now, ledgerTorn, auditTorn, crashes, powerCuts>>
  BY DEF Start, Step, StartStore, WriteBlob, WriteManifest, AppendLine, AppendHead, RecordAudit,
     StartDelete, CheckDelete, ListItem, Unlink, ItemRemoved, StartVerify, VerifyHead,
     VerifyDeleted, VerifyRecords, VerifyBlobs, VerifyReturn, StartExport, PackBlobs,
     PackLedger, PackHead, logVars, diskVars, reqVars, histVars, faultVars
<1>2. pc' = pc \/ \E x : pc' = [pc EXCEPT ![r] = x]
  BY DEF Start, Step, StartStore, WriteBlob, WriteManifest, AppendLine, AppendHead, RecordAudit,
     StartDelete, CheckDelete, ListItem, Unlink, ItemRemoved, StartVerify, VerifyHead,
     VerifyDeleted, VerifyRecords, VerifyBlobs, VerifyReturn, StartExport, PackBlobs,
     PackLedger, PackHead, Goto, LedgerGoto, reqVars
<1>3. op' = op \/ (pc[r] = "new" /\ \E x : op' = [op EXCEPT ![r] = x])
  BY DEF Start, Step, StartStore, WriteBlob, WriteManifest, AppendLine, AppendHead, RecordAudit,
     StartDelete, CheckDelete, ListItem, Unlink, ItemRemoved, StartVerify, VerifyHead,
     VerifyDeleted, VerifyRecords, VerifyBlobs, VerifyReturn, StartExport, PackBlobs,
     PackLedger, PackHead, Begin, reqVars
<1>4. todo' = todo \/ \E x : todo' = [todo EXCEPT ![r] = x]
  BY DEF Start, Step, StartStore, WriteBlob, WriteManifest, AppendLine, AppendHead, RecordAudit,
     StartDelete, CheckDelete, ListItem, Unlink, ItemRemoved, StartVerify, VerifyHead,
     VerifyDeleted, VerifyRecords, VerifyBlobs, VerifyReturn, StartExport, PackBlobs,
     PackLedger, PackHead, reqVars
<1>5. view' = view \/ \E x : view' = [view EXCEPT ![r] = x]
  BY DEF Start, Step, StartStore, WriteBlob, WriteManifest, AppendLine, AppendHead, RecordAudit,
     StartDelete, CheckDelete, ListItem, Unlink, ItemRemoved, StartVerify, VerifyHead,
     VerifyDeleted, VerifyRecords, VerifyBlobs, VerifyReturn, StartExport, PackBlobs,
     PackLedger, PackHead, reqVars
<1>6. \A q \in Reqs \ {r} : pc'[q] = pc[q]
  BY <1>2 DEF Typed
<1>7. \A q \in Reqs \ {r} : op'[q] = op[q]
  BY <1>3 DEF Typed
<1>8. \A q \in Reqs \ {r} : todo'[q] = todo[q]
  BY <1>4 DEF Typed
<1>9. \A q \in Reqs \ {r} : view'[q] = view[q]
  BY <1>5 DEF Typed
<1> QED
  BY <1>1, <1>3, <1>6, <1>7, <1>8, <1>9

LEMMA TypedInit == Init => Typed
<1> SUFFICES ASSUME Init PROVE Typed
  OBVIOUS
<1>1. NoOp \in Op /\ NoView \in View
  BY StoreAssumption DEF NoOp, Op, Kinds, NoView, View
<1>2. pc \in [Reqs -> Steps] /\ op \in [Reqs -> Op] /\ view \in [Reqs -> View]
  BY <1>1 DEF Init, Steps
<1>3. ledger \in Seq(Record)
  BY DEF Init
<1>4. now \in 0 .. MaxTime /\ crashes \in 0 .. MaxCrashes /\ powerCuts \in 0 .. crashes
  BY StoreAssumption DEF Init
<1>5. /\ blobs \in [Reqs -> SUBSET Blobs] /\ todo \in [Reqs -> SUBSET (Blobs \cup Reqs)]
      /\ disturbed \in [Reqs -> BOOLEAN]
  BY DEF Init
<1> QED
  BY <1>2, <1>3, <1>4, <1>5 DEF Init, Typed

\* What requests, logs and files may become.
LEMMA StepPc ==
    ASSUME Typed, NEW r \in Reqs, Start(r) \/ Step(r)
    PROVE  pc' \in [Reqs -> Steps]
<1> USE DEF Typed, Goto, LedgerGoto, Steps
<1> QED
  BY DEF Start, Step, StartStore, WriteBlob, WriteManifest, AppendLine, AppendHead, RecordAudit,
     StartDelete, CheckDelete, AfterChecks, ListItem, Unlink, ItemRemoved, StartVerify, VerifyHead,
     VerifyDeleted, VerifyRecords, VerifyBlobs, VerifyReturn, StartExport, PackBlobs,
     PackLedger, PackHead, reqVars

LEMMA StepOp ==
    ASSUME Typed, NEW r \in Reqs, Start(r) \/ Step(r)
    PROVE  op' \in [Reqs -> Op]
<1>1. CASE op' = op
  BY <1>1 DEF Typed
<1>2. CASE \E k \in {"store", "delete", "verify", "export"}, e \in Reqs \cup {NoReq}, d \in 0 .. MaxTime :
               op' = [op EXCEPT ![r] = [kind |-> k, eid |-> e, signed |-> d]]
  BY <1>2 DEF Typed, Op, Kinds
<1>3. Named \subseteq Reqs \cup {NoReq} /\ 0 .. now \subseteq 0 .. MaxTime /\ 0 \in 0 .. MaxTime
  BY LedgerSets, StoreAssumption DEF Typed, Named
<1>4. Start(r) =>
        \E k \in {"store", "delete", "verify", "export"}, e \in Reqs \cup {NoReq}, d \in 0 .. MaxTime :
               op' = [op EXCEPT ![r] = [kind |-> k, eid |-> e, signed |-> d]]
  BY <1>3 DEF Start, StartStore, StartDelete, StartVerify, StartExport, Begin
<1>5. Step(r) => op' = op
  BY StepMoves DEF Step, WriteBlob, WriteManifest, AppendLine, AppendHead, RecordAudit,
     CheckDelete, ListItem, Unlink, ItemRemoved, VerifyHead,
     VerifyDeleted, VerifyRecords, VerifyBlobs, VerifyReturn, PackBlobs,
     PackLedger, PackHead
<1> QED
  BY <1>1, <1>2, <1>4, <1>5

LEMMA StepFiles ==
    ASSUME Typed, NEW r \in Reqs, Start(r) \/ Step(r)
    PROVE  blobs' \in [Reqs -> SUBSET Blobs] /\ flushed' \subseteq Reqs
<1> QED
  BY DEF Typed, Start, Step, StartStore, WriteBlob, WriteManifest, AppendLine, AppendHead, RecordAudit,
     StartDelete, CheckDelete, ListItem, Unlink, ItemRemoved, StartVerify, VerifyHead,
     VerifyDeleted, VerifyRecords, VerifyBlobs, VerifyReturn, StartExport, PackBlobs,
     PackLedger, PackHead, diskVars

LEMMA ViewFields ==
    ASSUME NEW v \in View
    PROVE  /\ \A n \in Nat : [v EXCEPT !.len = n] \in View
           /\ \A n \in Nat : [v EXCEPT !.head = n] \in View
           /\ \A b \in BOOLEAN : [v EXCEPT !.sound = b] \in View
           /\ \A S \in SUBSET Reqs : [v EXCEPT !.deleted = S] \in View
           /\ \A S \in SUBSET Reqs : [v EXCEPT !.bad = S] \in View
           /\ \A S \in SUBSET Blobs : [v EXCEPT !.files = S] \in View
<1>1. \A n \in Nat : [v EXCEPT !.len = n] \in View
  BY DEF View
<1>2. \A n \in Nat : [v EXCEPT !.head = n] \in View
  BY DEF View
<1>3. \A b \in BOOLEAN : [v EXCEPT !.sound = b] \in View
  BY DEF View
<1>4. \A S \in SUBSET Reqs : [v EXCEPT !.deleted = S] \in View
  BY DEF View
<1>5. \A S \in SUBSET Reqs : [v EXCEPT !.bad = S] \in View
  BY DEF View
<1>6. \A S \in SUBSET Blobs : [v EXCEPT !.files = S] \in View
  BY DEF View
<1> QED
  BY <1>1, <1>2, <1>3, <1>4, <1>5, <1>6

LEMMA StepView ==
    ASSUME IInv, NEW r \in Reqs, Start(r) \/ Step(r)
    PROVE  view' \in [Reqs -> View]
<1>1. /\ Recorded \subseteq Reqs /\ Tombstoned \subseteq Reqs /\ Len(ledger) \in Nat
      /\ anchor \in Nat /\ view \in [Reqs -> View] /\ view[r] \in View
  BY LedgerSets DEF IInv, Typed, Anchored
<1>2. view' = view \/ \E w \in View : view' = [view EXCEPT ![r] = w]
  <2>1. CASE StartVerify(r)
    BY <1>1, <2>1, ViewFields DEF StartVerify
  <2>2. CASE VerifyHead(r)
    BY <1>1, <2>2, ViewFields DEF VerifyHead
  <2>3. CASE VerifyDeleted(r)
    BY <1>1, <2>3, ViewFields DEF VerifyDeleted
  <2>4. ASSUME NEW e \in Reqs, VerifyBlobs(r, e)
        PROVE  view' = view \/ \E w \in View : view' = [view EXCEPT ![r] = w]
    <3>1. view[r].bad \cup {e} \in SUBSET Reqs /\ view[r].bad \in SUBSET Reqs
      BY <1>1 DEF View
    <3> QED
      BY <1>1, <2>4, <3>1, ViewFields DEF VerifyBlobs
  <2>5. CASE PackBlobs(r)
    <3>1. blobs[op[r].eid] \in SUBSET Blobs
      BY <1>1, <2>5 DEF PackBlobs, IInv, Filed, Typed
    <3> QED
      BY <1>1, <2>5, <3>1, ViewFields DEF PackBlobs
  <2>6. CASE PackLedger(r)
    BY <1>1, <2>6, ViewFields DEF PackLedger
  <2>7. CASE PackHead(r)
    BY <1>1, <2>7, ViewFields DEF PackHead
  <2>8. CASE view' = view
    BY <2>8
  <2> QED
    BY <2>1, <2>2, <2>3, <2>4, <2>5, <2>6, <2>7, <2>8
       DEF Start, Step, StartStore, WriteBlob, WriteManifest, AppendLine, AppendHead, RecordAudit,
       StartDelete, CheckDelete, ListItem, Unlink, ItemRemoved, VerifyRecords, VerifyReturn,
       StartExport, reqVars
<1> QED
  BY <1>1, <1>2

LEMMA StepTodo ==
    ASSUME IInv, NEW r \in Reqs, Start(r) \/ Step(r)
    PROVE  todo' \in [Reqs -> SUBSET (Blobs \cup Reqs)]
<1>1. /\ Recorded \subseteq Reqs /\ todo \in [Reqs -> SUBSET (Blobs \cup Reqs)]
      /\ pc[r] = "list" => blobs[op[r].eid] \subseteq Blobs
  BY LedgerSets DEF IInv, Typed, Deleting
<1> QED
  BY <1>1 DEF Start, Step, StartStore, WriteBlob, WriteManifest, AppendLine, AppendHead, RecordAudit,
     StartDelete, CheckDelete, ListItem, Unlink, ItemRemoved, StartVerify, VerifyHead,
     VerifyDeleted, VerifyRecords, ToCheck, VerifyBlobs, VerifyReturn, StartExport, PackBlobs,
     PackLedger, PackHead, reqVars

\* An appending request adds its entry; nothing else changes the ledger.
LEMMA StepLedger ==
    ASSUME IInv, NEW r \in Reqs, Start(r) \/ Step(r)
    PROVE  \/ ledger' = ledger
           \/ /\ AppendLine(r) /\ ~ledgerTorn /\ lockBy' = r
              /\ pc[r] = "line" /\ pc' = [pc EXCEPT ![r] = "head"]
              /\ EntryOf(r) \in Record /\ ledger' = Append(ledger, EntryOf(r))
              /\ op[r].kind = "store" => EntryOf(r) = [type |-> "signing", eid |-> r]
              /\ op[r].kind # "store" => /\ op[r].kind = "delete" /\ op[r].eid \in Recorded
                                         /\ EntryOf(r) = [type |-> "deletion", eid |-> op[r].eid]
<1>1. CASE AppendLine(r) /\ ledger' # ledger
  <2>1. ~ledgerTorn /\ ledger' = Append(ledger, EntryOf(r)) /\ pc[r] = "line" /\ lockBy' = r
    BY <1>1 DEF AppendLine
  <2>2. pc' = [pc EXCEPT ![r] = "head"]
    BY <1>1, <2>1 DEF AppendLine, LedgerGoto, Goto
  <2>3. op[r].kind = "store" \/ op[r].kind = "delete"
    BY <2>1 DEF IInv, Shape, StepsOf, Typed, Op, Kinds
  <2>4. op[r].kind = "store" => op[r].eid = r
    BY DEF IInv, Shape
  <2>5. op[r].kind = "delete" => op[r].eid \in Recorded
    BY <2>1 DEF IInv, Deleting
  <2>6. Recorded \subseteq Reqs
    BY LedgerSets DEF IInv, Typed
  <2> QED
    BY <1>1, <2>1, <2>2, <2>3, <2>4, <2>5, <2>6 DEF EntryOf, Record
<1> QED
  BY <1>1 DEF Start, Step, StartStore, WriteBlob, WriteManifest, AppendLine, AppendHead, RecordAudit,
     StartDelete, CheckDelete, ListItem, Unlink, ItemRemoved, StartVerify, VerifyHead,
     VerifyDeleted, VerifyRecords, VerifyBlobs, VerifyReturn, StartExport, PackBlobs,
     PackLedger, PackHead, logVars

LEMMA StepAudit ==
    ASSUME IInv, NEW r \in Reqs, Start(r) \/ Step(r)
    PROVE  \/ audit' = audit
           \/ /\ pc[r] \in {"audit", "refuse"} /\ op[r].kind \in {"store", "delete", "export"}
              /\ audit' = audit \cup {[act |-> op[r].kind, by |-> r,
                                       result |-> IF pc[r] = "audit" THEN "ok" ELSE "refused"]}
              /\ pc' = [pc EXCEPT ![r] = IF pc[r] = "audit" THEN "ok" ELSE "failed"]
<1>1. pc[r] \in {"audit", "refuse"} => op[r].kind \in {"store", "delete", "export"}
  BY DEF IInv, Shape, StepsOf, Typed, Op, Kinds
<1> QED
  BY <1>1 DEF Start, Step, StartStore, WriteBlob, WriteManifest, AppendLine, AppendHead, RecordAudit,
     StartDelete, CheckDelete, ListItem, Unlink, ItemRemoved, StartVerify, VerifyHead,
     VerifyDeleted, VerifyRecords, VerifyBlobs, VerifyReturn, StartExport, PackBlobs,
     PackLedger, PackHead, Goto, logVars

LEMMA StepHistories ==
    ASSUME IInv, NEW r \in Reqs, Start(r) \/ Step(r)
    PROVE  /\ \/ lockBy' = lockBy
              \/ AppendLine(r) /\ ~ledgerTorn /\ lockBy' = r
              \/ AppendHead(r) /\ lockBy' = NoReq
           /\ removing' = removing \/ (ListItem(r) /\ removing' = removing \cup {op[r].eid})
           /\ kept' = kept \/ (pc[r] = "unlink" /\ kept' = kept \cup {op[r].eid})
           /\ disturbed' \in [Reqs -> BOOLEAN]
<1>1. disturbed \in [Reqs -> BOOLEAN]
  BY DEF IInv, Typed
<1> QED
  BY <1>1 DEF Start, Step, StartStore, WriteBlob, WriteManifest, AppendLine, AppendHead, RecordAudit,
     StartDelete, CheckDelete, ListItem, Unlink, ItemRemoved, StartVerify, VerifyHead,
     VerifyDeleted, VerifyRecords, VerifyBlobs, VerifyReturn, StartExport, PackBlobs,
     PackLedger, PackHead, Disturb, Unfinished, logVars, histVars

LEMMA StepTyped ==
    ASSUME IInv, NEW r \in Reqs, Start(r) \/ Step(r)
    PROVE  Typed'
<1>1. Typed
  BY DEF IInv
<1>2. ledger' \in Seq(Record)
  BY <1>1, StepLedger, LedgerAppends DEF Typed
<1>3. audit' \subseteq AuditEntry
  BY <1>1, StepAudit DEF Typed, AuditEntry
<1>4. lockBy' \in Reqs \cup {NoReq}
  BY <1>1, StepHistories DEF Typed
<1>5. removing' \subseteq Reqs /\ kept' \subseteq removing'
  <2>1. pc[r] \in {"list", "unlink"} => op[r].eid \in Recorded
    BY DEF IInv, Deleting
  <2>2. pc[r] = "unlink" => op[r].eid \in removing
    BY DEF IInv, Deleting
  <2>3. Recorded \subseteq Reqs
    BY <1>1, LedgerSets DEF Typed
  <2> QED
    BY <1>1, <2>1, <2>2, <2>3, StepHistories DEF Typed, ListItem
<1> QED
  BY <1>1, <1>2, <1>3, <1>4, <1>5, StepMoves, StepPc, StepOp, StepFiles, StepView, StepTodo,
     StepHistories DEF Typed

-----------------------------------------------------------------------------
(* What the steps of a request keep *)

LEMMA StepShape ==
    ASSUME IInv, NEW r \in Reqs, Start(r) \/ Step(r)
    PROVE  Shape' /\ pc'[r] # "new"
<1>1. /\ pc \in [Reqs -> Steps] /\ op \in [Reqs -> Op] /\ view \in [Reqs -> View]
      /\ pc[r] \in StepsOf(op[r].kind) /\ op[r].kind \in Kinds
      /\ op[r].kind = "store" => op[r].eid = r
  BY DEF IInv, Typed, Shape, Op
<1>2. ASSUME Start(r)
      PROVE  /\ pc'[r] \in StepsOf(op'[r].kind) /\ pc'[r] # "new"
             /\ op'[r].kind = "store" => op'[r].eid = r
  BY <1>1, <1>2 DEF Start, StartStore, StartDelete, StartVerify, StartExport, Begin, Goto,
     LedgerGoto, StepsOf
<1>3. ASSUME Step(r)
      PROVE  op' = op /\ pc'[r] \in StepsOf(op[r].kind) /\ pc'[r] # "new"
  <2>1. pc[r] # "new"
    BY <1>3 DEF Step, WriteBlob, WriteManifest, AppendLine, AppendHead,
       RecordAudit, CheckDelete, AfterChecks, ListItem, Unlink, ItemRemoved, VerifyHead,
       VerifyDeleted, VerifyRecords, VerifyBlobs, VerifyReturn, PackBlobs, PackLedger, PackHead
  <2>2. /\ pc[r] \in {"blobs", "line", "head", "audit", "refuse"} =>
              pc'[r] \in {pc[r], "line", "head", "audit", "ok", "failed"}
        /\ pc[r] = "blobs" => pc'[r] \in {"blobs", "line"}
        /\ pc[r] = "audit" => pc'[r] \in {"ok", "failed"}
        /\ pc[r] = "refuse" => pc'[r] = "failed"
        /\ pc[r] \in {"find", "list", "unlink"} =>
              pc'[r] \in {"list", "unlink", "line", "refuse", "failed"}
        /\ pc[r] \in {"v_head", "v_deleted", "v_records", "v_blobs"} =>
              pc'[r] \in {"v_deleted", "v_records", "v_blobs", "ok", "failed"}
        /\ pc[r] \in {"x_blobs", "x_ledger", "x_head"} =>
              pc'[r] \in {"x_ledger", "x_head", "audit"}
        /\ pc[r] \notin {"new", "ok", "failed", "dead"}
    BY <1>1, <1>3 DEF Step, WriteBlob, WriteManifest, AppendLine, AppendHead,
       RecordAudit, CheckDelete, AfterChecks, ListItem, Unlink, ItemRemoved, VerifyHead,
       VerifyDeleted, VerifyRecords, VerifyBlobs, VerifyReturn, PackBlobs, PackLedger, PackHead,
       Goto, LedgerGoto, reqVars
  <2> QED
    BY <1>1, <2>1, <2>2, <1>3, StepMoves DEF StepsOf, Kinds, IInv
<1>4. \A q \in Reqs \ {r} : pc'[q] = pc[q] /\ op'[q] = op[q] /\ view'[q] = view[q]
  BY StepMoves DEF IInv
<1>5. pc'[r] # "new" /\ pc'[r] \in StepsOf(op'[r].kind) /\ (op'[r].kind = "store" => op'[r].eid = r)
  BY <1>1, <1>2, <1>3
<1> QED
  BY <1>4, <1>5 DEF IInv, Shape

\* How the ledger grows.
LEMMA StepSets ==
    ASSUME IInv, NEW r \in Reqs, Start(r) \/ Step(r)
    PROVE  /\ Recorded \subseteq Recorded' /\ Tombstoned \subseteq Tombstoned'
           /\ \A e \in Recorded' \ Recorded :
                 e = r /\ pc[r] = "line" /\ op[r].kind = "store" /\ pc'[r] = "head"
           /\ \A e \in Tombstoned' \ Tombstoned :
                 e = op[r].eid /\ pc[r] = "line" /\ op[r].kind = "delete" /\ pc'[r] = "head"
           /\ pc'[r] = "head" => /\ op[r].kind = "store" => r \in Recorded'
                                 /\ op[r].kind = "delete" => op[r].eid \in Tombstoned'
<1>1. /\ pc \in [Reqs -> Steps] /\ op \in [Reqs -> Op] /\ ledger \in Seq(Record)
  BY DEF IInv, Typed
<1>3. CASE ledger' = ledger
  <2>1. Recorded' = Recorded /\ Tombstoned' = Tombstoned
    BY <1>3, LedgerKept
  <2>2. pc'[r] = "head" => AppendLine(r) /\ ~ledgerTorn
    BY <1>1 DEF Start, Step, WriteBlob, WriteManifest, AppendLine, AppendHead,
     RecordAudit, CheckDelete, AfterChecks, ListItem, Unlink, ItemRemoved, VerifyHead,
     VerifyDeleted, VerifyRecords, VerifyBlobs, VerifyReturn, PackBlobs, PackLedger, PackHead,
     StartStore, StartDelete, StartVerify, StartExport, Goto, LedgerGoto, reqVars
  <2>3. AppendLine(r) /\ ~ledgerTorn => ledger' = Append(ledger, EntryOf(r))
    BY DEF AppendLine
  <2>4. ledger' # Append(ledger, EntryOf(r))
    BY <1>1, <1>3
  <2> QED
    BY <2>1, <2>2, <2>3, <2>4
<1>4. CASE ledger' # ledger
  <2>1. /\ pc[r] = "line" /\ pc' = [pc EXCEPT ![r] = "head"]
        /\ EntryOf(r) \in Record /\ ledger' = Append(ledger, EntryOf(r))
        /\ op[r].kind = "store" => EntryOf(r) = [type |-> "signing", eid |-> r]
        /\ op[r].kind # "store" => /\ op[r].kind = "delete" /\ op[r].eid \in Recorded
                                   /\ EntryOf(r) = [type |-> "deletion", eid |-> op[r].eid]
    BY <1>4, StepLedger
  <2>2. /\ Recorded' = IF EntryOf(r).type = "signing" THEN Recorded \cup {EntryOf(r).eid} ELSE Recorded
        /\ Tombstoned' = IF EntryOf(r).type = "signing" THEN Tombstoned
                         ELSE Tombstoned \cup {EntryOf(r).eid}
    BY <1>1, <2>1, LedgerAppends
  <2>3. pc'[r] = "head"
    BY <1>1, <2>1
  <2>4. op[r].kind = "store" => EntryOf(r).type = "signing" /\ EntryOf(r).eid = r
    BY <2>1
  <2>5. op[r].kind # "store" => EntryOf(r).type # "signing" /\ EntryOf(r).eid = op[r].eid
                                /\ op[r].kind = "delete"
    BY <2>1
  <2> QED
    BY <2>1, <2>2, <2>3, <2>4, <2>5
<1> QED
  BY <1>3, <1>4

\* How the files change.
LEMMA StepBlobs ==
    ASSUME IInv, NEW r \in Reqs, Start(r) \/ Step(r)
    PROVE  \/ blobs' = blobs
           \/ /\ pc[r] = "blobs" /\ op[r].kind = "store" /\ r \notin Recorded /\ pc' = pc
              /\ UNCHANGED <<ledger, anchor, lockBy, removing, kept>>
              /\ \A q \in Reqs \ {r} : blobs'[q] = blobs[q]
           \/ /\ pc[r] = "unlink" /\ op[r].eid \in Recorded /\ pc' = pc /\ Disturb
              /\ UNCHANGED <<ledger, anchor, lockBy, removing, kept>>
              /\ \E b \in todo[r] :
                    /\ blobs' = [blobs EXCEPT ![op[r].eid] = blobs[op[r].eid] \ {b}]
                    /\ todo' = [todo EXCEPT ![r] = todo[r] \ {b}]
<1>1. CASE blobs' # blobs /\ \E b \in Blobs : WriteBlob(r, b)
  <2>1. PICK b \in Blobs : WriteBlob(r, b)
    BY <1>1
  <2>2. pc[r] = "blobs" /\ op[r].kind = "store"
    BY <2>1 DEF WriteBlob, IInv, Shape, StepsOf, Typed, Op, Kinds
  <2>3. r \notin Recorded
    BY <2>2 DEF IInv, Filed
  <2> QED
    BY <2>1, <2>2, <2>3 DEF WriteBlob, IInv, Typed, logVars, histVars, reqVars
<1>2. CASE blobs' # blobs /\ \E b \in Blobs : Unlink(r, b)
  <2>1. PICK b \in Blobs : Unlink(r, b)
    BY <1>2
  <2>2. pc[r] = "unlink" /\ op[r].eid \in Recorded
    BY <2>1 DEF Unlink, IInv, Deleting
  <2> QED
    BY <1>2, <2>1, <2>2 DEF Unlink, logVars
<1> QED
  BY <1>1, <1>2 DEF Start, Step, StartStore, WriteManifest, AppendLine, AppendHead, RecordAudit,
     StartDelete, CheckDelete, ListItem, ItemRemoved, StartVerify, VerifyHead,
     VerifyDeleted, VerifyRecords, VerifyBlobs, VerifyReturn, StartExport, PackBlobs,
     PackLedger, PackHead, diskVars

\* What is recorded stays so, keeps its call, and gets no more files.
LEMMA StepRecorded ==
    ASSUME IInv, NEW r \in Reqs, Start(r) \/ Step(r), NEW e \in Recorded
    PROVE  /\ e \in Reqs /\ pc[e] # "new" /\ op'[e] = op[e]
           /\ e \in Recorded' /\ blobs'[e] \subseteq blobs[e]
           /\ removing \subseteq removing' /\ kept \subseteq kept'
<1>1. Recorded \subseteq Reqs /\ blobs \in [Reqs -> SUBSET Blobs]
  BY LedgerSets DEF IInv, Typed
<1>2. pc[e] # "new"
  BY <1>1 DEF IInv, Filed
<1>3. op'[e] = op[e]
  BY <1>1, <1>2, StepMoves DEF IInv
<1>4. e \in Recorded'
  BY StepSets
<1>5. blobs'[e] \subseteq blobs[e]
  BY <1>1, StepBlobs
<1> QED
  BY <1>1, <1>2, <1>3, <1>4, <1>5, StepHistories

LEMMA StepDeleting ==
    ASSUME IInv, NEW r \in Reqs, Start(r) \/ Step(r)
    PROVE  Deleting'
<1>0. /\ pc \in [Reqs -> Steps] /\ op \in [Reqs -> Op] /\ todo \in [Reqs -> SUBSET (Blobs \cup Reqs)]
      /\ blobs \in [Reqs -> SUBSET Blobs] /\ Recorded \subseteq Reqs
  BY LedgerSets DEF IInv, Typed
<1> SUFFICES ASSUME NEW d \in Reqs
             PROVE  (LET e == op[d].eid IN
                     /\ pc[d] \in {"list", "unlink"} => AllowDelete /\ OldEnough(e)
                     /\ pc[d] \in {"list", "unlink"} \/ (pc[d] = "line" /\ op[d].kind = "delete") =>
                           e \in Recorded
                     /\ pc[d] = "unlink" => e \in removing /\ (blobs[e] \subseteq todo[d] \/ e \in kept)
                     /\ pc[d] = "line" /\ op[d].kind = "delete" =>
                           e \in removing /\ (blobs[e] = {} \/ e \in kept))'
  BY DEF Deleting
<1> DEFINE e == op[d].eid
<1>1. e \in Recorded => /\ op'[e] = op[e] /\ e \in Recorded' /\ blobs'[e] \subseteq blobs[e]
                        /\ (OldEnough(e) => now' - op'[e].signed >= MinRetention)
                        /\ removing \subseteq removing' /\ kept \subseteq kept'
  BY StepRecorded, StepMoves DEF OldEnough, SignedAt, IInv
<1>2. CASE d # r \/ (pc'[d] = pc[d] /\ op'[d] = op[d] /\ todo'[d] = todo[d])
  <2>1. pc'[d] = pc[d] /\ op'[d] = op[d] /\ todo'[d] = todo[d]
    BY <1>2, StepMoves DEF IInv
  <2> QED
    BY <1>1, <2>1 DEF IInv, Deleting, OldEnough, SignedAt
<1>3. CASE d = r /\ CheckDelete(r)
  <2>1. op' = op /\ now' = now /\ pc'[r] \in {"failed", "refuse", "list"}
    BY <1>0, <1>3 DEF CheckDelete, LedgerGoto, Goto, AfterChecks
  <2>2. pc'[r] = "list" => op[r].eid \in Recorded /\ AllowDelete /\ OldEnough(op[r].eid)
    BY <1>0, <1>3 DEF CheckDelete, LedgerGoto, Goto, AfterChecks
  <2> QED
    BY <1>1, <1>3, <2>1, <2>2 DEF OldEnough, SignedAt
<1>4. CASE d = r /\ ListItem(r)
  <2>1. /\ op' = op /\ pc'[r] = "unlink" /\ pc[r] = "list" /\ todo'[r] = blobs[e] /\ blobs' = blobs
        /\ e \in removing'
    BY <1>0, <1>4 DEF ListItem, Goto, diskVars
  <2> QED
    BY <1>1, <1>4, <2>1 DEF IInv, Deleting, OldEnough, SignedAt
<1>5. CASE d = r /\ \E b \in Blobs : Unlink(r, b)
  <2>1. PICK b \in Blobs : Unlink(r, b)
    BY <1>5
  <2>2. op' = op /\ pc' = pc /\ pc[r] = "unlink" /\ todo'[r] = todo[r] \ {b}
    BY <1>0, <2>1 DEF Unlink
  <2>3. e \in Recorded /\ e \in removing /\ (blobs[e] \subseteq todo[r] \/ e \in kept)
    BY <1>5, <2>2 DEF IInv, Deleting
  <2>4. blobs'[e] \subseteq todo'[r] \/ e \in kept'
    BY <1>0, <1>1, <1>5, <2>1, <2>2, <2>3 DEF Unlink
  <2> QED
    BY <1>1, <1>5, <2>2, <2>3, <2>4 DEF IInv, Deleting, OldEnough, SignedAt
<1>6. CASE d = r /\ ItemRemoved(r)
  <2>1. op' = op /\ pc'[r] = "line" /\ pc[r] = "unlink" /\ todo[r] = {} /\ blobs' = blobs
    BY <1>0, <1>6 DEF ItemRemoved, Goto, diskVars
  <2> QED
    BY <1>1, <1>6, <2>1 DEF IInv, Deleting
<1>7. CASE d = r /\ WriteManifest(r)
  <2>1. op' = op /\ pc'[r] = "line" /\ op[r].kind = "store"
    BY <1>0, <1>7 DEF WriteManifest, Goto, IInv, Shape, StepsOf, Op, Kinds
  <2> QED
    BY <1>7, <2>1
<1>8. CASE d = r /\ pc'[r] \notin {"list", "unlink", "line"}
  BY <1>8
<1>9. CASE d = r /\ \E b \in Blobs : WriteBlob(r, b)
  BY <1>2, <1>9 DEF WriteBlob, reqVars
<1> QED
  BY <1>0, <1>2, <1>3, <1>4, <1>5, <1>6, <1>7, <1>8, <1>9
     DEF Start, Step, StartStore, AppendLine, AppendHead, RecordAudit, StartDelete,
     StartVerify, VerifyHead, VerifyDeleted, VerifyRecords, VerifyBlobs, VerifyReturn,
     StartExport, PackBlobs, PackLedger, PackHead, Goto, LedgerGoto, reqVars

\* Which steps lead to the ends of an append, and from where.
LEMMA StepEnds ==
    ASSUME IInv, NEW r \in Reqs, Start(r) \/ Step(r)
    PROVE  /\ pc'[r] = "head" <=> AppendLine(r) /\ ~ledgerTorn
           /\ pc[r] = "head" <=> AppendHead(r)
           /\ pc'[r] = "audit" => \/ pc[r] = "head" /\ op'[r] = op[r]
                                  \/ pc[r] = "x_head" /\ op'[r].kind = "export"
           /\ pc'[r] = "line" => pc[r] \in {"blobs", "unlink"} /\ op'[r] = op[r]
           /\ pc'[r] = "line" /\ op[r].kind = "store" => blobs[r] = Blobs /\ blobs' = blobs
           /\ pc'[r] = "ok" => \/ pc[r] = "audit" /\ ~auditTorn
                               \/ pc[r] = "v_blobs" /\ op'[r].kind = "verify"
           /\ pc'[r] = "failed" /\ op[r].kind = "store" =>
                 (pc[r] = "audit" /\ auditTorn) \/ pc[r] = "line"
           /\ pc'[r] = "x_blobs" => op'[r].eid \in Recorded
           /\ anchor' = anchor \/ (AppendHead(r) /\ anchor' = Len(ledger))
<1>0. /\ pc \in [Reqs -> Steps] /\ op \in [Reqs -> Op] /\ blobs \in [Reqs -> SUBSET Blobs]
      /\ pc[r] \in StepsOf(op[r].kind) /\ op[r].kind \in Kinds
  BY DEF IInv, Typed, Shape, Op
<1>1. CASE Start(r)
  BY <1>0, <1>1 DEF Start, StartStore, StartDelete, StartVerify, StartExport, Begin, Goto,
     LedgerGoto, StepsOf, AppendLine, AppendHead, logVars
<1>2. CASE Step(r)
  <2>1. \A b \in Blobs : WriteBlob(r, b) \/ Unlink(r, b) =>
           /\ pc' = pc /\ op' = op /\ pc[r] \in {"blobs", "unlink"} /\ anchor' = anchor
    BY DEF WriteBlob, Unlink, reqVars, logVars
  <2>2. \A e \in Reqs : VerifyBlobs(r, e) =>
           /\ pc' = pc /\ op' = op /\ pc[r] = "v_blobs" /\ anchor' = anchor
    BY DEF VerifyBlobs, logVars
  <2> QED
    BY <1>0, <1>2, <2>1, <2>2 DEF Step, WriteManifest, ItemComplete, AppendLine, AppendHead, AnchorCount, RecordAudit,
       CheckDelete, AfterChecks, ListItem, ItemRemoved, VerifyHead,
       VerifyDeleted, VerifyRecords, VerifyReturn, PackBlobs, PackLedger, PackHead,
       Goto, LedgerGoto, StepsOf, Kinds, reqVars, logVars, diskVars
<1> QED
  BY <1>1, <1>2

LEMMA Counts ==
    ASSUME NEW S \in SUBSET Reqs, NEW T \in SUBSET Reqs, S \subseteq T
    PROVE  /\ Cardinality(S) \in Nat /\ Cardinality(T) \in Nat
           /\ Cardinality(S) <= Cardinality(T)
           /\ S # T => Cardinality(S) + 1 <= Cardinality(T)
<1>1. IsFiniteSet(S) /\ IsFiniteSet(T)
  BY StoreAssumption, FS_Subset
<1>2. Cardinality(S) \in Nat /\ Cardinality(T) \in Nat
  BY <1>1, FS_CardinalityType
<1>3. Cardinality(S) <= Cardinality(T) /\ (Cardinality(S) = Cardinality(T) => S = T)
  BY <1>1, FS_Subset, Zenon
<1> QED
  BY <1>2, <1>3

LEMMA StepAnchored ==
    ASSUME IInv, NEW r \in Reqs, Start(r) \/ Step(r)
    PROVE  Anchored'
<1>0. /\ pc \in [Reqs -> Steps] /\ lockBy \in Reqs \cup {NoReq} /\ Len(ledger) \in Nat
      /\ ledger \in Seq(Record)
  BY LedgerSets DEF IInv, Typed
<1>1. \A q \in Reqs \ {r} : pc'[q] = pc[q]
  BY StepMoves DEF IInv
<1>2. CASE AppendLine(r) /\ ~ledgerTorn
  <2>1. /\ lockBy = NoReq /\ lockBy' = r /\ pc'[r] = "head" /\ anchor' = anchor /\ crashes' = crashes
        /\ pc[r] = "line" /\ ledger' = Append(ledger, EntryOf(r))
    BY <1>0, <1>2 DEF AppendLine, LedgerGoto, MayRead, Goto, faultVars
  <2>2. \A q \in Reqs : pc'[q] = "head" <=> lockBy' = q
    BY <1>1, <2>1, StoreAssumption DEF IInv, Anchored
  <2>3. Len(ledger') = Len(ledger) + 1
    BY <1>0, <2>1
  <2>4. Appended \subseteq Appended' /\ r \in Appended' \ Appended
    BY <1>1, <2>1 DEF Appended
  <2>5. Cardinality(Appended) + 1 <= Cardinality(Appended') /\ Cardinality(Appended) \in Nat
        /\ Cardinality(Appended') \in Nat
    BY <2>4, Counts DEF Appended
  <2>6. anchor' \in 0 .. Len(ledger') /\ Len(ledger') <= Cardinality(Appended')
    BY <1>0, <2>1, <2>3, <2>5 DEF IInv, Anchored
  <2> QED
    BY <2>1, <2>2, <2>6, StoreAssumption DEF Anchored
<1>3. CASE ~(AppendLine(r) /\ ~ledgerTorn)
  <2>1. ledger' = ledger
    BY <1>3, StepLedger
  <2>2. Appended \subseteq Appended'
    <3>1. pc[r] \in {"head", "audit", "ok", "failed", "dead"} => pc'[r] \in {"audit", "ok", "failed"}
      BY <1>0 DEF Start, Step, WriteBlob, WriteManifest, AppendLine, AppendHead,
       RecordAudit, CheckDelete, ListItem, Unlink, ItemRemoved, VerifyHead,
       VerifyDeleted, VerifyRecords, VerifyBlobs, VerifyReturn, PackBlobs, PackLedger, PackHead,
       StartStore, StartDelete, StartVerify, StartExport, Begin, Goto
    <3> QED
      BY <1>1, <3>1 DEF Appended
  <2>3. /\ Cardinality(Appended) <= Cardinality(Appended') /\ Cardinality(Appended) \in Nat
        /\ Cardinality(Appended') \in Nat
    BY <2>2, Counts DEF Appended
  <2>4. anchor' \in 0 .. Len(ledger') /\ Len(ledger') <= Cardinality(Appended')
    BY <1>0, <2>1, <2>3, StepEnds DEF IInv, Anchored
  <2>5. crashes' = crashes
    BY StepMoves DEF IInv
  <2>6. CASE AppendHead(r)
    <3>1. lockBy' = NoReq /\ anchor' = Len(ledger) /\ pc[r] = "head" /\ pc'[r] = "audit"
      BY <1>0, <2>6 DEF AppendHead, AnchorCount, Goto
    <3>2. \A q \in Reqs : pc'[q] = "head" <=> lockBy' = q
      BY <1>1, <3>1, StoreAssumption DEF IInv, Anchored
    <3> QED
      BY <2>1, <2>4, <3>1, <3>2 DEF Anchored
  <2>7. CASE ~AppendHead(r)
    <3>1. lockBy' = lockBy /\ anchor' = anchor /\ pc[r] # "head" /\ pc'[r] # "head"
      BY <1>3, <2>7, StepEnds, StepHistories
    <3> QED
      BY <1>1, <2>1, <2>4, <2>5, <3>1 DEF IInv, Anchored
  <2> QED
    BY <2>6, <2>7
<1> QED
  BY <1>2, <1>3

LEMMA StepSealing ==
    ASSUME IInv, NEW r \in Reqs, Start(r) \/ Step(r)
    PROVE  Sealing'
<1> SUFFICES ASSUME NEW q \in Reqs
             PROVE  /\ pc'[q] \in {"head", "audit"} /\ op'[q].kind = "store" => q \in Recorded'
                    /\ pc'[q] \in {"head", "audit"} /\ op'[q].kind = "delete" =>
                          op'[q].eid \in Tombstoned'
  BY DEF Sealing
<1>1. CASE q # r
  BY <1>1, StepMoves, StepSets DEF IInv, Sealing
<1>2. CASE q = r
  <2>1. pc'[r] = "head" => op'[r] = op[r]
    BY StepEnds, StepMoves DEF IInv, AppendLine
  <2>2. pc'[r] = "audit" /\ op'[r].kind # "export" => pc[r] = "head" /\ op'[r] = op[r]
    BY StepEnds
  <2> QED
    BY <1>2, <2>1, <2>2, StepSets DEF IInv, Sealing
<1> QED
  BY <1>1, <1>2

LEMMA StepFiled ==
    ASSUME IInv, NEW r \in Reqs, Start(r) \/ Step(r)
    PROVE  Filed'
<1>0. /\ Recorded \subseteq Reqs /\ Tombstoned \subseteq Reqs /\ blobs \in [Reqs -> SUBSET Blobs]
      /\ pc \in [Reqs -> Steps]
  BY LedgerSets DEF IInv, Typed
<1>1. \A q \in Reqs \ {r} : pc'[q] = pc[q] /\ op'[q] = op[q]
  BY StepMoves DEF IInv
<1>2. ASSUME NEW q \in Reqs, pc'[q] = "line", op'[q].kind = "store"
      PROVE  blobs'[q] = Blobs
  <2>1. CASE q = r
    BY <1>2, <2>1, StepEnds
  <2>2. CASE q # r
    <3>1. pc[q] = "line" /\ op[q].kind = "store" /\ blobs[q] = Blobs /\ q \notin Recorded
      BY <1>1, <1>2, <2>2 DEF IInv, Filed
    <3> QED
      BY <1>0, <2>2, <3>1, StepBlobs
  <2> QED
    BY <2>1, <2>2
<1>3. ASSUME NEW e \in Recorded'
      PROVE  /\ op'[e].kind = "store" /\ pc'[e] \in {"head", "audit", "ok", "failed", "dead"}
             /\ pc'[e] = "failed" => auditTorn'
  <2>1. CASE e \notin Recorded
    <3>1. e = r /\ pc[r] = "line" /\ op[r].kind = "store" /\ pc'[r] = "head"
      BY <1>3, <2>1, StepSets
    <3> QED
      BY <3>1, StepMoves DEF IInv
  <2>2. CASE e \in Recorded
    <3>1. op[e].kind = "store" /\ op'[e] = op[e] /\ pc[e] \in {"head", "audit", "ok", "failed", "dead"}
          /\ (pc[e] = "failed" => auditTorn) /\ auditTorn' = auditTorn
      BY <2>2, StepRecorded, StepMoves DEF IInv, Filed
    <3>2. CASE e # r
      BY <1>0, <1>1, <2>2, <3>1, <3>2
    <3>3. CASE e = r
      <4>1. pc[r] \in {"head", "audit", "ok", "failed", "dead"} =>
               (pc[r] = "head" /\ pc'[r] = "audit") \/ (pc[r] = "audit" /\ pc'[r] \in {"ok", "failed"})
        BY <1>0 DEF Start, Step, WriteBlob, WriteManifest, AppendLine, AppendHead,
         RecordAudit, CheckDelete, ListItem, Unlink, ItemRemoved, VerifyHead,
         VerifyDeleted, VerifyRecords, VerifyBlobs, VerifyReturn, PackBlobs, PackLedger, PackHead,
         StartStore, StartDelete, StartVerify, StartExport, Begin, Goto
      <4> QED
        BY <3>1, <3>3, <4>1, StepEnds
    <3> QED
      BY <3>2, <3>3
  <2> QED
    BY <2>1, <2>2
<1>4. ASSUME NEW q \in Reqs, pc'[q] = "x_blobs"
      PROVE  op'[q].eid \in Recorded'
  BY <1>1, <1>4, StepEnds, StepSets DEF IInv, Filed
<1>5. removing' \subseteq Recorded'
  <2>1. ListItem(r) => op[r].eid \in Recorded
    BY DEF ListItem, IInv, Deleting
  <2> QED
    BY <2>1, StepHistories, StepSets DEF IInv, Filed
<1>6. ASSUME NEW e \in Tombstoned'
      PROVE  e \in removing' /\ (blobs'[e] # {} => e \in kept')
  <2>1. CASE e \in Tombstoned
    <3>1. e \in removing /\ e \in Recorded /\ (blobs[e] # {} => e \in kept)
      BY <2>1 DEF IInv, Filed, LedgerMatchesFiles, TombstonedIsGone
    <3> QED
      BY <1>0, <3>1, StepRecorded
  <2>2. CASE e \notin Tombstoned
    <3>1. e = op[r].eid /\ pc[r] = "line" /\ op[r].kind = "delete" /\ pc'[r] = "head"
      BY <1>6, <2>2, StepSets
    <3>2. e \in Recorded /\ e \in removing /\ (blobs[e] = {} \/ e \in kept)
      BY <3>1 DEF IInv, Deleting
    <3> QED
      BY <1>0, <3>2, StepRecorded
  <2> QED
    BY <2>1, <2>2
<1>7. ASSUME NEW e \in Recorded', blobs'[e] # Blobs
      PROVE  e \in removing' \/ powerCuts' > 0
  <2>1. powerCuts' = powerCuts
    BY StepMoves DEF IInv
  <2>2. CASE e \in Recorded
    <3>1. CASE blobs[e] # Blobs
      BY <2>1, <2>2, <3>1, StepRecorded DEF IInv, Filed, LedgerMatchesFiles, RecordedIsWhole
    <3>2. CASE blobs[e] = Blobs
      <4>1. pc[r] = "unlink" /\ e = op[r].eid /\ removing' = removing
        BY <1>0, <1>7, <2>2, <3>2, StepBlobs
      <4> QED
        BY <4>1 DEF IInv, Deleting
    <3> QED
      BY <3>1, <3>2
  <2>3. CASE e \notin Recorded
    <3>1. e = r /\ pc[r] = "line" /\ op[r].kind = "store"
      BY <1>7, <2>3, StepSets
    <3>2. blobs[r] = Blobs /\ blobs' = blobs
      BY <3>1, StepBlobs DEF IInv, Filed
    <3> QED
      BY <1>7, <3>1, <3>2
  <2> QED
    BY <2>2, <2>3
<1> QED
  BY <1>2, <1>3, <1>4, <1>5, <1>6, <1>7
     DEF Filed, LedgerMatchesFiles, RecordedIsWhole, TombstonedIsGone

LEMMA StepAudited ==
    ASSUME IInv, NEW r \in Reqs, Start(r) \/ Step(r)
    PROVE  Audited'
<1>0. /\ pc \in [Reqs -> Steps] /\ op \in [Reqs -> Op] /\ audit \subseteq AuditEntry
  BY DEF IInv, Typed
<1>1. \A q \in Reqs : pc[q] # "new" => op'[q] = op[q] /\ pc'[q] # "new"
  BY StepMoves, StepShape DEF IInv
<1>2. ASSUME NEW q \in Reqs, pc'[q] = "ok", op'[q].kind # "verify"
      PROVE  [act |-> op'[q].kind, by |-> q, result |-> "ok"] \in audit'
  <2>1. CASE q # r
    BY <1>2, <2>1, StepMoves, StepAudit DEF IInv, Audited
  <2>2. CASE q = r
    <3>1. pc[r] = "audit" /\ ~auditTorn /\ op'[r] = op[r]
      BY <1>1, <1>2, <2>2, StepEnds
    <3>2. audit' = audit \cup {[act |-> op[r].kind, by |-> r, result |-> "ok"]}
      BY <3>1 DEF Start, Step, WriteBlob, WriteManifest, AppendLine, AppendHead,
         RecordAudit, CheckDelete, ListItem, Unlink, ItemRemoved, VerifyHead,
         VerifyDeleted, VerifyRecords, VerifyBlobs, VerifyReturn, PackBlobs, PackLedger, PackHead,
         StartStore, StartDelete, StartVerify, StartExport, Begin
    <3> QED
      BY <2>2, <3>1, <3>2
  <2> QED
    BY <2>1, <2>2
<1>3. ASSUME NEW a \in audit'
      PROVE  /\ pc'[a.by] # "new"
             /\ a.result = "ok" => /\ a.act = "store" => a.by \in Recorded'
                                   /\ a.act = "delete" => op'[a.by].eid \in Tombstoned'
  <2>1. CASE a \in audit
    <3>1. a.by \in Reqs
      BY <1>0, <2>1 DEF AuditEntry
    <3> QED
      BY <1>1, <2>1, <3>1, StepSets DEF IInv, Audited
  <2>2. CASE a \notin audit
    <3>1. /\ pc[r] \in {"audit", "refuse"} /\ pc'[r] # "new"
          /\ a = [act |-> op[r].kind, by |-> r,
                  result |-> IF pc[r] = "audit" THEN "ok" ELSE "refused"]
      BY <1>0, <1>3, <2>2, StepAudit
    <3>2. op' = op /\ a.by = r /\ a.act = op[r].kind /\ (a.result = "ok" => pc[r] = "audit")
      BY <3>1, StepMoves DEF IInv
    <3> QED
      BY <3>1, <3>2, StepSets DEF IInv, Sealing
  <2> QED
    BY <2>1, <2>2
<1> QED
  BY <1>2, <1>3 DEF Audited

\* A step that moves what a report reads disturbs every report under way.
LEMMA StepDisturbs ==
    ASSUME IInv, NEW r \in Reqs, Start(r) \/ Step(r)
    PROVE  \/ Disturb
           \/ /\ \A q \in Reqs \ {r} : disturbed'[q] = disturbed[q]
              /\ UNCHANGED <<ledger, anchor, lockBy>>
              /\ blobs' = blobs \/ \E b : WriteBlob(r, b)
<1>1. disturbed \in [Reqs -> BOOLEAN]
  BY DEF IInv, Typed
<1> QED
  BY <1>1 DEF Start, Step, StartStore, WriteManifest, AppendLine, AppendHead, RecordAudit,
     StartDelete, CheckDelete, ListItem, Unlink, WriteBlob, ItemRemoved, StartVerify, VerifyHead,
     VerifyDeleted, VerifyRecords, VerifyBlobs, VerifyReturn, StartExport, PackBlobs,
     PackLedger, PackHead, diskVars, logVars, histVars

QuietOf(r) ==
    /\ r \in Watching => Still(r)
    /\ op[r].kind = "verify" /\ pc[r] # "dead" => QuietVerify(r)
    /\ op[r].kind = "export" /\ pc[r] # "dead" => QuietExport(r)

\* Another report.
LEMMA OtherQuiet ==
    ASSUME IInv, NEW r \in Reqs, Start(r) \/ Step(r), NEW q \in Reqs \ {r}, ~disturbed'[q]
    PROVE  QuietOf(q)'
<1>1. /\ pc'[q] = pc[q] /\ op'[q] = op[q] /\ todo'[q] = todo[q] /\ view'[q] = view[q]
      /\ crashes' = crashes
  BY StepMoves DEF IInv
<1>2. disturbed \in [Reqs -> BOOLEAN] /\ Recorded \subseteq Reqs
  BY LedgerSets DEF IInv, Typed
<1>3. ~disturbed[q] /\ (q \in Watching => ~Disturb)
  BY <1>2, StepDisturbs DEF Disturb
<1>4. QuietOf(q)
  BY <1>3 DEF IInv, Quiet, QuietOf
<1>5. removing \subseteq removing'
  BY StepHistories
<1>6. CASE q \notin Watching
  <2>1. pc[q] \notin {"v_head", "v_deleted", "v_records", "v_blobs", "x_blobs", "x_ledger", "x_head"}
    BY <1>6 DEF Watching
  <2> QED
    BY <1>1, <1>4, <1>5, <2>1 DEF QuietOf, QuietVerify, QuietExport, Watching
<1>7. CASE q \in Watching
  <2>1. /\ UNCHANGED <<ledger, anchor, lockBy>>
        /\ blobs' = blobs \/ \E b : WriteBlob(r, b)
    BY <1>3, <1>7, StepDisturbs
  <2>2. Recorded' = Recorded /\ Tombstoned' = Tombstoned
    BY <2>1, LedgerKept
  <2>3. \A e \in Recorded : blobs'[e] = blobs[e]
    <3>1. CASE blobs' = blobs
      BY <3>1
    <3>2. ASSUME NEW b, WriteBlob(r, b) PROVE \A e \in Recorded : blobs'[e] = blobs[e]
      <4>1. r \notin Recorded
        BY <3>2 DEF WriteBlob, IInv, Filed
      <4> QED
        BY <1>2, <3>2, <4>1 DEF WriteBlob, IInv, Typed
    <3> QED
      BY <2>1, <3>1, <3>2
  <2>4. Still(q)'
    BY <1>1, <1>4, <1>7, <2>1, <2>2, <2>3 DEF QuietOf, Still
  <2> QED
    BY <1>1, <1>4, <1>5, <2>1, <2>2, <2>4 DEF QuietOf, QuietVerify, QuietExport, Watching
<1> QED
  BY <1>6, <1>7

\* A report begins undisturbed when nothing was left half done.
LEMMA StartsStill ==
    ASSUME IInv, ~Unfinished, MayRead
    PROVE  \A r : Still(r)
<1>1. crashes = 0 /\ powerCuts = 0 /\ \A e \in removing : e \in Tombstoned
  BY DEF Unfinished, IInv, Typed
<1> QED
  BY <1>1 DEF MayRead, Still, IInv, Filed, LedgerMatchesFiles, RecordedIsWhole

LEMMA OwnQuiet ==
    ASSUME IInv, NEW r \in Reqs, Start(r) \/ Step(r), ~disturbed'[r]
    PROVE  QuietOf(r)'
<1>0. /\ pc \in [Reqs -> Steps] /\ op \in [Reqs -> Op] /\ view \in [Reqs -> View]
      /\ todo \in [Reqs -> SUBSET (Blobs \cup Reqs)] /\ disturbed \in [Reqs -> BOOLEAN]
      /\ pc[r] \in StepsOf(op[r].kind) /\ op[r].kind \in Kinds /\ Recorded \subseteq Reqs
      /\ crashes' = crashes
  BY LedgerSets, StepMoves DEF IInv, Typed, Shape, Op
<1>1. view[r].bad \subseteq Reqs /\ view[r] \in View
  BY <1>0 DEF View
<1>2. CASE StartStore(r, op'[r].signed) \/ \E e \in Named, j \in BOOLEAN : StartDelete(r, e, j)
  <2>1. op'[r].kind \in {"store", "delete"} /\ pc'[r] \in {"blobs", "find", "refuse"}
    BY <1>0, <1>2 DEF StartStore, StartDelete, Begin, Goto
  <2> QED
    BY <2>1 DEF QuietOf, Watching
<1>3. CASE StartVerify(r)
  <2>1. /\ op'[r].kind = "verify" /\ pc'[r] \in {"v_head", "failed"} /\ pc[r] = "new" /\ MayRead
        /\ view'[r].len = Len(ledger) /\ view'[r].bad = view[r].bad /\ ~Unfinished
        /\ UNCHANGED <<blobs, ledger, lockBy>>
    BY <1>0, <1>1, <1>3 DEF StartVerify, Begin, LedgerGoto, Goto, View, diskVars, logVars
  <2>2. view[r].bad = {} /\ Recorded' = Recorded /\ Tombstoned' = Tombstoned
    BY <2>1, LedgerKept DEF IInv, Shape
  <2>3. Still(r)'
    BY <1>0, <2>1, <2>2, StartsStill DEF Still
  <2> QED
    BY <2>1, <2>2, <2>3 DEF QuietOf, QuietVerify
<1>4. CASE \E e \in Named : StartExport(r, e)
  <2>1. /\ op'[r].kind = "export" /\ pc'[r] \in {"x_blobs", "failed"} /\ MayRead
        /\ ~Unfinished /\ UNCHANGED <<blobs, ledger, lockBy>>
    BY <1>0, <1>4 DEF StartExport, Begin, LedgerGoto, Goto, diskVars, logVars
  <2>2. Recorded' = Recorded /\ Tombstoned' = Tombstoned
    BY <2>1, LedgerKept
  <2>3. Still(r)'
    BY <1>0, <2>1, <2>2, StartsStill DEF Still
  <2> QED
    BY <2>1, <2>3 DEF QuietOf, QuietExport
<1>5. CASE Step(r) /\ op[r].kind \in {"store", "delete"}
  <2>1. op' = op /\ pc'[r] \notin {"v_head", "v_deleted", "v_records", "v_blobs", "x_blobs", "x_ledger", "x_head"}
    BY <1>0, <1>5 DEF Step, WriteBlob, WriteManifest, AppendLine, AppendHead,
         RecordAudit, CheckDelete, AfterChecks, ListItem, Unlink, ItemRemoved, VerifyHead,
         VerifyDeleted, VerifyRecords, VerifyBlobs, VerifyReturn, PackBlobs, PackLedger, PackHead,
         Goto, LedgerGoto, StepsOf, reqVars
  <2> QED
    BY <1>5, <2>1 DEF QuietOf, Watching
<1>6. CASE Step(r) /\ op[r].kind = "verify"
  <2>1. VerifyHead(r) \/ VerifyDeleted(r) \/ VerifyRecords(r) \/ VerifyReturn(r)
        \/ \E e \in Reqs : VerifyBlobs(r, e)
    BY <1>0, <1>6 DEF Step, WriteBlob, WriteManifest, AppendLine, AppendHead,
         RecordAudit, CheckDelete, ListItem, Unlink, ItemRemoved, PackBlobs, PackLedger, PackHead,
         StepsOf
  <2>2. /\ r \in Watching /\ op' = op /\ disturbed' = disturbed
        /\ UNCHANGED <<blobs, ledger, lockBy, removing>>
    BY <2>1 DEF VerifyHead, VerifyDeleted, VerifyRecords, VerifyReturn, VerifyBlobs, Watching,
       diskVars, logVars, histVars
  <2>3. Recorded' = Recorded /\ Tombstoned' = Tombstoned
    BY <2>2, LedgerKept
  <2>4. Still(r) /\ Still(r)' /\ QuietVerify(r)
    BY <1>0, <1>6, <2>2, <2>3 DEF IInv, Quiet, Still, Watching
  <2>5. CASE VerifyHead(r)
    <3>1. /\ pc'[r] = "v_deleted" /\ view'[r].sound = (anchor = view[r].len)
          /\ view'[r].bad = view[r].bad /\ view[r].len = Len(ledger)
      BY <1>0, <1>1, <2>4, <2>5 DEF VerifyHead, Goto, View, QuietVerify
    <3>2. anchor = Len(ledger)
      BY <2>4 DEF Still, IInv, Anchored
    <3> QED
      BY <1>6, <2>2, <2>4, <2>5, <3>1, <3>2 DEF QuietOf, QuietVerify, VerifyHead
  <2>6. CASE VerifyDeleted(r)
    <3>1. /\ pc'[r] \in {"v_records", "failed"} /\ view'[r].deleted = Tombstoned
          /\ view'[r].bad = view[r].bad /\ view'[r].sound = view[r].sound
      BY <1>0, <1>1, <2>6 DEF VerifyDeleted, LedgerGoto, Goto, View
    <3> QED
      BY <1>6, <2>2, <2>3, <2>4, <2>6, <3>1 DEF QuietOf, QuietVerify, VerifyDeleted
  <2>7. CASE VerifyRecords(r)
    <3>1. /\ pc'[r] \in {"v_blobs", "failed"} /\ todo'[r] = Recorded \ view[r].deleted /\ view' = view
          /\ pc[r] = "v_records"
      BY <1>0, <2>7 DEF VerifyRecords, LedgerGoto, Goto, ToCheck
    <3> QED
      BY <1>6, <2>2, <2>3, <2>4, <3>1 DEF QuietOf, QuietVerify
  <2>8. ASSUME NEW e \in Reqs, VerifyBlobs(r, e) PROVE QuietOf(r)'
    <3>1. pc' = pc /\ pc[r] = "v_blobs" /\ e \in todo[r] /\ todo'[r] = todo[r] \ {e}
      BY <1>0, <2>8 DEF VerifyBlobs
    <3>2. blobs[e] = Blobs
      BY <2>4, <3>1 DEF Still, QuietVerify
    <3>3. view'[r].bad = view[r].bad /\ view'[r].sound = view[r].sound
      BY <1>0, <1>1, <2>8, <3>2 DEF VerifyBlobs, View
    <3> QED
      BY <1>6, <2>2, <2>3, <2>4, <3>1, <3>3 DEF QuietOf, QuietVerify
  <2>9. CASE VerifyReturn(r)
    <3>1. pc'[r] = "ok" /\ view' = view /\ pc[r] = "v_blobs"
      BY <1>0, <2>9 DEF VerifyReturn, Goto
    <3> QED
      BY <1>6, <2>2, <2>4, <3>1 DEF QuietOf, QuietVerify
  <2> QED
    BY <2>1, <2>5, <2>6, <2>7, <2>8, <2>9
<1>7. CASE Step(r) /\ op[r].kind = "export"
  <2>1. PackBlobs(r) \/ PackLedger(r) \/ PackHead(r) \/ RecordAudit(r)
    BY <1>0, <1>7 DEF Step, WriteBlob, WriteManifest, AppendLine, AppendHead,
         CheckDelete, ListItem, Unlink, ItemRemoved, VerifyHead, VerifyDeleted, VerifyRecords,
         VerifyReturn, VerifyBlobs, StepsOf, IInv, Anchored
  <2>2. op' = op /\ disturbed' = disturbed /\ UNCHANGED <<blobs, ledger, lockBy, removing>>
    BY <2>1 DEF PackBlobs, PackLedger, PackHead, RecordAudit, diskVars, logVars, histVars
  <2>3. Recorded' = Recorded /\ Tombstoned' = Tombstoned
    BY <2>2, LedgerKept
  <2>4. QuietExport(r) /\ (r \in Watching => Still(r) /\ Still(r)')
    BY <1>0, <1>7, <2>1, <2>2, <2>3 DEF IInv, Quiet, Still, PackBlobs, PackLedger, PackHead, RecordAudit
  <2>5. CASE PackBlobs(r)
    <3>1. pc'[r] = "x_ledger" /\ view'[r].files = blobs[op[r].eid] /\ r \in Watching
      BY <1>0, <1>1, <2>5 DEF PackBlobs, Goto, View, Watching
    <3>2. op[r].eid \in Recorded
      BY <2>5 DEF PackBlobs, IInv, Filed
    <3>3. blobs[op[r].eid] = Blobs \/ op[r].eid \in removing
      BY <2>4, <3>1, <3>2 DEF Still, IInv, Filed
    <3> QED
      BY <1>7, <2>2, <2>4, <3>1, <3>3 DEF QuietOf, QuietExport
  <2>6. CASE PackLedger(r)
    <3>1. /\ pc[r] = "x_ledger" /\ pc'[r] = "x_head" /\ r \in Watching
          /\ view'[r].len = Len(ledger) /\ view'[r].files = view[r].files
      BY <1>0, <1>1, <2>6 DEF PackLedger, Goto, View, Watching
    <3> QED
      BY <1>7, <2>2, <2>4, <3>1 DEF QuietOf, QuietExport
  <2>7. CASE PackHead(r)
    <3>1. /\ pc[r] = "x_head" /\ pc'[r] = "audit" /\ r \in Watching
          /\ view'[r].head = anchor /\ view'[r].files = view[r].files /\ view'[r].len = view[r].len
      BY <1>0, <1>1, <2>7 DEF PackHead, Goto, View, Watching
    <3>2. anchor = Len(ledger)
      BY <2>4, <3>1 DEF Still, IInv, Anchored
    <3>3. view[r].len = Len(ledger) /\ r \notin Watching'
      BY <2>4, <3>1 DEF QuietExport, Watching
    <3> QED
      BY <1>7, <2>2, <2>4, <3>1, <3>2, <3>3 DEF QuietOf, QuietExport
  <2>8. CASE RecordAudit(r)
    <3>1. pc[r] = "audit" /\ pc'[r] \in {"ok", "failed"} /\ view' = view /\ r \notin Watching'
      BY <1>0, <1>7, <2>8 DEF RecordAudit, Goto, Watching, StepsOf
    <3> QED
      BY <1>7, <2>2, <2>4, <3>1 DEF QuietOf, QuietExport
  <2> QED
    BY <2>1, <2>5, <2>6, <2>7, <2>8
<1>8. Start(r) => \/ StartStore(r, op'[r].signed) \/ StartVerify(r)
                  \/ \E e \in Named, j \in BOOLEAN : StartDelete(r, e, j)
                  \/ \E e \in Named : StartExport(r, e)
  BY <1>0 DEF Start, StartStore, Begin
<1>9. Step(r) => op[r].kind # "none"
  BY <1>0 DEF Step, WriteBlob, WriteManifest, AppendLine, AppendHead, RecordAudit, CheckDelete,
     ListItem, Unlink, ItemRemoved, VerifyHead, VerifyDeleted, VerifyRecords, VerifyBlobs,
     VerifyReturn, PackBlobs, PackLedger, PackHead, StepsOf
<1> QED
  BY <1>0, <1>2, <1>3, <1>4, <1>5, <1>6, <1>7, <1>8, <1>9 DEF Kinds

LEMMA StepQuiet ==
    ASSUME IInv, NEW r \in Reqs, Start(r) \/ Step(r)
    PROVE  Quiet'
<1>1. ASSUME NEW q \in Reqs, ~disturbed'[q] PROVE QuietOf(q)'
  BY <1>1, OtherQuiet, OwnQuiet
<1> QED
  BY <1>1 DEF Quiet, QuietOf

LEMMA StepIInv ==
    ASSUME IInv, NEW r \in Reqs, Start(r) \/ Step(r)
    PROVE  IInv'
  BY StepTyped, StepShape, StepAnchored, StepDeleting, StepSealing, StepFiled, StepAudited,
     StepQuiet DEF IInv

-----------------------------------------------------------------------------
(* What the environment keeps *)

\* Everything but the clock and the write-back stays.
LEMMA CalmKeeps ==
    ASSUME IInv, UNCHANGED <<blobs, logVars, reqVars, faultVars, histVars>>,
           now' \in 0 .. MaxTime, now <= now', flushed' \subseteq Reqs
    PROVE  IInv'
<1>0. Recorded' = Recorded /\ Tombstoned' = Tombstoned
  BY LedgerKept DEF logVars
<1>1. Typed'
  BY DEF IInv, Typed, logVars, reqVars, faultVars, histVars
<1>2. Shape' /\ Sealing' /\ Filed' /\ Audited'
  BY <1>0 DEF IInv, Shape, Sealing, Filed, LedgerMatchesFiles, RecordedIsWhole,
     TombstonedIsGone, Audited, logVars, reqVars, faultVars, histVars
<1>3. Anchored'
  BY DEF IInv, Anchored, Appended, logVars, reqVars, faultVars
<1>4. Deleting'
  <2>1. ASSUME NEW d \in Reqs, pc[d] \in {"list", "unlink"}
        PROVE  now' - op[op[d].eid].signed >= MinRetention
    <3>1. op[d].eid \in Recorded /\ now - op[op[d].eid].signed >= MinRetention
      BY <2>1 DEF IInv, Deleting, OldEnough, SignedAt
    <3>2. op[op[d].eid].signed \in 0 .. MaxTime
      BY <3>1, LedgerSets DEF IInv, Typed, Op
    <3> QED
      BY <3>1, <3>2, StoreAssumption DEF IInv, Typed
  <2> QED
    BY <1>0, <2>1 DEF IInv, Deleting, OldEnough, SignedAt, reqVars, histVars
<1>5. Quiet'
  BY <1>0 DEF IInv, Quiet, Watching, Still, QuietVerify, QuietExport, logVars, reqVars,
     faultVars, histVars
<1> QED
  BY <1>1, <1>2, <1>3, <1>4, <1>5 DEF IInv

\* What was in flight is dead; files may be lost when the machine goes down.
LEMMA DeathKeeps ==
    ASSUME IInv, ProcessDies, powerCuts' \in 0 .. crashes',
           blobs' \in [Reqs -> SUBSET Blobs], \A e \in Reqs : blobs'[e] \subseteq blobs[e],
           blobs' = blobs \/ powerCuts' > 0, powerCuts > 0 => powerCuts' > 0
    PROVE  IInv'
<1>0. /\ Recorded' = Recorded /\ Tombstoned' = Tombstoned /\ Recorded \subseteq Reqs
      /\ UNCHANGED <<now, flushed, ledger, anchor, audit, op, view, histVars>>
      /\ pc \in [Reqs -> Steps] /\ pc' \in [Reqs -> Steps] /\ crashes' > 0
      /\ lockBy' = NoReq
  BY LedgerKept, LedgerSets DEF ProcessDies, IInv, Typed, Steps
<1>1. /\ \A r \in Reqs : pc'[r] \in {"new", "ok", "failed", "dead"}
      /\ \A r \in Reqs : pc'[r] # "dead" => pc'[r] = pc[r]
      /\ \A r \in Reqs : pc[r] # "new" => pc'[r] # "new"
      /\ \A r \in Reqs : pc'[r] = "dead" => pc[r] \notin {"new", "ok", "failed"}
  BY DEF ProcessDies, Running
<1>2. Typed'
  <2>1. ledgerTorn' \in BOOLEAN /\ auditTorn' \in BOOLEAN
    BY Zenon DEF ProcessDies, IInv, Typed
  <2>2. crashes' \in 0 .. MaxCrashes
    BY StoreAssumption DEF ProcessDies, IInv, Typed
  <2>3. todo' \in [Reqs -> SUBSET (Blobs \cup Reqs)]
    BY DEF ProcessDies
  <2> QED
    BY <1>0, <2>1, <2>2, <2>3 DEF IInv, Typed, histVars
<1>3. auditTorn => auditTorn'
  BY DEF ProcessDies, IInv, Typed
<1>4. Shape'
  <2>1. ASSUME NEW r \in Reqs PROVE pc'[r] \in StepsOf(op[r].kind)
    <3>1. pc[r] \in StepsOf(op[r].kind) /\ op[r].kind \in Kinds
      BY DEF IInv, Shape, Typed, Op
    <3> QED
      BY <1>1, <3>1 DEF StepsOf, Kinds
  <2>2. \A r \in Reqs : pc'[r] = "new" => pc[r] = "new"
    BY <1>1
  <2> QED
    BY <1>0, <2>1, <2>2 DEF IInv, Shape
<1>5. Anchored'
  <2>1. Appended \subseteq Appended'
    BY <1>1 DEF Appended
  <2>2. /\ Cardinality(Appended) <= Cardinality(Appended') /\ Cardinality(Appended) \in Nat
        /\ Cardinality(Appended') \in Nat
    BY <2>1, Counts DEF Appended
  <2>3. Len(ledger) \in Nat
    BY LedgerSets DEF IInv, Typed
  <2>4. anchor' \in 0 .. Len(ledger') /\ Len(ledger') <= Cardinality(Appended')
    BY <1>0, <2>2, <2>3 DEF IInv, Anchored
  <2>5. \A r \in Reqs : pc'[r] # "head" /\ lockBy' # r
    BY <1>0, <1>1, StoreAssumption
  <2> QED
    BY <1>0, <2>4, <2>5 DEF Anchored
<1>6. Deleting' /\ Sealing'
  BY <1>1 DEF Deleting, Sealing
<1>7. Filed'
  <2>1. \A e \in Recorded : /\ op[e].kind = "store"
                            /\ pc'[e] \in {"head", "audit", "ok", "failed", "dead"}
                            /\ pc'[e] = "failed" => auditTorn'
    BY <1>0, <1>1, <1>3 DEF IInv, Filed
  <2>2. \A e \in Recorded : blobs'[e] # Blobs => e \in removing \/ powerCuts' > 0
    BY <1>0 DEF IInv, Filed, LedgerMatchesFiles, RecordedIsWhole
  <2>3. \A e \in Tombstoned : blobs'[e] # {} => e \in kept
    BY <1>0 DEF IInv, Filed, LedgerMatchesFiles, TombstonedIsGone
  <2>4. removing \subseteq Recorded /\ Tombstoned \subseteq removing
    BY DEF IInv, Filed
  <2> QED
    BY <1>0, <1>1, <2>1, <2>2, <2>3, <2>4
       DEF Filed, LedgerMatchesFiles, RecordedIsWhole, TombstonedIsGone, histVars
<1>8. Audited'
  <2>1. \A a \in audit : a.by \in Reqs
    BY DEF IInv, Typed, AuditEntry
  <2> QED
    BY <1>0, <1>1, <2>1 DEF IInv, Audited
<1>9. Quiet'
  <2>1. ASSUME NEW r \in Reqs, ~disturbed[r]
        PROVE  /\ r \notin Watching'
               /\ op[r].kind = "verify" /\ pc'[r] # "dead" => QuietVerify(r)'
               /\ op[r].kind = "export" /\ pc'[r] # "dead" => QuietExport(r)'
    BY <1>0, <1>1, <2>1 DEF IInv, Quiet, Watching, QuietVerify, QuietExport, histVars
  <2> QED
    BY <1>0, <2>1 DEF Quiet, histVars
<1> QED
  BY <1>2, <1>4, <1>5, <1>6, <1>7, <1>8, <1>9 DEF IInv

LEMMA Inductive == IInv /\ [Next]_vars => IInv'
<1> SUFFICES ASSUME IInv, [Next]_vars PROVE IInv'
  OBVIOUS
<1>1. CASE \E r \in Reqs : Start(r) \/ Step(r)
  BY <1>1, StepIInv
<1>2. CASE UNCHANGED vars \/ Day \/ \E e \in Reqs : Flush(e)
  <2>1. UNCHANGED <<blobs, logVars, reqVars, faultVars, histVars>>
    BY <1>2 DEF Day, Flush, vars, diskVars, logVars, reqVars, faultVars, histVars
  <2>2. now' \in 0 .. MaxTime /\ now <= now' /\ flushed' \subseteq Reqs
    BY <1>2, StoreAssumption DEF Day, Flush, vars, diskVars, IInv, Typed
  <2> QED
    BY <2>1, <2>2, CalmKeeps
<1>3. CASE Crash \/ PowerCut
  <2>1. powerCuts \in 0 .. crashes /\ crashes' = crashes + 1 /\ crashes \in Nat
        /\ blobs \in [Reqs -> SUBSET Blobs]
    BY <1>3, StoreAssumption DEF Crash, PowerCut, ProcessDies, IInv, Typed
  <2>2. powerCuts' \in 0 .. crashes' /\ (powerCuts > 0 => powerCuts' > 0)
    BY <1>3, <2>1 DEF Crash, PowerCut
  <2>3. /\ blobs' \in [Reqs -> SUBSET Blobs]
        /\ \A e \in Reqs : blobs'[e] \subseteq blobs[e]
    BY <1>3, <2>1 DEF Crash, PowerCut
  <2>4. blobs' = blobs \/ powerCuts' > 0
    BY <1>3, <2>1 DEF Crash, PowerCut
  <2> QED
    BY <1>3, <2>2, <2>3, <2>4, DeathKeeps DEF Crash, PowerCut
<1> QED
  BY <1>1, <1>2, <1>3 DEF Next

LEMMA Initial == Init => IInv
<1> SUFFICES ASSUME Init PROVE IInv
  OBVIOUS
<1>1. Typed
  BY TypedInit
<1>2. Recorded = {} /\ Tombstoned = {}
  BY DEF Init, Recorded, Tombstoned, Entries
<1>3. Shape
  BY DEF Init, Shape, StepsOf, NoOp, NoView
<1>4. Anchored
  <2>1. Cardinality(Appended) \in Nat
    BY Counts DEF Appended
  <2> QED
    BY <2>1, StoreAssumption DEF Init, Anchored
<1>5. Deleting /\ Sealing
  BY DEF Init, Deleting, Sealing
<1>6. Filed /\ Audited
  BY <1>2 DEF Init, Filed, Audited, LedgerMatchesFiles, RecordedIsWhole, TombstonedIsGone
<1>7. Quiet
  BY DEF Init, Quiet, NoOp, Watching
<1> QED
  BY <1>1, <1>3, <1>4, <1>5, <1>6, <1>7 DEF IInv

(***************************************************************************)
(* The invariant holds throughout, whatever calls run together and wherever*)
(* the process or the machine goes down (class EvidenceStore).             *)
(***************************************************************************)
THEOREM EvidenceInductive == Spec => []IInv
  BY Initial, Inductive, PTL DEF Spec

(***************************************************************************)
(* Files, logs and requests have their types, and the anchor counts no     *)
(* more entries than there are requests (_write_head).                     *)
(***************************************************************************)
THEOREM EvidenceTypeCorrect == Spec => []TypeOK
<1>1. IInv => TypeOK
  <2> SUFFICES ASSUME IInv PROVE TypeOK
    OBVIOUS
  <2>1. anchor \in 0 .. Cardinality(Reqs)
    <3>1. Cardinality(Appended) <= Cardinality(Reqs) /\ Cardinality(Appended) \in Nat
          /\ Cardinality(Reqs) \in Nat
      BY Counts DEF Appended
    <3>2. Len(ledger) \in Nat
      BY LedgerSets DEF IInv, Typed
    <3> QED
      BY <3>1, <3>2 DEF IInv, Anchored
  <2> QED
    BY <2>1 DEF IInv, Typed, TypeOK, Record, AuditEntry
<1> QED
  BY <1>1, EvidenceInductive, PTL

(***************************************************************************)
(* Recorded items have all their files unless they are being removed or    *)
(* the power failed, and those with a tombstone have none but what could   *)
(* not be unlinked (store_evidence, delete_evidence, _rmtree).             *)
(***************************************************************************)
THEOREM LedgerAgreesWithFiles == Spec => []LedgerMatchesFiles
<1>1. IInv => LedgerMatchesFiles
  BY DEF IInv, Filed
<1> QED
  BY <1>1, EvidenceInductive, PTL

(***************************************************************************)
(* What the audit log calls done is in the ledger, and what the ledger has *)
(* is in the audit log once its call returns (AuditLog.record).            *)
(***************************************************************************)
THEOREM AuditAgreesWithLedger == Spec => []AuditMatches
<1>1. IInv => AuditMatches
  BY DEF IInv, Filed, Audited, AuditMatches, Running
<1> QED
  BY <1>1, EvidenceInductive, PTL

(***************************************************************************)
(* A report or an export that nothing moved under is right, whatever was   *)
(* done before it (verify_evidence_chain, export_evidence).                *)
(***************************************************************************)
THEOREM ReportsAreTrue == Spec => []QuietReportsAreTrue
<1>1. IInv => QuietReportsAreTrue
  BY DEF IInv, Quiet, QuietVerify, QuietExport, QuietReportsAreTrue, QuietVerifyIsClean,
     QuietExportIsWhole
<1> QED
  BY <1>1, EvidenceInductive, PTL

(***************************************************************************)
(* No step but a power failure takes a file of an item that the retention  *)
(* policy still protects (delete_evidence, RetentionPolicy).               *)
(***************************************************************************)
THEOREM RetentionIsRespected == Spec => RetentionRespected
<1> DEFINE A == \A e \in Reqs : ~(blobs[e] \subseteq blobs'[e]) /\ powerCuts' = powerCuts =>
                    AllowDelete /\ now - op[e].signed >= MinRetention
<1>1. IInv /\ [Next]_vars => [A]_vars
  <2> SUFFICES ASSUME IInv, Next, NEW e \in Reqs, ~(blobs[e] \subseteq blobs'[e]), powerCuts' = powerCuts
               PROVE  AllowDelete /\ now - op[e].signed >= MinRetention
    BY DEF A
  <2>1. blobs' # blobs /\ blobs \in [Reqs -> SUBSET Blobs] /\ powerCuts \in Nat
    BY StoreAssumption DEF IInv, Typed
  <2>2. PICK r \in Reqs : Start(r) \/ Step(r)
    BY <2>1 DEF Next, Flush, Day, Crash, PowerCut, diskVars
  <2>3. ~ \E b \in Blobs : WriteBlob(r, b)
    BY <2>1 DEF WriteBlob
  <2>4. pc[r] = "unlink" /\ op[r].eid = e
    <3>1. PICK b \in Blobs : Unlink(r, b)
      BY <2>1, <2>2, <2>3 DEF Start, Step, StartStore, WriteManifest, AppendLine, AppendHead,
         RecordAudit, StartDelete, CheckDelete, ListItem, ItemRemoved, StartVerify, VerifyHead,
         VerifyDeleted, VerifyRecords, VerifyBlobs, VerifyReturn, StartExport, PackBlobs,
         PackLedger, PackHead, diskVars
    <3> QED
      BY <2>1, <3>1 DEF Unlink
  <2> QED
    BY <2>4 DEF IInv, Deleting, OldEnough, SignedAt
<1> QED
  BY <1>1, EvidenceInductive, PTL DEF Spec, RetentionRespected
=============================================================================
