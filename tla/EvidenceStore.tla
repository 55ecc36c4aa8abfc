---------------------------- MODULE EvidenceStore ----------------------------
(***************************************************************************)
(* core/evidence.py, class EvidenceStore: files of each piece of evidence  *)
(* ("blobs"), the ledger that refers to them, and the audit log.  Threads  *)
(* store, delete, verify and export concurrently; the process or the whole *)
(* machine may go down between any two steps.                              *)
(*                                                                         *)
(* A piece of evidence is named after the store request that created it    *)
(* (the code draws a random id).  Hash chain and torn anchor are the       *)
(* business of AppendOnlyLedger.tla: here a ledger is its records, the     *)
(* count in its anchor, and whether a crash left a line that does not      *)
(* parse ("torn"), after which every read and append raises.               *)
(***************************************************************************)
EXTENDS Sequences, Naturals, FiniteSets

CONSTANTS
    Reqs,           \* requests: calls of the store's methods
    Blobs,          \* the files of one piece of evidence
    NoReq,          \* nobody holds the ledger's lock
    AllowDelete,    \* RetentionPolicy.allow_delete
    MinRetention,   \* RetentionPolicy.min_retention_days
    MaxTime, MaxCrashes    \* bounds of the model

ASSUME StoreAssumption ==
    /\ IsFiniteSet(Reqs) /\ NoReq \notin Reqs
    /\ AllowDelete \in BOOLEAN
    /\ MinRetention \in Nat /\ MaxTime \in Nat /\ MaxCrashes \in Nat

VARIABLES
    now,        \* days
    blobs,      \* [Reqs -> the files present in items/<id>]
    flushed,    \* evidence whose files have reached the disk (no fsync: the
                \* operating system decides when)
    ledger,     \* sequence of [type, eid]
    anchor,     \* count in ledger.jsonl.head.json
    lockBy,     \* the request inside AppendOnlyLedger.append
    ledgerTorn, auditTorn,
    audit,      \* entries of audit.jsonl: [act, by, result]
    pc, op,     \* [Reqs -> step], [Reqs -> the call]
    todo,       \* [Reqs -> what _rmtree listed, or verify has yet to look at]
    view,       \* [Reqs -> what verify or export has read so far]
    crashes, powerCuts,
    \* histories
    removing,   \* evidence some delete has begun to remove
    kept,       \* evidence of which a file could not be unlinked
    disturbed   \* [Reqs -> something moved under this verify or export, or
                \* had been left unfinished before it]

logVars == <<ledger, anchor, lockBy, ledgerTorn, auditTorn, audit>>
diskVars == <<blobs, flushed>>
reqVars == <<pc, op, todo, view>>
histVars == <<removing, kept, disturbed>>
faultVars == <<crashes, powerCuts>>
vars == <<now, diskVars, logVars, reqVars, faultVars, histVars>>

Steps == {"new", "blobs", "line", "head", "audit", "refuse", "find", "list",
          "unlink", "v_head", "v_deleted", "v_records", "v_blobs",
          "x_blobs", "x_ledger", "x_head", "ok", "failed", "dead"}
NoOp == [kind |-> "none", eid |-> NoReq, signed |-> 0]
NoView == [len |-> 0, sound |-> TRUE, deleted |-> {}, bad |-> {}, files |-> {}, head |-> 0]

Entries(S) == {S[i] : i \in DOMAIN S}
Recorded == {e.eid : e \in {x \in Entries(ledger) : x.type = "signing"}}
Tombstoned == {e.eid : e \in {x \in Entries(ledger) : x.type = "deletion"}}

Init ==
    /\ now = 0
    /\ blobs = [e \in Reqs |-> {}] /\ flushed = {}
    /\ ledger = <<>> /\ anchor = 0 /\ lockBy = NoReq
    /\ ledgerTorn = FALSE /\ auditTorn = FALSE /\ audit = {}
    /\ pc = [r \in Reqs |-> "new"] /\ op = [r \in Reqs |-> NoOp]
    /\ todo = [r \in Reqs |-> {}] /\ view = [r \in Reqs |-> NoView]
    /\ crashes = 0 /\ powerCuts = 0
    /\ removing = {} /\ kept = {} /\ disturbed = [r \in Reqs |-> FALSE]

-----------------------------------------------------------------------------
Goto(r, step) == pc' = [pc EXCEPT ![r] = step]

\* A read of the ledger takes its lock, and raises if a line does not parse.
MayRead == lockBy = NoReq
LedgerGoto(r, step) == MayRead /\ Goto(r, IF ledgerTorn THEN "failed" ELSE step)

Begin(r, kind, e, signed) ==
    /\ pc[r] = "new"
    /\ op' = [op EXCEPT ![r] = [kind |-> kind, eid |-> e, signed |-> signed]]

\* Ids a caller can name: those list_records shows, and ids of nothing.
Named == Recorded \cup {NoReq}

\* Requests that are reading while something moves.
Watching == {r \in Reqs : pc[r] \in {"v_head", "v_deleted", "v_records", "v_blobs",
                                     "x_blobs", "x_ledger", "x_head"}}
Disturb == disturbed' = [r \in Reqs |-> disturbed[r] \/ r \in Watching]

-----------------------------------------------------------------------------
(* store_evidence *)

\* signed_at is the caller's, or else the clock's.
StartStore(r, signed) ==
    /\ Begin(r, "store", r, signed)
    /\ Goto(r, "blobs")
    /\ UNCHANGED <<now, diskVars, logVars, todo, view, faultVars, histVars>>

WriteBlob(r, b) ==
    /\ pc[r] = "blobs" /\ b \notin blobs[r]
    /\ blobs' = [blobs EXCEPT ![r] = @ \cup {b}]
    /\ flushed' = flushed \ {r}
    /\ UNCHANGED <<now, logVars, reqVars, faultVars, histVars>>

\* Bug: the ledger record does not wait for the files.
ItemComplete_NotAwaited(r) == TRUE

ItemComplete(r) == blobs[r] = Blobs

\* manifest.json, which no code reads back, comes last.
WriteManifest(r) ==
    /\ pc[r] = "blobs" /\ ItemComplete(r)
    /\ Goto(r, "line")
    /\ UNCHANGED <<now, diskVars, logVars, op, todo, view, faultVars, histVars>>

-----------------------------------------------------------------------------
(* AppendOnlyLedger.append, for store_evidence and delete_evidence *)

EntryOf(r) == [type |-> IF op[r].kind = "store" THEN "signing" ELSE "deletion",
               eid |-> op[r].eid]

AppendLine(r) ==
    /\ pc[r] = "line"
    /\ LedgerGoto(r, "head")
    /\ IF ledgerTorn THEN UNCHANGED <<ledger, lockBy>>
       ELSE ledger' = Append(ledger, EntryOf(r)) /\ lockBy' = r
    /\ Disturb
    /\ UNCHANGED <<now, diskVars, anchor, ledgerTorn, auditTorn, audit, op, todo,
                   view, faultVars, removing, kept>>

\* Bug: one too many, for the record that is already there.
AnchorCount_Plus == Len(ledger) + 1

AnchorCount == Len(ledger)

AppendHead(r) ==
    /\ pc[r] = "head"
    /\ anchor' = AnchorCount
    /\ lockBy' = NoReq
    /\ Goto(r, "audit")
    /\ Disturb
    /\ UNCHANGED <<now, diskVars, ledger, ledgerTorn, auditTorn, audit, op, todo,
                   view, faultVars, removing, kept>>

\* AuditLog.record closes an operation that succeeded ("ok") or one that was
\* refused, and then the caller gets its answer.  It raises when the audit
\* log is torn, whatever was done before.
RecordAudit(r) ==
    /\ pc[r] \in {"audit", "refuse"}
    /\ IF auditTorn THEN Goto(r, "failed") /\ UNCHANGED audit
       ELSE /\ audit' = audit \cup {[act |-> op[r].kind, by |-> r,
                                     result |-> IF pc[r] = "audit" THEN "ok" ELSE "refused"]}
            /\ Goto(r, IF pc[r] = "audit" THEN "ok" ELSE "failed")
    /\ UNCHANGED <<now, diskVars, ledger, anchor, lockBy, ledgerTorn, auditTorn,
                   op, todo, view, faultVars, histVars>>

-----------------------------------------------------------------------------
(* delete_evidence *)

\* Without operator and reason the call is refused at once.
StartDelete(r, e, justified) ==
    /\ e \in Named
    /\ Begin(r, "delete", e, 0)
    /\ Goto(r, IF justified THEN "find" ELSE "refuse")
    /\ UNCHANGED <<now, diskVars, logVars, todo, view, faultVars, histVars>>

SignedAt(e) == op[e].signed

\* Bug: the last day of the retention period is not protected.
OldEnough_DayEarly(e) == now - SignedAt(e) + 1 >= MinRetention

OldEnough(e) == now - SignedAt(e) >= MinRetention

\* Bug: no tombstone is written.
AfterChecks_NoTombstone(r) == "audit"

AfterChecks(r) == "list"

\* get_record, then the retention policy.  An unknown id is not audited.
CheckDelete(r) ==
    /\ pc[r] = "find"
    /\ LET e == op[r].eid
       IN LedgerGoto(r, CASE e \notin Recorded -> "failed"
                          [] e \in Recorded /\ ~(AllowDelete /\ OldEnough(e)) -> "refuse"
                          [] e \in Recorded /\ AllowDelete /\ OldEnough(e) -> AfterChecks(r))
    /\ UNCHANGED <<now, diskVars, logVars, op, todo, view, faultVars, histVars>>

\* _rmtree lists the directory ...
ListItem(r) ==
    /\ pc[r] = "list"
    /\ todo' = [todo EXCEPT ![r] = blobs[op[r].eid]]
    /\ removing' = removing \cup {op[r].eid}
    /\ Goto(r, "unlink")
    /\ UNCHANGED <<now, diskVars, logVars, op, view, faultVars, kept, disturbed>>

\* ... and unlinks what it listed; an OSError is swallowed, so a file may stay.
Unlink(r, b) ==
    /\ pc[r] = "unlink" /\ b \in todo[r]
    /\ todo' = [todo EXCEPT ![r] = @ \ {b}]
    /\ \/ blobs' = [blobs EXCEPT ![op[r].eid] = @ \ {b}] /\ UNCHANGED kept
       \/ kept' = kept \cup {op[r].eid} /\ UNCHANGED blobs
    /\ Disturb
    /\ UNCHANGED <<now, flushed, logVars, pc, op, view, faultVars, removing>>

\* Whatever is left, the tombstone follows.
ItemRemoved(r) ==
    /\ pc[r] = "unlink" /\ todo[r] = {}
    /\ Goto(r, "line")
    /\ UNCHANGED <<now, diskVars, logVars, op, todo, view, faultVars, histVars>>

-----------------------------------------------------------------------------
(* verify_evidence_chain: four separate looks at the store *)

\* Something was left half done before this request began.
Unfinished == \/ crashes > 0
              \/ \E e \in removing : e \notin Tombstoned

StartVerify(r) ==
    /\ Begin(r, "verify", NoReq, 0)
    /\ LedgerGoto(r, "v_head")
    /\ view' = [view EXCEPT ![r].len = Len(ledger)]
    /\ disturbed' = [disturbed EXCEPT ![r] = Unfinished]
    /\ UNCHANGED <<now, diskVars, logVars, todo, faultVars, removing, kept>>

\* The head anchor is read after the lock is released.
VerifyHead(r) ==
    /\ pc[r] = "v_head"
    /\ view' = [view EXCEPT ![r].sound = (anchor = view[r].len)]
    /\ Goto(r, "v_deleted")
    /\ UNCHANGED <<now, diskVars, logVars, op, todo, faultVars, histVars>>

VerifyDeleted(r) ==
    /\ pc[r] = "v_deleted"
    /\ LedgerGoto(r, "v_records")
    /\ view' = [view EXCEPT ![r].deleted = Tombstoned]
    /\ UNCHANGED <<now, diskVars, logVars, op, todo, faultVars, histVars>>

\* Bug: deleted evidence is checked too.
ToCheck_All(r) == Recorded

ToCheck(r) == Recorded \ view[r].deleted

VerifyRecords(r) ==
    /\ pc[r] = "v_records"
    /\ LedgerGoto(r, "v_blobs")
    /\ todo' = [todo EXCEPT ![r] = ToCheck(r)]
    /\ UNCHANGED <<now, diskVars, logVars, op, view, faultVars, histVars>>

\* _verify_blobs of one record
VerifyBlobs(r, e) ==
    /\ pc[r] = "v_blobs" /\ e \in todo[r]
    /\ todo' = [todo EXCEPT ![r] = @ \ {e}]
    /\ view' = [view EXCEPT ![r].bad = IF blobs[e] = Blobs THEN @ ELSE @ \cup {e}]
    /\ UNCHANGED <<now, diskVars, logVars, pc, op, faultVars, histVars>>

VerifyReturn(r) ==
    /\ pc[r] = "v_blobs" /\ todo[r] = {}
    /\ Goto(r, "ok")
    /\ UNCHANGED <<now, diskVars, logVars, op, todo, view, faultVars, histVars>>

-----------------------------------------------------------------------------
(* export_evidence: only the record is read under the lock *)

StartExport(r, e) ==
    /\ e \in Named
    /\ Begin(r, "export", e, 0)
    /\ LedgerGoto(r, IF e \in Recorded THEN "x_blobs" ELSE "failed")
    /\ disturbed' = [disturbed EXCEPT ![r] = Unfinished]
    /\ UNCHANGED <<now, diskVars, logVars, todo, view, faultVars, removing, kept>>

PackBlobs(r) ==
    /\ pc[r] = "x_blobs"
    /\ view' = [view EXCEPT ![r].files = blobs[op[r].eid]]
    /\ Goto(r, "x_ledger")
    /\ UNCHANGED <<now, diskVars, logVars, op, todo, faultVars, histVars>>

PackLedger(r) ==
    /\ pc[r] = "x_ledger"
    /\ view' = [view EXCEPT ![r].len = Len(ledger)]
    /\ Goto(r, "x_head")
    /\ UNCHANGED <<now, diskVars, logVars, op, todo, faultVars, histVars>>

PackHead(r) ==
    /\ pc[r] = "x_head"
    /\ view' = [view EXCEPT ![r].head = anchor]
    /\ Goto(r, "audit")
    /\ UNCHANGED <<now, diskVars, logVars, op, todo, faultVars, histVars>>

-----------------------------------------------------------------------------
(* The environment *)

Day == /\ now < MaxTime /\ now' = now + 1
       /\ UNCHANGED <<diskVars, logVars, reqVars, faultVars, histVars>>

Flush(e) ==
    /\ e \notin flushed /\ blobs[e] = Blobs
    /\ flushed' = flushed \cup {e}
    /\ UNCHANGED <<now, blobs, logVars, reqVars, faultVars, histVars>>

Running(r) == pc[r] \notin {"new", "ok", "failed", "dead"}

\* Everything in flight is gone; a line being written may stay torn.
ProcessDies ==
    /\ crashes < MaxCrashes
    /\ crashes' = crashes + 1
    /\ pc' = [r \in Reqs |-> IF Running(r) THEN "dead" ELSE pc[r]]
    /\ todo' = [r \in Reqs |-> {}]
    /\ lockBy' = NoReq
    /\ ledgerTorn' \in {ledgerTorn, ledgerTorn \/ \E r \in Reqs : pc[r] = "line"}
    /\ auditTorn' \in {auditTorn, auditTorn \/ \E r \in Reqs : pc[r] \in {"audit", "refuse"}}
    /\ UNCHANGED <<now, flushed, ledger, anchor, audit, op, view, histVars>>

Crash == ProcessDies /\ UNCHANGED <<blobs, powerCuts>>

\* The machine goes down: files the system had not written back are lost,
\* while the ledger line behind them was synced.
PowerCut ==
    /\ ProcessDies
    /\ powerCuts' = powerCuts + 1
    /\ \E lost \in SUBSET (Reqs \ flushed) :
          blobs' = [e \in Reqs |-> IF e \in lost THEN {} ELSE blobs[e]]

Start(r) ==
    \/ \E signed \in 0 .. now : StartStore(r, signed)
    \/ \E e \in Named, justified \in BOOLEAN : StartDelete(r, e, justified)
    \/ \E e \in Named : StartExport(r, e)
    \/ StartVerify(r)

Step(r) ==
    \/ \E b \in Blobs : WriteBlob(r, b) \/ Unlink(r, b)
    \/ WriteManifest(r) \/ AppendLine(r) \/ AppendHead(r) \/ RecordAudit(r)
    \/ CheckDelete(r) \/ ListItem(r) \/ ItemRemoved(r)
    \/ VerifyHead(r) \/ VerifyDeleted(r) \/ VerifyRecords(r)
    \/ (\E e \in Reqs : VerifyBlobs(r, e)) \/ VerifyReturn(r)
    \/ PackBlobs(r) \/ PackLedger(r) \/ PackHead(r)

Next == \/ \E r \in Reqs : Start(r) \/ Step(r)
        \/ \E e \in Reqs : Flush(e)
        \/ Day \/ Crash \/ PowerCut

Spec == Init /\ [][Next]_vars

-----------------------------------------------------------------------------
(***************************************************************************)
(* Files, logs and requests have their types, and the anchor never counts  *)
(* more entries than there were appends.                                   *)
(***************************************************************************)
TypeOK ==
    /\ now \in 0 .. MaxTime
    /\ blobs \in [Reqs -> SUBSET Blobs] /\ flushed \subseteq Reqs
    /\ ledger \in Seq([type : {"signing", "deletion"}, eid : Reqs])
    /\ anchor \in 0 .. Cardinality(Reqs)
    /\ lockBy \in Reqs \cup {NoReq}
    /\ ledgerTorn \in BOOLEAN /\ auditTorn \in BOOLEAN
    /\ audit \subseteq [act : {"store", "delete", "export"}, by : Reqs,
                       result : {"ok", "refused"}]
    /\ pc \in [Reqs -> Steps]
    /\ \A r \in Reqs : todo[r] \subseteq Blobs \cup Reqs
    /\ crashes \in 0 .. MaxCrashes /\ powerCuts \in 0 .. crashes
    /\ removing \subseteq Reqs /\ kept \subseteq removing
    /\ disturbed \in [Reqs -> BOOLEAN]

(***************************************************************************)
(* The ledger refers to complete evidence: when files of a recorded item   *)
(* are missing, a delete that passed its checks had begun to remove them,  *)
(* or the power failed before they were written back (store_evidence       *)
(* writes the files first, and syncs the ledger only).                     *)
(***************************************************************************)
RecordedIsWhole ==
    \A e \in Recorded : blobs[e] # Blobs => e \in removing \/ powerCuts > 0

(***************************************************************************)
(* Evidence with a tombstone has no files left, but for one that could not *)
(* be unlinked, whoever else was deleting it, and whenever an earlier      *)
(* delete had died half-way (delete_evidence, _rmtree).                    *)
(***************************************************************************)
TombstonedIsGone ==
    \A e \in Tombstoned : blobs[e] # {} => e \in kept

(***************************************************************************)
(* What the ledger says of an item is what is on the disk: recorded items  *)
(* are whole, deleted ones gone (store_evidence, delete_evidence).         *)
(***************************************************************************)
LedgerMatchesFiles == RecordedIsWhole /\ TombstonedIsGone

(***************************************************************************)
(* The audit log and the ledger tell the same story: an operation that     *)
(* succeeded is in the audit log, an "ok" in the audit log did happen, and *)
(* an entry of the ledger without one belongs to an operation that is      *)
(* still running, died, or met a torn audit log.                           *)
(***************************************************************************)
AuditMatches ==
    /\ \A r \in Reqs : pc[r] = "ok" /\ op[r].kind # "verify" =>
          [act |-> op[r].kind, by |-> r, result |-> "ok"] \in audit
    /\ \A a \in audit : a.result = "ok" =>
          /\ a.act = "store" => a.by \in Recorded
          /\ a.act = "delete" => op[a.by].eid \in Tombstoned
    /\ \A e \in Recorded : pc[e] = "ok" \/ Running(e) \/ pc[e] = "dead" \/ auditTorn

(***************************************************************************)
(* verify_evidence_chain looks at the store four times without holding     *)
(* anything.  If nothing moved meanwhile and nothing had been left half    *)
(* done, it finds nothing wrong.                                           *)
(***************************************************************************)
QuietVerifyIsClean ==
    \A r \in Reqs : op[r].kind = "verify" /\ pc[r] = "ok" /\ ~disturbed[r] =>
        view[r].sound /\ view[r].bad = {}

(***************************************************************************)
(* A package exported while nothing moved carries every file of evidence   *)
(* that was not deleted, and a ledger that agrees with the anchor beside   *)
(* it (export_evidence copies both without the ledger's lock).             *)
(***************************************************************************)
QuietExportIsWhole ==
    \A r \in Reqs : op[r].kind = "export" /\ pc[r] = "ok" /\ ~disturbed[r] =>
        /\ view[r].head = view[r].len
        /\ view[r].files = Blobs \/ op[r].eid \in removing

(***************************************************************************)
(* A report or a package made while nothing moved is right                 *)
(* (verify_evidence_chain, export_evidence).                               *)
(***************************************************************************)
QuietReportsAreTrue == QuietVerifyIsClean /\ QuietExportIsWhole

(***************************************************************************)
(* Only a power failure takes a file away before the retention policy      *)
(* allows it (delete_evidence, RetentionPolicy).                           *)
(***************************************************************************)
RetentionRespected ==
    [][\A e \in Reqs : ~(blobs[e] \subseteq blobs'[e]) /\ powerCuts' = powerCuts =>
          AllowDelete /\ now - op[e].signed >= MinRetention]_vars
=============================================================================
