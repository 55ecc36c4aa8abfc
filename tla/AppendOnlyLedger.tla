-------------------------- MODULE AppendOnlyLedger --------------------------
(***************************************************************************)
(* core/evidence.py, class AppendOnlyLedger: a file of JSON lines, each    *)
(* chained to the one before it by a hash, and a second file (the head     *)
(* anchor) with the number of lines and the last hash.  Threads share one  *)
(* object and its lock.  The steps of append and verify that another       *)
(* thread, or a crash, can fall between are separate actions.              *)
(***************************************************************************)
EXTENDS Sequences, Naturals

CONSTANTS
    Procs,             \* threads
    Payloads,          \* what callers append
    Hashes,            \* hash values
    Hash(_, _, _, _),  \* _record_hash of (prev_hash, seq, ts, payload)
    Genesis,           \* the prev_hash of the first record
    NoProc,            \* nobody holds the lock
    MaxAppends, MaxCrashes, MaxLosses    \* bounds of the model

ASSUME LedgerAssumption ==
    /\ NoProc \notin Procs
    /\ MaxAppends \in Nat /\ MaxCrashes \in Nat /\ MaxLosses \in Nat
    /\ Genesis \in Hashes
    /\ \A h \in Hashes, n \in 0 .. MaxAppends, t \in 0 .. MaxAppends, d \in Payloads :
          Hash(h, n, t, d) \in Hashes

VARIABLES
    file,      \* the lines of the ledger that parse
    end,       \* what follows them: "newline", "open" (the last record has
               \* lost its newline) or "broken" (a line that does not parse)
    head,      \* the head anchor: none (absent, or not readable) or written
    lock,      \* the thread inside the lock
    pc,        \* [Procs -> step]
    rec,       \* [Procs -> the record append is writing]
    seen,      \* [Procs -> the records verify has read]
    verdict,   \* [Procs -> the answer of the last verify]
    clock,     \* readings of the wall clock: the ts of records
    crashes, losses,
    acked,     \* history: records whose append returned
    unsettled, \* history: a crash or a loss came after the last finished append
    overlap,   \* history: [Procs -> an append was at work, or a crash or a
               \* loss came, between the two reads of verify or just before]
    missing,   \* history: [Procs -> verify read a ledger short of acked records]
    reanchored \* history: an append finished on a ledger short of acked records

fileVars == <<file, end, head>>
procVars == <<lock, pc, rec, seen, verdict>>
faultVars == <<crashes, losses>>
histVars == <<acked, unsettled, overlap, missing, reanchored>>
vars == <<fileVars, procVars, clock, faultVars, histVars>>

NoHead == [some |-> FALSE, count |-> 0, hash |-> Genesis]
NoRec == [seq |-> 0, ts |-> 0, payload |-> "none", prev |-> Genesis, hash |-> Genesis]

Record == [seq : 0 .. MaxAppends, ts : 0 .. MaxAppends, payload : Payloads,
           prev : Hashes, hash : Hashes]
Anchor == [some : BOOLEAN, count : 0 .. MaxAppends, hash : Hashes]

RecordsOf(S) == {S[i] : i \in DOMAIN S}

\* prev_hash for the next record: that of the last one, or the genesis hash.
LastHash(S) == IF S = <<>> THEN Genesis ELSE S[Len(S)].hash

\* append's body: seq, ts, prev_hash and record_hash stamped on the payload.
Stamp(S, d, ts) ==
    [seq |-> Len(S), ts |-> ts, payload |-> d, prev |-> LastHash(S),
     hash |-> Hash(LastHash(S), Len(S), ts, d)]

\* Bug: records are counted from one.
Linked_FromOne(S, i) == S[i].seq = i

\* What verify recomputes for the i-th record.
Linked(S, i) ==
    /\ S[i].seq = i - 1
    /\ S[i].prev = (IF i = 1 THEN Genesis ELSE S[i - 1].hash)
    /\ S[i].hash = Hash(S[i].prev, S[i].seq, S[i].ts, S[i].payload)
Chained(S) == \A i \in 1 .. Len(S) : Linked(S, i)

AnchorOf(S) == IF S = <<>> THEN NoHead
               ELSE [some |-> TRUE, count |-> Len(S), hash |-> LastHash(S)]

\* Bug: a missing anchor is taken for a journal that never had one.
HeadAgrees_AbsentIsFine(S, h) ==
    h.some => h.count = Len(S) /\ (S # <<>> => h.hash = LastHash(S))

\* verify's second half: the records against the head anchor.
HeadAgrees(S, h) == IF h.some THEN /\ h.count = Len(S)
                                   /\ S # <<>> => h.hash = LastHash(S)
                    ELSE S = <<>>

Init ==
    /\ file = <<>> /\ end = "newline" /\ head = NoHead
    /\ lock = NoProc
    /\ pc = [p \in Procs |-> "idle"]
    /\ rec = [p \in Procs |-> NoRec]
    /\ seen = [p \in Procs |-> <<>>]
    /\ verdict = [p \in Procs |-> "none"]
    /\ clock = 0 /\ crashes = 0 /\ losses = 0
    /\ acked = {} /\ unsettled = FALSE /\ reanchored = FALSE
    /\ overlap = [p \in Procs |-> FALSE]
    /\ missing = [p \in Procs |-> FALSE]

-----------------------------------------------------------------------------
(* append *)

\* Whoever is between the two halves of verify has now missed something.
Overlapped == [p \in Procs |-> overlap[p] \/ pc[p] = "v_head"]

Readable == end # "broken"

\* Bug: the lock covers the reading only.
AppendRead_Unlocked(p, d) ==
    /\ pc[p] = "idle" /\ clock < MaxAppends
    /\ lock = NoProc
    /\ Readable
    /\ lock' = NoProc
    /\ clock' = clock + 1
    /\ rec' = [rec EXCEPT ![p] = Stamp(file, d, clock)]
    /\ pc' = [pc EXCEPT ![p] = "write"]
    /\ UNCHANGED <<fileVars, seen, verdict, faultVars, histVars>>

\* Under the lock: read the file (EvidenceError if a line does not parse,
\* which changes nothing) and stamp the new record.
AppendRead(p, d) ==
    /\ pc[p] = "idle" /\ clock < MaxAppends
    /\ lock = NoProc
    /\ Readable
    /\ lock' = p
    /\ clock' = clock + 1
    /\ rec' = [rec EXCEPT ![p] = Stamp(file, d, clock)]
    /\ pc' = [pc EXCEPT ![p] = "write"]
    /\ UNCHANGED <<fileVars, seen, verdict, faultVars, histVars>>

\* Bug: the file is opened for writing, which empties it.
Landed_Overwrite(line) == file' = <<line>> /\ end' = "newline"

\* The file is opened for appending, so the line lands after whatever is
\* there.  Behind a record without its newline it makes one line that does
\* not parse; behind a broken line it joins that one.
Landed(line) ==
    CASE end = "newline" -> file' = Append(file, line) /\ end' = "newline"
      [] end = "open"    -> file' = SubSeq(file, 1, Len(file) - 1) /\ end' = "broken"
      [] end = "broken"  -> UNCHANGED <<file, end>>

\* write, flush, fsync
AppendWrite(p) ==
    /\ pc[p] = "write"
    /\ Landed(rec[p])
    /\ pc' = [pc EXCEPT ![p] = "truncate"]
    /\ overlap' = Overlapped
    /\ UNCHANGED <<head, lock, rec, seen, verdict, clock, faultVars,
                   acked, unsettled, missing, reanchored>>

\* _write_head opens the anchor for writing, which empties it, ...
HeadTruncate(p) ==
    /\ pc[p] = "truncate"
    /\ head' = NoHead
    /\ pc' = [pc EXCEPT ![p] = "anchor"]
    /\ overlap' = Overlapped
    /\ UNCHANGED <<file, end, lock, rec, seen, verdict, clock, faultVars,
                   acked, unsettled, missing, reanchored>>

AnchorFor(r) == [some |-> TRUE, count |-> r.seq + 1, hash |-> r.hash]

\* ... writes it, and append returns the record, releasing the lock.
HeadWrite(p) ==
    /\ pc[p] = "anchor"
    /\ head' = AnchorFor(rec[p])
    /\ lock' = NoProc
    /\ pc' = [pc EXCEPT ![p] = "idle"]
    /\ rec' = [rec EXCEPT ![p] = NoRec]
    /\ acked' = acked \cup {rec[p]}
    /\ unsettled' = FALSE
    /\ overlap' = Overlapped
    /\ reanchored' = (reanchored \/ ~(acked \subseteq RecordsOf(file)))
    /\ UNCHANGED <<file, end, seen, verdict, clock, faultVars, missing>>

-----------------------------------------------------------------------------
(* verify *)

\* Under the lock: read the records.
VerifyRead(p) ==
    /\ pc[p] = "idle"
    /\ lock = NoProc
    /\ Readable
    /\ seen' = [seen EXCEPT ![p] = file]
    /\ pc' = [pc EXCEPT ![p] = "v_head"]
    /\ overlap' = [overlap EXCEPT ![p] = unsettled]
    /\ missing' = [missing EXCEPT ![p] = ~(acked \subseteq RecordsOf(file))]
    /\ UNCHANGED <<fileVars, lock, rec, verdict, clock, faultVars,
                   acked, unsettled, reanchored>>

\* After the lock is released: recompute the chain, read the anchor, compare.
VerifyHead(p) ==
    /\ pc[p] = "v_head"
    /\ verdict' = [verdict EXCEPT ![p] =
                     IF Chained(seen[p]) /\ HeadAgrees(seen[p], head) THEN "ok" ELSE "issues"]
    /\ pc' = [pc EXCEPT ![p] = "done"]
    /\ UNCHANGED <<fileVars, lock, rec, seen, clock, faultVars, histVars>>

\* The caller takes the answer.
VerifyReturn(p) ==
    /\ pc[p] = "done"
    /\ pc' = [pc EXCEPT ![p] = "idle"]
    /\ seen' = [seen EXCEPT ![p] = <<>>]
    /\ verdict' = [verdict EXCEPT ![p] = "none"]
    /\ overlap' = [overlap EXCEPT ![p] = FALSE]
    /\ missing' = [missing EXCEPT ![p] = FALSE]
    /\ UNCHANGED <<fileVars, lock, rec, clock, faultVars, acked, unsettled, reanchored>>

-----------------------------------------------------------------------------
(* faults of the environment *)

\* What a crash leaves of the line being written: nothing, part of it, all
\* but its newline, or all of it.
Torn(line) ==
    \/ UNCHANGED <<file, end>>
    \/ end' = "broken" /\ file' = (IF end = "open" THEN SubSeq(file, 1, Len(file) - 1) ELSE file)
    \/ end = "newline" /\ file' = Append(file, line) /\ end' = "open"
    \/ Landed(line)

\* The process dies; the files stay.  The anchor is not synced to disk, so
\* one that was just written may be found empty.
Crash ==
    /\ crashes < MaxCrashes
    /\ crashes' = crashes + 1
    /\ \/ \E p \in Procs : pc[p] = "write" /\ Torn(rec[p])
       \/ UNCHANGED <<file, end>>
    /\ head' \in {head, NoHead}
    /\ lock' = NoProc
    /\ pc' = [p \in Procs |-> "idle"]
    /\ rec' = [p \in Procs |-> NoRec]
    /\ seen' = [p \in Procs |-> <<>>]
    /\ verdict' = [p \in Procs |-> "none"]
    /\ overlap' = [p \in Procs |-> FALSE]
    /\ missing' = [p \in Procs |-> FALSE]
    /\ unsettled' = TRUE
    /\ UNCHANGED <<clock, losses, acked, reanchored>>

\* The ledger file loses its last records (an older copy restored, a tail cut).
LoseTail ==
    /\ losses < MaxLosses
    /\ losses' = losses + 1
    /\ \A p \in Procs : pc[p] \notin {"write", "truncate", "anchor"}
    /\ \E n \in 0 .. Len(file) - 1 : file' = SubSeq(file, 1, n)
    /\ end' = "newline"
    /\ unsettled' = TRUE
    /\ overlap' = Overlapped
    /\ UNCHANGED <<head, procVars, clock, crashes, acked, missing, reanchored>>

Next == \/ \E p \in Procs : \/ \E d \in Payloads : AppendRead(p, d)
                            \/ AppendWrite(p) \/ HeadTruncate(p) \/ HeadWrite(p)
                            \/ VerifyRead(p) \/ VerifyHead(p) \/ VerifyReturn(p)
        \/ Crash
        \/ LoseTail

Spec == Init /\ [][Next]_vars

-----------------------------------------------------------------------------
(***************************************************************************)
(* Files, threads and counters have their types.                           *)
(***************************************************************************)
TypeOK ==
    /\ file \in Seq(Record) /\ end \in {"newline", "open", "broken"}
    /\ head \in Anchor
    /\ lock \in Procs \cup {NoProc}
    /\ pc \in [Procs -> {"idle", "write", "truncate", "anchor", "v_head", "done"}]
    /\ rec \in [Procs -> Record \cup {NoRec}]
    /\ seen \in [Procs -> Seq(Record)]
    /\ verdict \in [Procs -> {"none", "ok", "issues"}]
    /\ clock \in 0 .. MaxAppends
    /\ crashes \in 0 .. MaxCrashes /\ losses \in 0 .. MaxLosses
    /\ acked \subseteq Record
    /\ unsettled \in BOOLEAN /\ reanchored \in BOOLEAN
    /\ overlap \in [Procs -> BOOLEAN] /\ missing \in [Procs -> BOOLEAN]

(***************************************************************************)
(* Whatever threads append at once, and wherever a crash or a cut of the   *)
(* tail falls, the records that can be read form one unbroken chain: seq   *)
(* counts them and each carries its predecessor's hash                     *)
(* (AppendOnlyLedger.append under its lock).                               *)
(***************************************************************************)
ChainIntact == Chained(file)

(***************************************************************************)
(* When no append is at work, the anchor describes the ledger exactly,     *)
(* unless a crash or a cut came after the last append that finished or the *)
(* ledger ends in a line that does not parse (_write_head).                *)
(***************************************************************************)
Anchored == lock = NoProc /\ ~unsettled /\ Readable => head = AnchorOf(file)

(***************************************************************************)
(* The ledger is sound: its records form a chain, and the anchor describes *)
(* them when nothing is under way (AppendOnlyLedger.append, _write_head).  *)
(***************************************************************************)
LedgerSound == ChainIntact /\ Anchored

(***************************************************************************)
(* verify complains only with a reason: a crash or a cut that no append    *)
(* has settled since, or something that happened between its two reads,    *)
(* the second of which it makes without the lock (verify).                 *)
(***************************************************************************)
IssuesExplained == \A p \in Procs : verdict[p] = "issues" => overlap[p]

(***************************************************************************)
(* verify calls a ledger that lacks acknowledged records sound only when   *)
(* nothing is left to tell: a later append has renewed the anchor, or the  *)
(* records and the anchor are all gone (verify against the head anchor).   *)
(***************************************************************************)
OkCoversAcknowledged ==
    \A p \in Procs : verdict[p] = "ok" /\ missing[p] => reanchored \/ seen[p] = <<>>

(***************************************************************************)
(* A record whose append returned can be read from then on, through any    *)
(* crash.  Two things lose it: a cut of the file, and having been written  *)
(* behind the torn line of an earlier crash, onto which it runs            *)
(* (append opens the file without looking at how it ends).                 *)
(***************************************************************************)
AckedDurable ==
    acked \subseteq RecordsOf(file) \/ losses > 0 \/ (crashes > 0 /\ end = "broken")

(***************************************************************************)
(* The ledger implements an append-only log (AppendLog.tla).               *)
(***************************************************************************)
Log == INSTANCE AppendLog WITH log <- file
AppendOnly == Log!Spec
=============================================================================
