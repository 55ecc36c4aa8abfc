---------------------- MODULE AppendOnlyLedger_proofs ----------------------
(***************************************************************************)
(* Proofs about AppendOnlyLedger, for any number of threads, appends,      *)
(* crashes and losses.  First what appending to and cutting a chained      *)
(* sequence does, then the types, then the inductive invariant IInv that   *)
(* implies the properties the run "ledger" checks; what the answer of      *)
(* verify is worth needs HInv, and the hash to be free of collisions.      *)
(***************************************************************************)
EXTENDS AppendOnlyLedger, SequenceTheorems, WellFoundedInduction, TLAPS

InAppend == {"write", "truncate", "anchor"}

-----------------------------------------------------------------------------
(* Sequences of records *)

(***************************************************************************)
(* What append stamps is a record (the bounds are those of the model).     *)
(***************************************************************************)
LEMMA StampIsRecord ==
    ASSUME NEW S \in Seq(Record), NEW d \in Payloads,
           Len(S) \in 0 .. MaxAppends, NEW t \in 0 .. MaxAppends
    PROVE  /\ LastHash(S) \in Hashes
           /\ Stamp(S, d, t) \in Record
<1>1. LastHash(S) \in Hashes
  <2>1. CASE S = <<>>
    BY <2>1, LedgerAssumption DEF LastHash
  <2>2. CASE S # <<>>
    <3>1. Len(S) \in 1 .. Len(S)
      BY <2>2, EmptySeq
    <3>2. S[Len(S)] \in Record
      BY <3>1
    <3> QED BY <2>2, <3>2 DEF LastHash, Record
  <2> QED BY <2>1, <2>2
<1>2. Hash(LastHash(S), Len(S), t, d) \in Hashes
  BY <1>1, LedgerAssumption
<1> QED BY <1>1, <1>2 DEF Stamp, Record

(***************************************************************************)
(* Appending a record that links to the last one keeps the chain whole.    *)
(***************************************************************************)
LEMMA ChainGrows ==
    ASSUME NEW S \in Seq(Record), NEW r \in Record, Chained(S),
           r.seq = Len(S), r.prev = LastHash(S),
           r.hash = Hash(r.prev, r.seq, r.ts, r.payload)
    PROVE  Chained(Append(S, r))
<1> DEFINE T == Append(S, r)
<1>1. /\ Len(T) = Len(S) + 1
      /\ \A i \in 1 .. Len(S) : T[i] = S[i]
      /\ T[Len(S) + 1] = r
      /\ Len(S) \in Nat
  BY AppendProperties
<1>2. ASSUME NEW i \in 1 .. Len(T) PROVE Linked(T, i)
  <2>1. CASE i \in 1 .. Len(S)
    BY <2>1, <1>1 DEF Chained, Linked
  <2>2. CASE i = Len(S) + 1
    <3>1. T[i].prev = (IF i = 1 THEN Genesis ELSE T[i - 1].hash)
      BY <2>2, <1>1 DEF LastHash
    <3> QED BY <2>2, <1>1, <3>1 DEF Linked
  <2> QED BY <2>1, <2>2, <1>1
<1> QED BY <1>2 DEF Chained

(***************************************************************************)
(* A prefix of a chained sequence is a chained sequence of records.        *)
(***************************************************************************)
LEMMA ChainCut ==
    ASSUME NEW S \in Seq(Record), NEW n \in 0 .. Len(S)
    PROVE  /\ SubSeq(S, 1, n) \in Seq(Record)
           /\ Len(SubSeq(S, 1, n)) = n
           /\ Chained(S) => Chained(SubSeq(S, 1, n))
<1> DEFINE T == SubSeq(S, 1, n)
<1>0. Len(S) \in Nat /\ \A i \in 1 .. Len(S) : S[i] \in Record
  OBVIOUS
<1>1. /\ T \in Seq(Record)
      /\ Len(T) = n
      /\ \A i \in 1 .. n : T[i] = S[i]
  <2>1. \A i \in 1 .. n : S[i] \in Record
    BY <1>0
  <2>2. /\ T \in Seq(Record)
        /\ Len(T) = IF 1 <= n THEN n - 1 + 1 ELSE 0
        /\ \A i \in 1 .. n - 1 + 1 : T[i] = S[1 + i - 1]
    BY <2>1, <1>0, SubSeqProperties
  <2> QED BY <2>2, <1>0
<1>2. ASSUME Chained(S), NEW i \in 1 .. n PROVE Linked(T, i)
  <2>1. Linked(S, i)
    BY <1>2, <1>0 DEF Chained
  <2> QED BY <2>1, <1>1, <1>0 DEF Linked
<1> QED BY <1>1, <1>2 DEF Chained

-----------------------------------------------------------------------------
(* The inductive invariant *)

\* How far the file can have got, and how it comes to end badly.
Room == /\ Len(file) <= clock
        /\ end = "open" => file # <<>>
        /\ end # "newline" => crashes > 0

\* Whoever is inside append holds the lock and a record.
Writers == \A p \in Procs : pc[p] \in InAppend =>
              /\ lock = p
              /\ rec[p] \in Record
              /\ rec[p].seq < MaxAppends

\* The record about to be written continues the file as it is now.
Stamped == \A p \in Procs : pc[p] = "write" =>
              /\ Len(file) < clock
              /\ rec[p].seq = Len(file)
              /\ rec[p].prev = LastHash(file)
              /\ rec[p].hash = Hash(rec[p].prev, rec[p].seq, rec[p].ts, rec[p].payload)

\* The record just written is the last one, if the file can be read at all.
Written == \A p \in Procs : pc[p] \in {"truncate", "anchor"} /\ Readable =>
              /\ Len(file) = rec[p].seq + 1
              /\ file[Len(file)] = rec[p]

\* What verify has read is still current, or an overlap has been noted.
Readers == \A p \in Procs :
              /\ verdict[p] # "none" => pc[p] = "done"
              /\ verdict[p] = "issues" => overlap[p]
              /\ pc[p] = "v_head" /\ ~overlap[p] => seen[p] = file /\ head = AnchorOf(file)

IInv == /\ TypeOK
        /\ Room
        /\ Writers
        /\ Stamped
        /\ Written
        /\ ChainIntact
        /\ Anchored
        /\ AckedDurable
        /\ Readers

-----------------------------------------------------------------------------
(* What a step does to the file *)

\* The three things that can happen to the readable records.
Grows(p) == pc[p] = "write" /\ file' = Append(file, rec[p])
Cut == \E n \in 0 .. Len(file) : file' = SubSeq(file, 1, n)
FileMoves == file' = file \/ (\E p \in Procs : Grows(p)) \/ Cut

(***************************************************************************)
(* A line that lands, whole or torn, leaves the file grown, cut or as it   *)
(* was.                                                                    *)
(***************************************************************************)
LEMMA Landing ==
    ASSUME TypeOK, Room, NEW p \in Procs, pc[p] = "write",
           Torn(rec[p]) \/ Landed(rec[p])
    PROVE  /\ FileMoves
           /\ end' \in {"newline", "open", "broken"}
<1>1. end \in {"newline", "open", "broken"} /\ Len(file) \in Nat
  BY DEF TypeOK
<1>2. end = "open" => Len(file) - 1 \in 0 .. Len(file)
  <2>1. end = "open" => Len(file) # 0
    BY EmptySeq DEF Room, TypeOK
  <2> QED BY <2>1, <1>1
<1>3. CASE Landed(rec[p])
  <2>1. CASE end = "newline"
    BY <1>3, <2>1 DEF Landed, FileMoves, Grows
  <2>2. CASE end = "open"
    <3>1. file' = SubSeq(file, 1, Len(file) - 1) /\ end' = "broken"
      BY <1>3, <2>2 DEF Landed
    <3> QED BY <3>1, <2>2, <1>2 DEF FileMoves, Cut
  <2>3. CASE end = "broken"
    BY <1>3, <2>3 DEF Landed, FileMoves
  <2> QED BY <1>1, <2>1, <2>2, <2>3
<1>4. CASE UNCHANGED <<file, end>>
  BY <1>4, <1>1 DEF FileMoves
<1>5. CASE end' = "broken" /\ file' = (IF end = "open" THEN SubSeq(file, 1, Len(file) - 1) ELSE file)
  <2>1. CASE end = "open"
    BY <1>5, <2>1, <1>2 DEF FileMoves, Cut
  <2>2. CASE end # "open"
    BY <1>5, <2>2 DEF FileMoves
  <2> QED BY <2>1, <2>2
<1>6. CASE end = "newline" /\ file' = Append(file, rec[p]) /\ end' = "open"
  BY <1>6 DEF FileMoves, Grows
<1> QED BY <1>3, <1>4, <1>5, <1>6 DEF Torn

(***************************************************************************)
(* Every step moves the file in one of the three ways.                     *)
(***************************************************************************)
LEMMA StepMovesFile ==
    ASSUME TypeOK, Room, [Next]_vars
    PROVE  FileMoves
<1>1. CASE \E p \in Procs : AppendWrite(p)
  BY <1>1, Landing DEF AppendWrite
<1>2. CASE Crash
  BY <1>2, Landing DEF Crash, FileMoves
<1>3. CASE LoseTail
  <2>1. PICK n \in 0 .. Len(file) - 1 : file' = SubSeq(file, 1, n)
    BY <1>3 DEF LoseTail
  <2>2. n \in 0 .. Len(file)
    BY DEF TypeOK
  <2> QED BY <2>1, <2>2 DEF FileMoves, Cut
<1>4. CASE \E p \in Procs : \/ \E d \in Payloads : AppendRead(p, d)
                            \/ HeadTruncate(p) \/ HeadWrite(p)
                            \/ VerifyRead(p) \/ VerifyHead(p) \/ VerifyReturn(p)
  BY <1>4 DEF AppendRead, HeadTruncate, HeadWrite, VerifyRead, VerifyHead,
              VerifyReturn, fileVars, FileMoves
<1>5. CASE UNCHANGED vars
  BY <1>5 DEF vars, fileVars, FileMoves
<1> QED BY <1>1, <1>2, <1>3, <1>4, <1>5 DEF Next

(***************************************************************************)
(* The records stay records, chained, and grow by one at most.             *)
(***************************************************************************)
LEMMA FileStaysChained ==
    ASSUME TypeOK, Writers, Stamped, ChainIntact, FileMoves
    PROVE  /\ file' \in Seq(Record)
           /\ ChainIntact'
           /\ Len(file') <= Len(file) \/ \E p \in Procs : Grows(p)
           /\ Len(file') \in Nat
<1>0. file \in Seq(Record) /\ Len(file) \in Nat
  BY DEF TypeOK
<1>1. CASE file' = file
  BY <1>1, <1>0 DEF ChainIntact
<1>2. ASSUME NEW p \in Procs, Grows(p)
      PROVE  file' \in Seq(Record) /\ ChainIntact' /\ Len(file') \in Nat
  <2>1. /\ rec[p] \in Record
        /\ rec[p].seq = Len(file)
        /\ rec[p].prev = LastHash(file)
        /\ rec[p].hash = Hash(rec[p].prev, rec[p].seq, rec[p].ts, rec[p].payload)
    BY <1>2 DEF Grows, Writers, Stamped, InAppend
  <2>2. Chained(Append(file, rec[p]))
    BY <2>1, <1>0, ChainGrows DEF ChainIntact
  <2>3. Append(file, rec[p]) \in Seq(Record) /\ Len(Append(file, rec[p])) \in Nat
    BY <2>1, <1>0
  <2> QED BY <1>2, <2>2, <2>3 DEF Grows, ChainIntact
<1>3. CASE Cut
  <2>1. PICK n \in 0 .. Len(file) : file' = SubSeq(file, 1, n)
    BY <1>3 DEF Cut
  <2>2. file' \in Seq(Record) /\ Len(file') = n /\ Chained(file')
    BY <2>1, <1>0, ChainCut DEF ChainIntact
  <2> QED BY <2>2, <1>0 DEF ChainIntact
<1> QED BY <1>1, <1>2, <1>3, <1>0 DEF FileMoves

-----------------------------------------------------------------------------
(* Types *)

(***************************************************************************)
(* Everything starts with its type.                                        *)
(***************************************************************************)
LEMMA InitTypes == Init => TypeOK
<1> SUFFICES ASSUME Init PROVE TypeOK
  OBVIOUS
<1>1. file \in Seq(Record) /\ seen \in [Procs -> Seq(Record)]
  <2>1. <<>> \in Seq(Record)
    BY EmptySeq
  <2> QED BY <2>1 DEF Init
<1>2. head \in Anchor
  BY LedgerAssumption DEF Init, NoHead, Anchor
<1>3. /\ lock \in Procs \cup {NoProc}
      /\ pc \in [Procs -> {"idle", "write", "truncate", "anchor", "v_head", "done"}]
      /\ rec \in [Procs -> Record \cup {NoRec}]
      /\ verdict \in [Procs -> {"none", "ok", "issues"}]
      /\ overlap \in [Procs -> BOOLEAN] /\ missing \in [Procs -> BOOLEAN]
  BY DEF Init
<1>4. /\ clock \in 0 .. MaxAppends
      /\ crashes \in 0 .. MaxCrashes /\ losses \in 0 .. MaxLosses
      /\ acked \subseteq Record
      /\ end \in {"newline", "open", "broken"}
  BY LedgerAssumption DEF Init
<1>5. unsettled \in BOOLEAN /\ reanchored \in BOOLEAN
  BY Zenon DEF Init
<1> QED BY <1>1, <1>2, <1>3, <1>4, <1>5 DEF TypeOK

(***************************************************************************)
(* A step keeps the types, given that whoever is inside append holds a     *)
(* record whose number is within the bound.                                *)
(***************************************************************************)
LEMMA StepTypes ==
    ASSUME TypeOK, Room, Writers, Stamped, ChainIntact, [Next]_vars
    PROVE  TypeOK'
<1> USE DEF TypeOK
<1>0. file' \in Seq(Record)
  BY StepMovesFile, FileStaysChained
<1>1. ASSUME NEW p \in Procs, NEW d \in Payloads, AppendRead(p, d) PROVE TypeOK'
  <2>1. Len(file) \in 0 .. MaxAppends /\ clock \in 0 .. MaxAppends
    BY LedgerAssumption DEF Room
  <2>2. Stamp(file, d, clock) \in Record
    BY <2>1, StampIsRecord
  <2>3. clock + 1 \in 0 .. MaxAppends
    BY <1>1, <2>1, LedgerAssumption DEF AppendRead
  <2> QED BY <1>1, <2>2, <2>3 DEF AppendRead, fileVars, faultVars, histVars
<1>2. ASSUME NEW p \in Procs, AppendWrite(p) PROVE TypeOK'
  <2>1. end' \in {"newline", "open", "broken"}
    BY <1>2, Landing DEF AppendWrite
  <2>2. overlap' \in [Procs -> BOOLEAN]
    BY <1>2 DEF AppendWrite, Overlapped
  <2> QED BY <1>2, <1>0, <2>1, <2>2 DEF AppendWrite, faultVars
<1>3. ASSUME NEW p \in Procs, HeadTruncate(p) PROVE TypeOK'
  <2>1. overlap' \in [Procs -> BOOLEAN]
    BY <1>3 DEF HeadTruncate, Overlapped
  <2>2. NoHead \in Anchor
    BY LedgerAssumption DEF NoHead, Anchor
  <2> QED BY <1>3, <2>1, <2>2 DEF HeadTruncate, faultVars
<1>4. ASSUME NEW p \in Procs, HeadWrite(p) PROVE TypeOK'
  <2>1. overlap' \in [Procs -> BOOLEAN]
    BY <1>4 DEF HeadWrite, Overlapped
  <2>2. rec[p] \in Record /\ rec[p].seq + 1 \in 0 .. MaxAppends
    <3>1. rec[p] \in Record /\ rec[p].seq < MaxAppends
      BY <1>4 DEF HeadWrite, Writers, InAppend
    <3>2. rec[p].seq \in 0 .. MaxAppends
      BY <3>1 DEF Record
    <3> QED BY <3>1, <3>2, LedgerAssumption
  <2>3. AnchorFor(rec[p]) \in Anchor
    BY <2>2 DEF AnchorFor, Anchor, Record
  <2>4. acked' \subseteq Record
    BY <1>4, <2>2 DEF HeadWrite
  <2>5. reanchored' \in BOOLEAN /\ unsettled' \in BOOLEAN
    BY <1>4 DEF HeadWrite
  <2> QED BY <1>4, <2>1, <2>3, <2>4, <2>5 DEF HeadWrite, faultVars
<1>5. ASSUME NEW p \in Procs, VerifyRead(p) PROVE TypeOK'
  <2>1. missing' \in [Procs -> BOOLEAN]
    <3>1. CASE acked \subseteq RecordsOf(file)
      BY <1>5, <3>1 DEF VerifyRead
    <3>2. CASE ~(acked \subseteq RecordsOf(file))
      BY <1>5, <3>2 DEF VerifyRead
    <3> QED BY <3>1, <3>2
  <2> QED BY <1>5, <2>1 DEF VerifyRead, fileVars, faultVars
<1>6. ASSUME NEW p \in Procs, VerifyHead(p) PROVE TypeOK'
  BY <1>6 DEF VerifyHead, fileVars, faultVars, histVars
<1>7. ASSUME NEW p \in Procs, VerifyReturn(p) PROVE TypeOK'
  <2>1. <<>> \in Seq(Record)
    BY EmptySeq
  <2> QED BY <1>7, <2>1 DEF VerifyReturn, fileVars, faultVars
<1>8. CASE Crash
  <2>1. end' \in {"newline", "open", "broken"}
    BY <1>8, Landing DEF Crash
  <2>2. NoHead \in Anchor /\ <<>> \in Seq(Record)
    BY LedgerAssumption, EmptySeq DEF NoHead, Anchor
  <2>3. crashes' \in 0 .. MaxCrashes
    BY <1>8, LedgerAssumption DEF Crash
  <2> QED BY <1>8, <1>0, <2>1, <2>2, <2>3 DEF Crash
<1>9. CASE LoseTail
  <2>1. overlap' \in [Procs -> BOOLEAN]
    BY <1>9 DEF LoseTail, Overlapped
  <2>2. losses' \in 0 .. MaxLosses
    BY <1>9, LedgerAssumption DEF LoseTail
  <2> QED BY <1>9, <1>0, <2>1, <2>2 DEF LoseTail, procVars
<1>10. CASE UNCHANGED vars
  BY <1>10 DEF vars, fileVars, procVars, faultVars, histVars
<1> QED BY <1>1, <1>2, <1>3, <1>4, <1>5, <1>6, <1>7, <1>8, <1>9, <1>10 DEF Next

-----------------------------------------------------------------------------
(* append, from its lock to its return *)

(***************************************************************************)
(* What one line written by its append does, spelled out for the proofs:   *)
(* it lands behind a complete line, spoils an open one, or is lost behind  *)
(* a broken one.                                                           *)
(***************************************************************************)
LEMMA WriteCases ==
    ASSUME TypeOK, Room, Writers, Stamped, NEW p \in Procs, AppendWrite(p)
    PROVE  \/ /\ end = "newline" /\ end' = "newline"
              /\ file' = Append(file, rec[p])
              /\ Len(file') = Len(file) + 1
              /\ file'[Len(file')] = rec[p]
              /\ RecordsOf(file) \subseteq RecordsOf(file')
           \/ /\ end = "open" /\ end' = "broken"
              /\ Len(file') <= Len(file)
           \/ /\ end = "broken" /\ end' = "broken" /\ file' = file
<1>0. file \in Seq(Record) /\ rec[p] \in Record /\ Len(file) \in Nat
  BY DEF TypeOK, Writers, InAppend, AppendWrite
<1>1. CASE end = "newline"
  <2>1. file' = Append(file, rec[p]) /\ end' = "newline"
    BY <1>1 DEF AppendWrite, Landed
  <2>2. /\ Len(file') = Len(file) + 1
        /\ file'[Len(file')] = rec[p]
        /\ \A i \in 1 .. Len(file) : file'[i] = file[i]
    BY <2>1, <1>0, AppendProperties
  <2>3. RecordsOf(file) \subseteq RecordsOf(file')
    <3>1. DOMAIN file = 1 .. Len(file) /\ DOMAIN file' = 1 .. Len(file) + 1
      BY <1>0, <2>1, <2>2
    <3> QED BY <3>1, <2>2, <1>0 DEF RecordsOf
  <2> QED BY <1>1, <2>1, <2>2, <2>3
<1>2. CASE end = "open"
  <2>1. file' = SubSeq(file, 1, Len(file) - 1) /\ end' = "broken"
    BY <1>2 DEF AppendWrite, Landed
  <2>2. Len(file) - 1 \in 0 .. Len(file)
    BY <1>0, <1>2, EmptySeq DEF Room
  <2>3. Len(file') = Len(file) - 1
    BY <2>1, <2>2, <1>0, ChainCut
  <2> QED BY <1>2, <2>1, <2>3, <1>0
<1>3. CASE end = "broken"
  BY <1>3 DEF AppendWrite, Landed
<1> QED BY <1>1, <1>2, <1>3 DEF TypeOK

(***************************************************************************)
(* The file never outgrows the clock, and it ends badly only after a       *)
(* crash.                                                                  *)
(***************************************************************************)
LEMMA StepRoom ==
    ASSUME IInv, [Next]_vars
    PROVE  Room'
<1>0. TypeOK /\ Room /\ Writers /\ Stamped /\ ChainIntact
  BY DEF IInv
<1>1. /\ file \in Seq(Record) /\ Len(file) \in Nat /\ clock \in Nat
      /\ crashes \in Nat
      /\ Len(file') \in Nat
  BY <1>0, StepMovesFile, FileStaysChained DEF TypeOK
<1>2. ASSUME NEW p \in Procs, NEW d \in Payloads, AppendRead(p, d) PROVE Room'
  BY <1>2, <1>0, <1>1 DEF AppendRead, fileVars, faultVars, Room
<1>3. ASSUME NEW p \in Procs, AppendWrite(p) PROVE Room'
  <2>1. Len(file) < clock /\ clock' = clock /\ crashes' = crashes
    BY <1>3, <1>0 DEF AppendWrite, Stamped, faultVars
  <2> QED BY <1>3, <2>1, <1>0, <1>1, WriteCases DEF Room
<1>4. CASE \E p \in Procs : HeadTruncate(p) \/ HeadWrite(p) \/ VerifyRead(p)
                            \/ VerifyHead(p) \/ VerifyReturn(p)
  BY <1>4, <1>0 DEF HeadTruncate, HeadWrite, VerifyRead, VerifyHead, VerifyReturn,
                    fileVars, faultVars, Room
<1>5. CASE Crash
  <2>1. clock' = clock /\ crashes' > 0
    BY <1>5, <1>1 DEF Crash
  <2>2. Len(file') <= clock
    <3>1. CASE \E p \in Procs : Grows(p)
      <4>1. PICK p \in Procs : pc[p] = "write" /\ file' = Append(file, rec[p])
        BY <3>1 DEF Grows
      <4>2. rec[p] \in Record /\ Len(file) < clock
        BY <4>1, <1>0 DEF Writers, Stamped, InAppend
      <4> QED BY <4>1, <4>2, <1>1, AppendProperties
    <3>2. CASE Len(file') <= Len(file)
      BY <3>2, <1>0, <1>1 DEF Room
    <3> QED BY <3>1, <3>2, <1>0, StepMovesFile, FileStaysChained
  <2>3. end' = "open" => file' # <<>>
    <3>1. CASE UNCHANGED <<file, end>>
      BY <3>1, <1>0 DEF Room
    <3>2. ASSUME NEW p \in Procs, pc[p] = "write", Torn(rec[p]), end' = "open",
                 ~UNCHANGED <<file, end>>
          PROVE  file' # <<>>
      <4>1. end = "newline" /\ file' = Append(file, rec[p])
        BY <3>2 DEF Torn, Landed, TypeOK, IInv
      <4>2. rec[p] \in Record
        BY <3>2, <1>0 DEF Writers, InAppend
      <4> QED BY <4>1, <4>2, <1>1, AppendProperties
    <3> QED BY <1>5, <3>1, <3>2 DEF Crash
  <2> QED BY <2>1, <2>2, <2>3 DEF Room
<1>6. CASE LoseTail
  <2>1. clock' = clock /\ end' = "newline"
    BY <1>6 DEF LoseTail
  <2>2. PICK n \in 0 .. Len(file) - 1 : file' = SubSeq(file, 1, n)
    BY <1>6 DEF LoseTail
  <2>3. n \in 0 .. Len(file) /\ n <= clock
    BY <1>0, <1>1 DEF Room
  <2>4. Len(file') = n
    BY <2>2, <2>3, <1>1, ChainCut
  <2> QED BY <2>1, <2>3, <2>4 DEF Room
<1>7. CASE UNCHANGED vars
  BY <1>7, <1>0 DEF vars, fileVars, faultVars, Room
<1> QED BY <1>2, <1>3, <1>4, <1>5, <1>6, <1>7 DEF Next

(***************************************************************************)
(* Only the thread that holds the lock is inside append, and the record it *)
(* is about to write continues the file.                                   *)
(***************************************************************************)
LEMMA StepWriters ==
    ASSUME IInv, [Next]_vars
    PROVE  Writers' /\ Stamped'
<1>0. TypeOK /\ Room /\ Writers /\ Stamped /\ ChainIntact
  BY DEF IInv
<1>1. ASSUME NEW p \in Procs, NEW d \in Payloads, AppendRead(p, d)
      PROVE  Writers' /\ Stamped'
  <2>1. Len(file) \in 0 .. MaxAppends /\ clock \in 0 .. MaxAppends /\ Len(file) <= clock
    BY <1>0, LedgerAssumption DEF TypeOK, Room
  <2>2. Stamp(file, d, clock) \in Record
    BY <2>1, <1>0, StampIsRecord DEF TypeOK
  <2>3. /\ rec'[p] = Stamp(file, d, clock) /\ pc'[p] = "write" /\ lock' = p
        /\ \A q \in Procs \ {p} : rec'[q] = rec[q] /\ pc'[q] = pc[q]
        /\ file' = file /\ clock' = clock + 1 /\ clock < MaxAppends
    BY <1>1, <1>0 DEF AppendRead, fileVars, TypeOK
  <2>4. \A q \in Procs : pc[q] \notin InAppend
    BY <1>1, <1>0, LedgerAssumption DEF AppendRead, Writers
  <2>5. rec'[p].seq = Len(file) /\ rec'[p].prev = LastHash(file)
        /\ rec'[p].hash = Hash(rec'[p].prev, rec'[p].seq, rec'[p].ts, rec'[p].payload)
    BY <2>3 DEF Stamp
  <2>6. Writers'
    <3>1. Len(file) < MaxAppends
      BY <2>1, <2>3, LedgerAssumption
    <3> QED BY <2>2, <2>3, <2>4, <2>5, <3>1 DEF Writers
  <2>7. Stamped'
    <3>1. Len(file) < clock + 1
      BY <2>1
    <3> QED BY <2>3, <2>4, <2>5, <3>1 DEF Stamped, InAppend, LastHash
  <2> QED BY <2>6, <2>7
<1>2. ASSUME NEW p \in Procs, AppendWrite(p) PROVE Writers' /\ Stamped'
  <2>1. /\ pc'[p] = "truncate" /\ rec' = rec /\ lock' = lock
        /\ \A q \in Procs \ {p} : pc'[q] = pc[q]
        /\ pc[p] \in InAppend
    BY <1>2, <1>0 DEF AppendWrite, TypeOK, InAppend
  <2>2. \A q \in Procs \ {p} : pc[q] \notin InAppend
    BY <2>1, <1>0 DEF Writers
  <2> QED BY <2>1, <2>2, <1>0 DEF Writers, Stamped, InAppend
<1>3. ASSUME NEW p \in Procs, HeadTruncate(p) PROVE Writers' /\ Stamped'
  <2>1. /\ pc'[p] = "anchor" /\ rec' = rec /\ lock' = lock /\ pc[p] \in InAppend
        /\ \A q \in Procs \ {p} : pc'[q] = pc[q]
        /\ file' = file /\ clock' = clock
    BY <1>3, <1>0 DEF HeadTruncate, TypeOK, InAppend
  <2> QED BY <2>1, <1>0 DEF Writers, Stamped, InAppend, LastHash
<1>4. ASSUME NEW p \in Procs, HeadWrite(p) PROVE Writers' /\ Stamped'
  <2>1. /\ pc'[p] = "idle" /\ pc[p] \in InAppend
        /\ \A q \in Procs \ {p} : pc'[q] = pc[q]
    BY <1>4, <1>0 DEF HeadWrite, TypeOK, InAppend
  <2>2. \A q \in Procs \ {p} : pc[q] \notin InAppend
    BY <2>1, <1>0 DEF Writers
  <2> QED BY <2>1, <2>2 DEF Writers, Stamped, InAppend
<1>5. ASSUME NEW p \in Procs, VerifyRead(p) \/ VerifyHead(p) \/ VerifyReturn(p)
      PROVE  Writers' /\ Stamped'
  <2>1. /\ pc'[p] \notin InAppend
        /\ \A q \in Procs \ {p} : pc'[q] = pc[q]
        /\ rec' = rec /\ lock' = lock /\ file' = file /\ clock' = clock
    BY <1>5, <1>0 DEF VerifyRead, VerifyHead, VerifyReturn, fileVars, TypeOK, InAppend
  <2> QED BY <2>1, <1>0 DEF Writers, Stamped, InAppend, LastHash
<1>6. CASE Crash
  BY <1>6 DEF Crash, Writers, Stamped, InAppend
<1>7. CASE LoseTail
  BY <1>7, <1>0 DEF LoseTail, procVars, Writers, Stamped, InAppend
<1>8. CASE UNCHANGED vars
  BY <1>8, <1>0 DEF vars, fileVars, procVars, Writers, Stamped, LastHash
<1> QED BY <1>1, <1>2, <1>3, <1>4, <1>5, <1>6, <1>7, <1>8 DEF Next

(***************************************************************************)
(* Between the write and the return the new record is the last of the      *)
(* file, if the file can be read; once the lock is free the anchor agrees  *)
(* with the file.                                                          *)
(***************************************************************************)
LEMMA StepWritten ==
    ASSUME IInv, [Next]_vars
    PROVE  Written' /\ Anchored'
<1>0. TypeOK /\ Room /\ Writers /\ Stamped /\ Written /\ Anchored
  BY DEF IInv
<1>1. ASSUME NEW p \in Procs, NEW d \in Payloads, AppendRead(p, d)
      PROVE  Written' /\ Anchored'
  <2>1. /\ pc'[p] = "write" /\ lock' = p
        /\ \A q \in Procs \ {p} : rec'[q] = rec[q] /\ pc'[q] = pc[q]
        /\ file' = file /\ end' = end
    BY <1>1, <1>0 DEF AppendRead, fileVars, TypeOK
  <2>2. Anchored'
    BY <2>1, LedgerAssumption DEF Anchored
  <2> QED BY <2>1, <2>2, <1>0 DEF Written, Readable
<1>2. ASSUME NEW p \in Procs, AppendWrite(p) PROVE Written' /\ Anchored'
  <2>1. /\ pc'[p] = "truncate" /\ rec' = rec /\ lock' = p
        /\ \A q \in Procs \ {p} : pc'[q] = pc[q] /\ pc[q] \notin InAppend
    BY <1>2, <1>0 DEF AppendWrite, TypeOK, InAppend, Writers
  <2>2. Readable' => Len(file') = rec[p].seq + 1 /\ file'[Len(file')] = rec[p]
    BY <1>2, <1>0, WriteCases DEF Readable, Stamped, AppendWrite
  <2> QED BY <2>1, <2>2, LedgerAssumption DEF Written, Anchored, InAppend
<1>3. ASSUME NEW p \in Procs, HeadTruncate(p) PROVE Written' /\ Anchored'
  <2>1. /\ pc'[p] = "anchor" /\ pc[p] = "truncate" /\ rec' = rec /\ lock' = p
        /\ \A q \in Procs \ {p} : pc'[q] = pc[q]
        /\ file' = file /\ end' = end
    BY <1>3, <1>0 DEF HeadTruncate, TypeOK, InAppend, Writers
  <2> QED BY <2>1, <1>0, LedgerAssumption DEF Written, Anchored, Readable
<1>4. ASSUME NEW p \in Procs, HeadWrite(p) PROVE Written' /\ Anchored'
  <2>1. /\ pc'[p] = "idle" /\ pc[p] = "anchor" /\ lock' = NoProc
        /\ \A q \in Procs \ {p} : pc'[q] = pc[q] /\ pc[q] \notin InAppend
        /\ file' = file /\ end' = end /\ head' = AnchorFor(rec[p])
        /\ rec[p] \in Record
    BY <1>4, <1>0 DEF HeadWrite, TypeOK, InAppend, Writers
  <2>2. Readable => Len(file) = rec[p].seq + 1 /\ file[Len(file)] = rec[p]
    BY <2>1, <1>0 DEF Written
  <2>3. Readable => AnchorOf(file) = AnchorFor(rec[p])
    <3>1. rec[p].seq + 1 # 0
      BY <2>1 DEF Record
    <3>2. Readable => file # <<>>
      BY <2>2, <3>1, EmptySeq
    <3> QED BY <2>2, <3>2 DEF AnchorOf, AnchorFor, LastHash
  <2> QED BY <2>1, <2>3 DEF Written, Anchored, InAppend, Readable, AnchorOf, LastHash
<1>5. ASSUME NEW p \in Procs, VerifyRead(p) \/ VerifyHead(p) \/ VerifyReturn(p)
      PROVE  Written' /\ Anchored'
  <2>1. /\ pc'[p] \notin InAppend
        /\ \A q \in Procs \ {p} : pc'[q] = pc[q]
        /\ rec' = rec /\ lock' = lock /\ file' = file /\ end' = end /\ head' = head
        /\ unsettled' = unsettled
    BY <1>5, <1>0 DEF VerifyRead, VerifyHead, VerifyReturn, fileVars, histVars,
                      TypeOK, InAppend
  <2> QED BY <2>1, <1>0 DEF Written, Anchored, InAppend, Readable, AnchorOf, LastHash
<1>6. CASE Crash
  BY <1>6 DEF Crash, Written, Anchored
<1>7. CASE LoseTail
  BY <1>7 DEF LoseTail, procVars, Written, Anchored
<1>8. CASE UNCHANGED vars
  BY <1>8, <1>0 DEF vars, fileVars, procVars, histVars, Written, Anchored, Readable,
                    AnchorOf, LastHash
<1> QED BY <1>1, <1>2, <1>3, <1>4, <1>5, <1>6, <1>7, <1>8 DEF Next

(***************************************************************************)
(* Acknowledged records stay readable, but for a cut and for the line that *)
(* runs onto a torn one.                                                   *)
(***************************************************************************)
LEMMA StepDurable ==
    ASSUME IInv, [Next]_vars
    PROVE  AckedDurable'
<1>0. TypeOK /\ Room /\ Writers /\ Stamped /\ Written /\ AckedDurable
  BY DEF IInv
<1>1. crashes \in Nat /\ losses \in Nat /\ file \in Seq(Record) /\ Len(file) \in Nat
  BY <1>0 DEF TypeOK
<1>2. ASSUME NEW p \in Procs, AppendWrite(p) PROVE AckedDurable'
  <2>1. acked' = acked /\ crashes' = crashes /\ losses' = losses
    BY <1>2 DEF AppendWrite, faultVars
  <2>2. CASE end = "newline"
    <3>1. acked \subseteq RecordsOf(file) \/ losses > 0
      BY <2>2, <1>0 DEF AckedDurable
    <3>2. RecordsOf(file) \subseteq RecordsOf(file')
      BY <1>2, <2>2, <1>0, WriteCases
    <3> QED BY <2>1, <3>1, <3>2 DEF AckedDurable, RecordsOf
  <2>3. CASE end # "newline"
    <3>1. end' = "broken" /\ crashes > 0
      BY <1>2, <2>3, <1>0, WriteCases DEF Room
    <3> QED BY <2>1, <3>1 DEF AckedDurable
  <2> QED BY <2>2, <2>3
<1>3. ASSUME NEW p \in Procs, HeadWrite(p) PROVE AckedDurable'
  <2>1. /\ acked' = acked \cup {rec[p]} /\ file' = file /\ end' = end
        /\ crashes' = crashes /\ losses' = losses
        /\ pc[p] = "anchor" /\ rec[p] \in Record
    BY <1>3, <1>0 DEF HeadWrite, faultVars, Writers, InAppend
  <2>2. CASE Readable
    <3>1. Len(file) = rec[p].seq + 1 /\ file[Len(file)] = rec[p]
      BY <2>1, <2>2, <1>0 DEF Written
    <3>2. rec[p].seq \in Nat
      BY <2>1 DEF Record
    <3>3. Len(file) \in DOMAIN file
      BY <3>1, <3>2, <1>1
    <3>4. rec[p] \in RecordsOf(file)
      BY <3>1, <3>3 DEF RecordsOf
    <3> QED BY <2>1, <3>4, <1>0 DEF AckedDurable, RecordsOf
  <2>3. CASE ~Readable
    <3>1. end = "broken" /\ crashes > 0
      BY <2>3, <1>0 DEF Readable, Room
    <3> QED BY <2>1, <3>1 DEF AckedDurable
  <2> QED BY <2>2, <2>3
<1>4. CASE Crash
  <2>1. acked' = acked /\ losses' = losses /\ crashes' > 0
    BY <1>4, <1>1 DEF Crash
  <2>2. CASE UNCHANGED <<file, end>>
    BY <2>1, <2>2, <1>0 DEF AckedDurable, RecordsOf
  <2>3. ASSUME NEW p \in Procs, pc[p] = "write", Torn(rec[p]), ~UNCHANGED <<file, end>>
        PROVE  AckedDurable'
    <3>1. CASE end' = "broken"
      BY <2>1, <3>1 DEF AckedDurable
    <3>2. CASE end' # "broken"
      <4>1. end = "newline" /\ file' = Append(file, rec[p])
        BY <2>3, <3>2, <1>0 DEF Torn, Landed, TypeOK
      <4>2. rec[p] \in Record
        BY <2>3, <1>0 DEF Writers, InAppend
      <4>3. /\ Len(file') = Len(file) + 1 /\ file' \in Seq(Record)
            /\ \A i \in 1 .. Len(file) : file'[i] = file[i]
        BY <4>1, <4>2, <1>1, AppendProperties
      <4>4. RecordsOf(file) \subseteq RecordsOf(file')
        <5>1. DOMAIN file = 1 .. Len(file) /\ DOMAIN file' = 1 .. Len(file) + 1
          BY <4>3, <1>1
        <5> QED BY <5>1, <4>3, <1>1 DEF RecordsOf
      <4> QED BY <2>1, <4>1, <4>4, <1>0 DEF AckedDurable, RecordsOf
    <3> QED BY <3>1, <3>2
  <2> QED BY <1>4, <2>2, <2>3 DEF Crash
<1>5. CASE LoseTail
  BY <1>5, <1>1 DEF LoseTail, AckedDurable
<1>6. CASE \E p \in Procs : \/ \E d \in Payloads : AppendRead(p, d)
                            \/ HeadTruncate(p) \/ VerifyRead(p) \/ VerifyHead(p)
                            \/ VerifyReturn(p)
  BY <1>6, <1>0 DEF AppendRead, HeadTruncate, VerifyRead, VerifyHead, VerifyReturn,
                    fileVars, faultVars, histVars, AckedDurable, RecordsOf
<1>7. CASE UNCHANGED vars
  BY <1>7, <1>0 DEF vars, fileVars, faultVars, histVars, AckedDurable, RecordsOf
<1> QED BY <1>2, <1>3, <1>4, <1>5, <1>6, <1>7 DEF Next

-----------------------------------------------------------------------------
(* verify *)

(***************************************************************************)
(* A chained file and its own anchor give verify nothing to report.        *)
(***************************************************************************)
LEMMA SettledIsSound ==
    ASSUME NEW S \in Seq(Record)
    PROVE  HeadAgrees(S, AnchorOf(S))
BY DEF HeadAgrees, AnchorOf, NoHead

(***************************************************************************)
(* What verify has read stays current until an overlap is noted.           *)
(***************************************************************************)
LEMMA StepReaders ==
    ASSUME IInv, [Next]_vars
    PROVE  Readers'
<1>0. TypeOK /\ ChainIntact /\ Anchored /\ Readers
  BY DEF IInv
<1>1. ASSUME NEW p \in Procs, NEW d \in Payloads, AppendRead(p, d) PROVE Readers'
  <2>1. /\ pc'[p] = "write" /\ pc[p] = "idle"
        /\ \A q \in Procs \ {p} : pc'[q] = pc[q]
        /\ file' = file /\ head' = head /\ seen' = seen /\ verdict' = verdict
        /\ overlap' = overlap
    BY <1>1, <1>0 DEF AppendRead, fileVars, histVars, TypeOK
  <2> QED BY <2>1, <1>0 DEF Readers, AnchorOf, LastHash
<1>2. ASSUME NEW p \in Procs, AppendWrite(p) \/ HeadTruncate(p) \/ HeadWrite(p)
      PROVE  Readers'
  <2>1. /\ pc[p] \notin {"v_head", "done"} /\ pc'[p] \notin {"v_head", "done"}
        /\ \A q \in Procs \ {p} : pc'[q] = pc[q]
        /\ verdict' = verdict /\ overlap' = Overlapped
    BY <1>2, <1>0 DEF AppendWrite, HeadTruncate, HeadWrite, TypeOK
  <2> QED BY <2>1, <1>0 DEF Readers, Overlapped
<1>3. ASSUME NEW p \in Procs, VerifyRead(p) PROVE Readers'
  <2>1. /\ pc[p] = "idle" /\ pc'[p] = "v_head" /\ seen'[p] = file
        /\ overlap'[p] = unsettled /\ lock = NoProc /\ Readable
        /\ \A q \in Procs \ {p} : /\ pc'[q] = pc[q] /\ seen'[q] = seen[q]
                                  /\ overlap'[q] = overlap[q]
        /\ file' = file /\ head' = head /\ verdict' = verdict
    BY <1>3, <1>0 DEF VerifyRead, fileVars, TypeOK
  <2>2. ~overlap'[p] => head = AnchorOf(file)
    BY <2>1, <1>0 DEF Anchored
  <2>3. verdict[p] = "none"
    BY <2>1, <1>0 DEF Readers
  <2> QED BY <2>1, <2>2, <2>3, <1>0 DEF Readers, AnchorOf, LastHash
<1>4. ASSUME NEW p \in Procs, VerifyHead(p) PROVE Readers'
  <2>1. /\ pc[p] = "v_head" /\ pc'[p] = "done"
        /\ \A q \in Procs \ {p} : pc'[q] = pc[q] /\ verdict'[q] = verdict[q]
        /\ verdict'[p] = IF Chained(seen[p]) /\ HeadAgrees(seen[p], head) THEN "ok" ELSE "issues"
        /\ file' = file /\ head' = head /\ seen' = seen /\ overlap' = overlap
    BY <1>4, <1>0 DEF VerifyHead, fileVars, histVars, TypeOK
  <2>2. ~overlap[p] => Chained(seen[p]) /\ HeadAgrees(seen[p], head)
    BY <2>1, <1>0, SettledIsSound DEF Readers, ChainIntact, TypeOK
  <2>3. verdict'[p] = "issues" => overlap'[p]
    BY <2>1, <2>2
  <2> QED BY <2>1, <2>3, <1>0 DEF Readers, AnchorOf, LastHash
<1>5. ASSUME NEW p \in Procs, VerifyReturn(p) PROVE Readers'
  <2>1. /\ pc'[p] = "idle" /\ verdict'[p] = "none"
        /\ \A q \in Procs \ {p} : /\ pc'[q] = pc[q] /\ verdict'[q] = verdict[q]
                                  /\ seen'[q] = seen[q] /\ overlap'[q] = overlap[q]
        /\ file' = file /\ head' = head
    BY <1>5, <1>0 DEF VerifyReturn, fileVars, TypeOK
  <2> QED BY <2>1, <1>0 DEF Readers, AnchorOf, LastHash
<1>6. CASE Crash
  BY <1>6 DEF Crash, Readers
<1>7. CASE LoseTail
  BY <1>7, <1>0 DEF LoseTail, procVars, Readers, Overlapped
<1>8. CASE UNCHANGED vars
  BY <1>8, <1>0 DEF vars, fileVars, procVars, histVars, Readers, AnchorOf, LastHash
<1> QED BY <1>1, <1>2, <1>3, <1>4, <1>5, <1>6, <1>7, <1>8 DEF Next

-----------------------------------------------------------------------------
(* The theorems *)

(***************************************************************************)
(* The invariant holds of an empty ledger ...                              *)
(***************************************************************************)
LEMMA InitInvariant == Init => IInv
<1> SUFFICES ASSUME Init PROVE IInv
  OBVIOUS
<1>1. TypeOK
  BY InitTypes
<1>2. Len(file) = 0 /\ clock = 0
  BY EmptySeq DEF Init
<1>3. Room /\ ChainIntact
  BY <1>2 DEF Init, Room, ChainIntact, Chained
<1>4. Writers /\ Stamped /\ Written
  BY DEF Init, Writers, Stamped, Written, InAppend
<1>5. Anchored /\ AckedDurable /\ Readers
  BY DEF Init, Anchored, AnchorOf, AckedDurable, Readers
<1> QED BY <1>1, <1>3, <1>4, <1>5 DEF IInv

(***************************************************************************)
(* ... and every step keeps it.                                            *)
(***************************************************************************)
LEMMA StepInvariant == IInv /\ [Next]_vars => IInv'
<1> SUFFICES ASSUME IInv, [Next]_vars PROVE IInv'
  OBVIOUS
<1>1. TypeOK /\ Room /\ Writers /\ Stamped /\ ChainIntact
  BY DEF IInv
<1>2. TypeOK' /\ ChainIntact'
  BY <1>1, StepTypes, StepMovesFile, FileStaysChained
<1>3. Room' /\ Writers' /\ Stamped' /\ Written' /\ Anchored' /\ AckedDurable' /\ Readers'
  BY StepRoom, StepWriters, StepWritten, StepDurable, StepReaders
<1> QED BY <1>2, <1>3 DEF IInv

(***************************************************************************)
(* The inductive invariant holds of every behaviour of the ledger.         *)
(***************************************************************************)
THEOREM Inductive == Spec => []IInv
BY InitInvariant, StepInvariant, PTL DEF Spec

(***************************************************************************)
(* Types: records carry numbers within the bound and hash values, whoever  *)
(* writes them and wherever a crash falls.                                 *)
(***************************************************************************)
THEOREM TypeCorrect == Spec => []TypeOK
<1>1. IInv => TypeOK
  BY DEF IInv
<1> QED BY <1>1, Inductive, PTL

(***************************************************************************)
(* The readable records always form one unbroken chain                     *)
(* (AppendOnlyLedger.append).                                              *)
(***************************************************************************)
THEOREM ChainIsIntact == Spec => []ChainIntact
<1>1. IInv => ChainIntact
  BY DEF IInv
<1> QED BY <1>1, Inductive, PTL

(***************************************************************************)
(* A settled ledger agrees with its head anchor (_write_head).             *)
(***************************************************************************)
THEOREM HeadIsAnchored == Spec => []Anchored
<1>1. IInv => Anchored
  BY DEF IInv
<1> QED BY <1>1, Inductive, PTL

(***************************************************************************)
(* The ledger is sound in every reachable state (AppendOnlyLedger.append,  *)
(* _write_head).                                                           *)
(***************************************************************************)
THEOREM LedgerIsSound == Spec => []LedgerSound
<1>1. ChainIntact /\ Anchored => LedgerSound
  BY DEF LedgerSound
<1> QED BY <1>1, ChainIsIntact, HeadIsAnchored, PTL

(***************************************************************************)
(* An acknowledged record is lost only to a cut or behind a torn line      *)
(* (AppendOnlyLedger.append).                                              *)
(***************************************************************************)
THEOREM AckedIsDurable == Spec => []AckedDurable
<1>1. IInv => AckedDurable
  BY DEF IInv
<1> QED BY <1>1, Inductive, PTL

(***************************************************************************)
(* verify never complains without a reason (AppendOnlyLedger.verify).      *)
(***************************************************************************)
THEOREM ComplaintsAreExplained == Spec => []IssuesExplained
<1>1. IInv => IssuesExplained
  BY DEF IInv, Readers, IssuesExplained
<1> QED BY <1>1, Inductive, PTL

(***************************************************************************)
(* The ledger implements the append-only log of AppendLog.tla: its records *)
(* start empty, and every step adds one at the end, loses some from the    *)
(* end, or leaves them alone.                                              *)
(***************************************************************************)
THEOREM ImplementsAppendLog == Spec => AppendOnly
<1>1. Init => Log!Init
  BY DEF Init, Log!Init
<1>2. IInv /\ [Next]_vars => [Log!Next]_file
  <2> SUFFICES ASSUME IInv, [Next]_vars PROVE [Log!Next]_file
    OBVIOUS
  <2>0. /\ TypeOK /\ Room /\ Writers
        /\ file \in Seq(Record) /\ Len(file) \in Nat
    BY DEF IInv, TypeOK
  <2>1. ASSUME NEW p \in Procs, Grows(p) PROVE Log!Add
    <3>1. file' = Append(file, rec[p]) /\ rec[p] \in Record
      BY <2>1, <2>0 DEF Grows, Writers, InAppend
    <3>2. /\ file' \in Seq(Record)
          /\ Len(file') = Len(file) + 1
          /\ \A i \in 1 .. Len(file) : file'[i] = file[i]
      BY <3>1, <2>0, AppendProperties
    <3>3. SubSeq(file', 1, Len(file)) = file
      <4>1. \A i \in 1 .. Len(file) : file'[i] \in Record
        BY <3>2, <2>0
      <4>2. /\ SubSeq(file', 1, Len(file)) \in Seq(Record)
            /\ Len(SubSeq(file', 1, Len(file))) = Len(file)
            /\ \A i \in 1 .. Len(file) : SubSeq(file', 1, Len(file))[i] = file'[i]
        <5>1. Len(file) \in 0 .. Len(file')
          BY <3>2, <2>0
        <5>2. /\ SubSeq(file', 1, Len(file)) \in Seq(Record)
              /\ Len(SubSeq(file', 1, Len(file))) =
                    IF 1 <= Len(file) THEN Len(file) - 1 + 1 ELSE 0
              /\ \A i \in 1 .. Len(file) - 1 + 1 :
                    SubSeq(file', 1, Len(file))[i] = file'[1 + i - 1]
          BY <4>1, <2>0, SubSeqProperties
        <5> QED BY <5>2, <2>0
      <4> QED BY <4>2, <3>2, <2>0, SeqEqual
    <3> QED BY <3>2, <3>3 DEF Log!Add
  <2>2. CASE Cut
    BY <2>2 DEF Cut, Log!Next, Log!LoseTail
  <2> QED BY <2>0, <2>1, <2>2, StepMovesFile DEF FileMoves, Log!Next
<1> QED BY <1>1, <1>2, Inductive, PTL DEF Spec, AppendOnly, Log!Spec

-----------------------------------------------------------------------------
(* What an answer of verify is worth *)

(***************************************************************************)
(* SHA-256 taken as ideal: two records of ledgers that have the same       *)
(* record_hash are one (_record_hash).                                     *)
(***************************************************************************)
CollisionFree ==
    \A S, T \in Seq(Record) : Chained(S) /\ Chained(T) =>
        \A i \in DOMAIN S, j \in DOMAIN T : S[i].hash = T[j].hash => S[i] = T[j]

\* A written anchor states the length and the last hash of S.
Describes(S, h) == h.some /\ h.count = Len(S) /\ h.hash = LastHash(S)

\* The chain p writes at: what was in the file, and its record at the end.
Behind(p) == \E S \in Seq(Record) : /\ Chained(S) /\ Describes(S, AnchorFor(rec[p]))
                                    /\ RecordsOf(file) \cup {rec[p]} \subseteq RecordsOf(S)
Traced == \A p \in Procs : pc[p] \in InAppend => Behind(p)

\* Until the anchor is renewed over a loss, it describes a chain with all acknowledged records.
Backed == head.some /\ ~reanchored =>
             \E S \in Seq(Record) : /\ Chained(S) /\ Describes(S, head)
                                    /\ acked \subseteq RecordsOf(S)

\* A reader that has read a short ledger has not read all acknowledged records.
Short == \A p \in Procs : pc[p] \in {"v_head", "done"} /\ missing[p] =>
                             ~(acked \subseteq RecordsOf(seen[p]))

HInv == IInv /\ Traced /\ Backed /\ Short /\ OkCoversAcknowledged

(***************************************************************************)
(* A set of numbers that is not empty has a least element.                 *)
(***************************************************************************)
LEMMA LeastOf ==
    ASSUME NEW K, K \subseteq Nat, K # {}
    PROVE  \E m \in K : \A j \in K : m <= j
<1>1. PICK m \in K : \A j \in K : <<j, m>> \notin OpToRel(<, Nat)
  BY WFMin, NatLessThanWellFounded, Zenon
<1>2. \A j \in K : <<j, m>> \in Nat \X Nat /\ <<j, m>>[1] = j /\ <<j, m>>[2] = m
  OBVIOUS
<1>3. \A j \in K : ~(j < m)
  BY <1>1, <1>2, Zenon DEF OpToRel
<1> QED
  BY <1>3

(***************************************************************************)
(* Two chains of one length with one last hash are the same: from the end  *)
(* backwards each hash fixes its record and the hash before it.            *)
(***************************************************************************)
LEMMA ChainsAgree ==
    ASSUME CollisionFree, NEW S \in Seq(Record), NEW T \in Seq(Record),
           Chained(S), Chained(T), Len(S) = Len(T), LastHash(S) = LastHash(T)
    PROVE  RecordsOf(S) = RecordsOf(T)
<1> DEFINE n == Len(S)
           K == {k \in 0 .. n - 1 : S[n - k] # T[n - k]}
<1>0. /\ n \in Nat /\ Len(T) = n /\ DOMAIN S = 1 .. n /\ DOMAIN T = 1 .. n
      /\ \A i \in 1 .. n : S[i] \in Record /\ T[i] \in Record
  OBVIOUS
<1>1. K = {}
  <2> SUFFICES ASSUME K # {} PROVE FALSE
    OBVIOUS
  <2>1. PICK m \in K : \A j \in K : m <= j
    <3>1. K \subseteq Nat
      BY <1>0
    <3> HIDE DEF K
    <3> QED
      BY <3>1, LeastOf
  <2> DEFINE i == n - m
  <2>2. m \in 0 .. n - 1 /\ i \in 1 .. n /\ S[i] # T[i]
    BY <1>0, <2>1
  <2>3. S[i].hash = T[i].hash
    <3>1. CASE m = 0
      <4>1. i = n /\ S # <<>> /\ T # <<>>
        BY <1>0, <2>2, <3>1
      <4> QED
        BY <1>0, <4>1 DEF LastHash
    <3>2. CASE m # 0
      <4>1. m - 1 \in 0 .. n - 1 /\ m - 1 \notin K /\ n - (m - 1) = i + 1 /\ i + 1 \in 2 .. n
        <5>1. n \in Nat /\ m \in 1 .. n - 1
          BY <1>0, <2>2, <3>2
        <5> HIDE DEF n
        <5>2. m - 1 \in 0 .. n - 1 /\ n - (m - 1) = i + 1 /\ i + 1 \in 2 .. n /\ ~(m <= m - 1)
          BY <5>1
        <5> HIDE DEF K
        <5> QED
          BY <2>1, <5>2
      <4>2. S[i + 1] = T[i + 1]
        BY <4>1
      <4>3. Linked(S, i + 1) /\ Linked(T, i + 1) /\ i + 1 # 1 /\ (i + 1) - 1 = i
        BY <1>0, <2>2, <4>1 DEF Chained
      <4> QED
        BY <4>2, <4>3 DEF Linked
    <3> QED
      BY <3>1, <3>2
  <2> HIDE DEF i
  <2> QED
    BY <1>0, <2>2, <2>3 DEF CollisionFree
<1>2. \A i \in 1 .. n : S[i] = T[i]
  <2> SUFFICES ASSUME NEW i \in 1 .. n PROVE S[i] = T[i]
    OBVIOUS
  <2>1. n - i \in 0 .. n - 1 /\ n - (n - i) = i
    BY <1>0
  <2> QED
    BY <1>1, <2>1
<1> QED
  BY <1>0, <1>2 DEF RecordsOf

(***************************************************************************)
(* An append that has stamped its record knows the chain it will anchor.   *)
(***************************************************************************)
LEMMA StampedBehind ==
    ASSUME IInv, NEW p \in Procs, NEW d \in Payloads, AppendRead(p, d)
    PROVE  Behind(p)'
<1> DEFINE r == Stamp(file, d, clock)
           S == Append(file, r)
<1>1. file \in Seq(Record) /\ Len(file) \in Nat /\ Chained(file) /\ rec \in [Procs -> Record \cup {NoRec}]
  BY DEF IInv, TypeOK, ChainIntact
<1>2. r \in Record
  <2>1. Len(file) \in 0 .. MaxAppends /\ clock \in 0 .. MaxAppends
    BY <1>1, LedgerAssumption DEF IInv, TypeOK, Room
  <2> QED
    BY <1>1, <2>1, StampIsRecord
<1>3. rec'[p] = r /\ file' = file
  BY <1>1 DEF AppendRead, fileVars
<1>4. /\ r.seq = Len(file) /\ r.prev = LastHash(file)
      /\ r.hash = Hash(r.prev, r.seq, r.ts, r.payload)
  BY DEF Stamp
<1> HIDE DEF r
<1>5. Chained(S)
  BY <1>1, <1>2, <1>4, ChainGrows
<1>6. /\ S \in Seq(Record) /\ Len(S) = Len(file) + 1 /\ S[Len(file) + 1] = r
      /\ \A i \in 1 .. Len(file) : S[i] = file[i]
  BY <1>1, <1>2, AppendProperties
<1> HIDE DEF S
<1>7. DOMAIN S = 1 .. Len(file) + 1 /\ DOMAIN file = 1 .. Len(file) /\ S # <<>>
  BY <1>1, <1>6
<1>8. RecordsOf(file) \cup {r} \subseteq RecordsOf(S)
  BY <1>1, <1>6, <1>7 DEF RecordsOf
<1>9. Describes(S, AnchorFor(r))
  BY <1>1, <1>4, <1>6, <1>7 DEF Describes, AnchorFor, LastHash
<1>10. \E R \in Seq(Record) : /\ Chained(R) /\ Describes(R, AnchorFor(r))
                              /\ RecordsOf(file) \cup {r} \subseteq RecordsOf(R)
  BY <1>5, <1>6, <1>8, <1>9
<1> QED
  BY <1>3, <1>10 DEF Behind, RecordsOf

(***************************************************************************)
(* A line that lands adds no record but its own.                           *)
(***************************************************************************)
LEMMA LandedRecords ==
    ASSUME IInv, NEW p \in Procs, pc[p] = "write", Landed(rec[p])
    PROVE  RecordsOf(file') \subseteq RecordsOf(file) \cup {rec[p]}
<1>1. file \in Seq(Record) /\ Len(file) \in Nat /\ rec[p] \in Record
  BY DEF IInv, TypeOK, Writers, InAppend
<1>2. CASE end = "newline"
  <2>1. file' = Append(file, rec[p])
    BY <1>2 DEF Landed
  <2>2. /\ DOMAIN file' = 1 .. Len(file) + 1 /\ file'[Len(file) + 1] = rec[p]
        /\ \A i \in 1 .. Len(file) : file'[i] = file[i]
    BY <1>1, <2>1
  <2> QED
    BY <1>1, <2>2 DEF RecordsOf
<1>3. CASE end = "open"
  <2>1. file' = SubSeq(file, 1, Len(file) - 1) /\ Len(file) # 0
    BY <1>1, <1>3, EmptySeq DEF Landed, IInv, Room
  <2>2. DOMAIN file' = 1 .. Len(file) - 1 /\ \A i \in 1 .. Len(file) - 1 : file'[i] = file[i]
    BY <1>1, <2>1
  <2> QED
    BY <1>1, <2>2 DEF RecordsOf
<1>4. CASE end = "broken"
  BY <1>4 DEF Landed, RecordsOf
<1> QED
  BY <1>2, <1>3, <1>4 DEF IInv, TypeOK

LEMMA BehindStays ==
    ASSUME NEW p \in Procs, Behind(p), UNCHANGED <<file, rec>>
    PROVE  Behind(p)'
BY DEF Behind, RecordsOf

(***************************************************************************)
(* Appends know the chain they anchor until they return.                   *)
(***************************************************************************)
LEMMA StepTraced ==
    ASSUME IInv, Traced, [Next]_vars
    PROVE  Traced'
<1>0. /\ pc \in [Procs -> {"idle", "write", "truncate", "anchor", "v_head", "done"}]
      /\ rec \in [Procs -> Record \cup {NoRec}]
      /\ \A p \in Procs : pc[p] \in InAppend => lock = p
  BY DEF IInv, TypeOK, Writers
<1>1. ASSUME NEW p \in Procs, NEW d \in Payloads, AppendRead(p, d) PROVE Traced'
  <2>1. Behind(p)'
    BY <1>1, StampedBehind
  <2>2. \A q \in Procs \ {p} : pc'[q] \notin InAppend
    BY <1>0, <1>1, LedgerAssumption DEF AppendRead
  <2> QED
    BY <2>1, <2>2 DEF Traced
<1>2. ASSUME NEW p \in Procs, AppendWrite(p) PROVE Traced'
  <2>1. /\ pc[p] = "write" /\ pc[p] \in InAppend /\ rec' = rec /\ Landed(rec[p])
        /\ \A q \in Procs \ {p} : pc'[q] = pc[q] /\ pc'[q] \notin InAppend
    BY <1>0, <1>2 DEF AppendWrite, InAppend
  <2>2. PICK S \in Seq(Record) : /\ Chained(S) /\ Describes(S, AnchorFor(rec[p]))
                                 /\ RecordsOf(file) \cup {rec[p]} \subseteq RecordsOf(S)
    BY <2>1 DEF Traced, Behind
  <2>3. RecordsOf(file') \cup {rec[p]} \subseteq RecordsOf(S)
    BY <2>1, <2>2, LandedRecords
  <2>4. Behind(p)'
    BY <2>1, <2>2, <2>3 DEF Behind, RecordsOf
  <2> QED
    BY <2>1, <2>4 DEF Traced
<1>3. ASSUME NEW p \in Procs, HeadTruncate(p) PROVE Traced'
  <2>1. /\ pc[p] \in InAppend /\ file' = file /\ rec' = rec
        /\ \A q \in Procs \ {p} : pc'[q] \notin InAppend
    BY <1>0, <1>3 DEF HeadTruncate, InAppend
  <2>2. Behind(p)'
    BY <2>1, BehindStays DEF Traced
  <2> QED
    BY <2>1, <2>2 DEF Traced
<1>4. ASSUME NEW p \in Procs, HeadWrite(p) PROVE Traced'
  <2>1. \A q \in Procs : pc'[q] \notin InAppend
    BY <1>0, <1>4 DEF HeadWrite, InAppend
  <2> QED
    BY <2>1 DEF Traced
<1>8. ASSUME NEW p \in Procs, VerifyRead(p) \/ VerifyHead(p) \/ VerifyReturn(p)
      PROVE  Traced'
  <2>1. /\ pc'[p] \notin InAppend /\ file' = file /\ rec' = rec
        /\ \A q \in Procs \ {p} : pc'[q] = pc[q]
    BY <1>0, <1>8 DEF VerifyRead, VerifyHead, VerifyReturn, InAppend, fileVars
  <2>2. ASSUME NEW q \in Procs, pc'[q] \in InAppend PROVE Behind(q)'
    <3>1. pc[q] \in InAppend
      BY <2>1, <2>2
    <3> QED
      BY <2>1, <3>1, BehindStays DEF Traced
  <2> QED
    BY <2>2 DEF Traced
<1>5. CASE Crash
  BY <1>5 DEF Crash, Traced, InAppend
<1>6. CASE LoseTail
  BY <1>6 DEF LoseTail, procVars, Traced, InAppend
<1>7. CASE UNCHANGED vars
  <2>1. file' = file /\ rec' = rec /\ pc' = pc
    BY <1>7 DEF vars, fileVars, procVars
  <2> QED
    BY <2>1, BehindStays DEF Traced
<1> QED BY <1>1, <1>2, <1>3, <1>4, <1>5, <1>6, <1>7, <1>8 DEF Next

(***************************************************************************)
(* The anchor stays backed: it is written for a chain that has all that    *)
(* was acknowledged, or over a loss that is noted.                         *)
(***************************************************************************)
LEMMA StepBacked ==
    ASSUME IInv, Traced, Backed, [Next]_vars
    PROVE  Backed'
<1>1. ASSUME NEW p \in Procs, HeadWrite(p) PROVE Backed'
  <2>1. /\ pc[p] = "anchor" /\ head' = AnchorFor(rec[p]) /\ acked' = acked \cup {rec[p]}
        /\ ~reanchored' => acked \subseteq RecordsOf(file)
    BY <1>1 DEF HeadWrite
  <2>2. PICK S \in Seq(Record) : /\ Chained(S) /\ Describes(S, AnchorFor(rec[p]))
                                 /\ RecordsOf(file) \cup {rec[p]} \subseteq RecordsOf(S)
    BY <2>1 DEF Traced, Behind, InAppend
  <2>3. ~reanchored' => acked' \subseteq RecordsOf(S)
    BY <2>1, <2>2
  <2> QED
    BY <2>1, <2>2, <2>3 DEF Backed
<1>2. CASE (head' = head \/ head' = NoHead) /\ UNCHANGED <<acked, reanchored>>
  BY <1>2 DEF Backed, NoHead
<1>3. CASE Crash \/ LoseTail \/ UNCHANGED vars
  BY <1>2, <1>3 DEF Crash, LoseTail, vars, fileVars, histVars
<1>4. ASSUME NEW p \in Procs,
             \/ \E d \in Payloads : AppendRead(p, d)
             \/ AppendWrite(p) \/ HeadTruncate(p)
             \/ VerifyRead(p) \/ VerifyHead(p) \/ VerifyReturn(p)
      PROVE  Backed'
  BY <1>2, <1>4 DEF AppendRead, AppendWrite, HeadTruncate, VerifyRead, VerifyHead, VerifyReturn,
                    fileVars, histVars
<1> QED BY <1>1, <1>3, <1>4 DEF Next

(***************************************************************************)
(* A short reading stays short: what is acknowledged only grows.           *)
(***************************************************************************)
LEMMA StepShort ==
    ASSUME IInv, Short, [Next]_vars
    PROVE  Short'
<1>0. /\ pc \in [Procs -> {"idle", "write", "truncate", "anchor", "v_head", "done"}]
      /\ seen \in [Procs -> Seq(Record)] /\ missing \in [Procs -> BOOLEAN]
  BY DEF IInv, TypeOK
<1>1. ASSUME NEW p \in Procs,
             \/ \E d \in Payloads : AppendRead(p, d)
             \/ AppendWrite(p) \/ HeadTruncate(p) \/ HeadWrite(p)
      PROVE  Short'
  <2>1. /\ pc'[p] \notin {"v_head", "done"} /\ \A q \in Procs \ {p} : pc'[q] = pc[q]
        /\ UNCHANGED <<seen, missing>> /\ acked \subseteq acked'
    BY <1>0, <1>1 DEF AppendRead, AppendWrite, HeadTruncate, HeadWrite, histVars
  <2> QED
    BY <2>1 DEF Short, RecordsOf
<1>2. ASSUME NEW p \in Procs, VerifyRead(p) PROVE Short'
  <2>1. /\ seen'[p] = file /\ (missing'[p] => ~(acked \subseteq RecordsOf(file)))
        /\ acked' = acked
        /\ \A q \in Procs \ {p} : pc'[q] = pc[q] /\ seen'[q] = seen[q] /\ missing'[q] = missing[q]
    BY <1>0, <1>2 DEF VerifyRead
  <2> QED
    BY <2>1 DEF Short, RecordsOf
<1>3. ASSUME NEW p \in Procs, VerifyHead(p) PROVE Short'
  <2>1. /\ pc[p] = "v_head" /\ \A q \in Procs \ {p} : pc'[q] = pc[q]
        /\ UNCHANGED <<seen, missing, acked>>
    BY <1>0, <1>3 DEF VerifyHead, histVars
  <2> QED
    BY <2>1 DEF Short, RecordsOf
<1>4. ASSUME NEW p \in Procs, VerifyReturn(p) PROVE Short'
  <2>1. /\ pc'[p] = "idle" /\ acked' = acked
        /\ \A q \in Procs \ {p} : pc'[q] = pc[q] /\ seen'[q] = seen[q] /\ missing'[q] = missing[q]
    BY <1>0, <1>4 DEF VerifyReturn
  <2> QED
    BY <2>1 DEF Short, RecordsOf
<1>5. CASE Crash
  BY <1>5 DEF Crash, Short
<1>6. CASE LoseTail
  BY <1>6 DEF LoseTail, procVars, Short, RecordsOf
<1>7. CASE UNCHANGED vars
  BY <1>7 DEF vars, procVars, histVars, Short, RecordsOf
<1> QED BY <1>1, <1>2, <1>3, <1>4, <1>5, <1>6, <1>7 DEF Next

(***************************************************************************)
(* The answer "ok" compares what was read with an anchor that is backed.   *)
(***************************************************************************)
LEMMA StepHonest ==
    ASSUME CollisionFree, HInv, [Next]_vars
    PROVE  OkCoversAcknowledged'
<1>0. /\ pc \in [Procs -> {"idle", "write", "truncate", "anchor", "v_head", "done"}]
      /\ verdict \in [Procs -> {"none", "ok", "issues"}]
      /\ seen \in [Procs -> Seq(Record)] /\ missing \in [Procs -> BOOLEAN]
      /\ \A p \in Procs : verdict[p] # "none" => pc[p] = "done"
      /\ OkCoversAcknowledged
  BY DEF HInv, IInv, TypeOK, Readers
<1>1. ASSUME NEW p \in Procs, VerifyHead(p) PROVE OkCoversAcknowledged'
  <2>1. /\ pc[p] = "v_head" /\ UNCHANGED <<seen, missing, reanchored>>
        /\ \A q \in Procs \ {p} : verdict'[q] = verdict[q]
        /\ verdict'[p] = "ok" => Chained(seen[p]) /\ HeadAgrees(seen[p], head)
    BY <1>0, <1>1 DEF VerifyHead, histVars
  <2>2. ASSUME verdict'[p] = "ok", missing[p], ~reanchored, seen[p] # <<>> PROVE FALSE
    <3>1. Chained(seen[p]) /\ Describes(seen[p], head) /\ seen[p] \in Seq(Record)
      BY <1>0, <2>1, <2>2 DEF HeadAgrees, Describes
    <3>2. PICK S \in Seq(Record) : /\ Chained(S) /\ Describes(S, head)
                                   /\ acked \subseteq RecordsOf(S)
      BY <2>2, <3>1 DEF HInv, Backed, Describes
    <3>3. RecordsOf(S) = RecordsOf(seen[p])
      BY <3>1, <3>2, ChainsAgree DEF Describes
    <3>4. ~(acked \subseteq RecordsOf(seen[p]))
      BY <2>1, <2>2 DEF HInv, Short
    <3> QED
      BY <3>2, <3>3, <3>4
  <2> QED
    BY <1>0, <2>1, <2>2 DEF OkCoversAcknowledged
<1>2. ASSUME NEW p \in Procs,
             \/ \E d \in Payloads : AppendRead(p, d)
             \/ AppendWrite(p) \/ HeadTruncate(p) \/ HeadWrite(p)
      PROVE  OkCoversAcknowledged'
  <2>1. UNCHANGED <<seen, missing, verdict>>
    BY <1>2 DEF AppendRead, AppendWrite, HeadTruncate, HeadWrite, histVars
  <2>2. reanchored => reanchored'
    <3>1. CASE HeadWrite(p)
      BY <3>1, Zenon DEF HeadWrite
    <3>2. CASE ~HeadWrite(p)
      BY <1>2, <3>2 DEF AppendRead, AppendWrite, HeadTruncate, histVars
    <3> QED
      BY <3>1, <3>2
  <2> QED
    BY <1>0, <2>1, <2>2 DEF OkCoversAcknowledged
<1>3. ASSUME NEW p \in Procs, VerifyRead(p) \/ VerifyReturn(p) PROVE OkCoversAcknowledged'
  <2>1. /\ verdict'[p] = "none" /\ reanchored' = reanchored
        /\ \A q \in Procs \ {p} : /\ verdict'[q] = verdict[q] /\ seen'[q] = seen[q]
                                  /\ missing'[q] = missing[q]
    BY <1>0, <1>3 DEF VerifyRead, VerifyReturn
  <2> QED
    BY <1>0, <2>1 DEF OkCoversAcknowledged
<1>4. CASE Crash
  BY <1>4 DEF Crash, OkCoversAcknowledged
<1>5. CASE LoseTail \/ UNCHANGED vars
  BY <1>0, <1>5 DEF LoseTail, vars, procVars, histVars, OkCoversAcknowledged
<1> QED BY <1>1, <1>2, <1>3, <1>4, <1>5 DEF Next

LEMMA InitHInv == Init => HInv
<1> SUFFICES ASSUME Init PROVE HInv
  OBVIOUS
<1>1. IInv
  BY InitInvariant
<1> QED
  BY <1>1 DEF Init, HInv, Traced, Backed, Short, OkCoversAcknowledged, InAppend, NoHead

LEMMA StepHInv == CollisionFree /\ HInv /\ [Next]_vars => HInv'
  BY StepInvariant, StepTraced, StepBacked, StepShort, StepHonest DEF HInv

(***************************************************************************)
(* If no two records share a hash, verify calls a ledger that lacks        *)
(* acknowledged records sound only when a later append has renewed the     *)
(* anchor over the loss, or records and anchor are all gone: for any       *)
(* number of threads, appends, crashes and losses (verify).                *)
(***************************************************************************)
THEOREM OkIsHonest == CollisionFree => (Spec => []OkCoversAcknowledged)
<1> SUFFICES ASSUME CollisionFree PROVE Spec => []OkCoversAcknowledged
  OBVIOUS
<1>1. HInv /\ [Next]_vars => HInv'
  BY StepHInv
<1>2. HInv => OkCoversAcknowledged
  BY DEF HInv
<1> QED BY <1>1, <1>2, InitHInv, PTL DEF Spec

=============================================================================
