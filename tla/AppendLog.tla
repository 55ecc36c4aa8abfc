------------------------------ MODULE AppendLog ------------------------------
(***************************************************************************)
(* What core/evidence.py promises of a journal: entries are added at the   *)
(* end, one at a time, and are never rewritten, reordered or inserted.     *)
(* Damage to the medium may cost a journal its last entries, nothing else. *)
(***************************************************************************)
EXTENDS Sequences, Naturals

VARIABLE log

Init == log = <<>>

\* One entry more, behind all the others.
Add == Len(log') = Len(log) + 1 /\ SubSeq(log', 1, Len(log)) = log

LoseTail == \E n \in 0 .. Len(log) : log' = SubSeq(log, 1, n)

Next == Add \/ LoseTail

Spec == Init /\ [][Next]_log
=============================================================================
