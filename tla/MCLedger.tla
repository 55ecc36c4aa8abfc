------------------------------ MODULE MCLedger ------------------------------
(* Instance of AppendOnlyLedger for TLC. *)
EXTENDS AppendOnlyLedger

\* In place of sha256, a number that spells the ts of the chain in base 6: the
\* ledgers of this instance hold five records at most, so no two collide.
MCHashes == 0 .. 6 ^ 5 - 1
MCHash(h, n, t, d) == (6 * h + t + 1) % 6 ^ 5
=============================================================================
