----------------------------- MODULE MCCardEvents -----------------------------
\* Two readers; three cards, of which two are of one make.
EXTENDS CardEvents

CONSTANTS a1, a2, b

MCReaders == 1 .. 2
MCCards == {a1, a2, b}
MCAtr == [c \in MCCards |-> IF c = b THEN "B" ELSE "A"]
===============================================================================
