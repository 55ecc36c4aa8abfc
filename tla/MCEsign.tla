------------------------------- MODULE MCEsign -------------------------------
\* Two callers, a specification that is filled in, and four with one thing wrong.
EXTENDS Esign

CONSTANTS c1, c2

MCCallers == {c1, c2}
MCOperations == {"submit_signature"}
MCFilled == [filled |-> TRUE, addressed |-> TRUE, domains |-> TRUE, defined |-> MCOperations,
             tls |-> TRUE, json |-> TRUE, https |-> TRUE, inside |-> TRUE]
MCSpecs == {MCFilled, [MCFilled EXCEPT !.defined = {}], [MCFilled EXCEPT !.tls = FALSE],
            [MCFilled EXCEPT !.https = FALSE], [MCFilled EXCEPT !.inside = FALSE]}
==============================================================================
