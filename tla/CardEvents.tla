------------------------------ MODULE CardEvents ------------------------------
(***************************************************************************)
(* How the web page learns that a token was plugged in or pulled out.  A   *)
(* handler of /events (service/api/gateway.py) polls the readers and sends *)
(* what changed since its last poll (core/pcsc_probe.py, poll_diff); the   *)
(* page (web/src/api) reads the list of tokens again on every event.       *)
(*                                                                         *)
(* A poll knows a card by its ATR, which cards of one make share, and      *)
(* every connection begins with a handler that has seen nothing.  A reader *)
(* that is unplugged reads like an empty one.  A handler whose page is     *)
(* gone tells nobody anything more and is left out.                        *)
(***************************************************************************)
EXTENDS Naturals, FiniteSets

CONSTANTS Readers,       \* in the order the system lists them: 1 .. n
          Cards,
          Atr,         \* [Cards -> makes of card]
          NoCard,
          MaxMoves, MaxTroubles  \* bounds on what goes on around

ASSUME EventsAssumption ==
    /\ NoCard \notin Cards /\ \A c \in Cards : Atr[c] # NoCard
    /\ Readers = 1 .. Cardinality(Readers)
    /\ MaxMoves \in Nat /\ MaxTroubles \in Nat

VARIABLES
    slot,    \* [Readers -> the card in it]
    conn,    \* whether the page is connected
    known,   \* _state of the handler: [Readers -> ATR]
    look,    \* current, of the poll under way: of the readers read so far
    pending, \* events on their way to the page
    fetch,   \* GET /tokens of the page: [pc, list]
    shown,   \* the tokens on the page
    around,  \* history: [moves, troubles]
    moved,   \* history: readers whose card changed since they were last read
    missed   \* history: whether there is an excuse for an old list

eventVars == <<slot, conn, known, look, pending, fetch, shown, around, moved, missed>>

Present == {slot[r] : r \in Readers} \ {NoCard}
AtrIn(r) == IF slot[r] = NoCard THEN NoCard ELSE Atr[slot[r]]
Nothing == [r \in Readers |-> NoCard]
NoFetch == [pc |-> "none", list |-> {}]
Asked == [NoFetch EXCEPT !.pc = "asked"]

\* The page asks for the list when it is opened.
EventsInit ==
    /\ slot \in [Readers -> Cards \cup {NoCard}]
    /\ \A r, s \in Readers : r # s /\ slot[r] # NoCard => slot[r] # slot[s]
    /\ conn = FALSE /\ known = Nothing /\ look = [r \in {} |-> NoCard] /\ pending = 0
    /\ fetch = Asked /\ shown = {}
    /\ around = [moves |-> 0, troubles |-> 0]
    /\ moved = {} /\ missed = FALSE

\* Something goes wrong.
Trouble == /\ around.troubles < MaxTroubles
           /\ around' = [around EXCEPT !.troubles = @ + 1]

-----------------------------------------------------------------------------
(* The handler *)

\* useTokenEvents connects, and again three seconds after a loss; the handler makes a
\* PcscEventsSource of its own.
Connect ==
    /\ ~conn /\ conn' = TRUE
    /\ known' = Nothing /\ look' = [r \in {} |-> NoCard]
    /\ moved' = Readers
    /\ UNCHANGED <<slot, pending, fetch, shown, around, missed>>

IsNext(r) == DOMAIN look = 1 .. r - 1

\* poll_diff: the readers one after another.
Look(r) ==
    /\ conn /\ IsNext(r)
    /\ look' = [s \in 1 .. r |-> IF s = r THEN AtrIn(r) ELSE look[s]]
    /\ moved' = moved \ {r}
    /\ missed' = (missed \/ (r \in moved /\ AtrIn(r) = known[r]))
    /\ UNCHANGED <<slot, conn, known, pending, fetch, shown, around>>

\* Another program holds the card: no ATR.
Glitch(r) ==
    /\ conn /\ IsNext(r) /\ slot[r] # NoCard
    /\ Trouble
    /\ look' = [s \in 1 .. r |-> IF s = r THEN NoCard ELSE look[s]]
    /\ UNCHANGED <<slot, conn, known, pending, fetch, shown, moved, missed>>

\* Bug: only what is there is compared.
Changed_Inserted(r) == look[r] # NoCard /\ look[r] # known[r]

\* inserted, or removed.
Changed(r) == look[r] # known[r]

\* Bug: what was seen is not kept.
Remembered_Old == known

\* _state after the poll.
Remembered == look

Report ==
    /\ conn /\ DOMAIN look = Readers
    /\ pending' = pending + Cardinality({r \in Readers : Changed(r)})
    /\ known' = Remembered /\ look' = [r \in {} |-> NoCard]
    /\ UNCHANGED <<slot, conn, fetch, shown, around, moved, missed>>

-----------------------------------------------------------------------------
(* The page *)

\* token_event: invalidateQueries starts the query afresh.
Deliver ==
    /\ pending > 0 /\ pending' = pending - 1
    /\ fetch' = Asked /\ missed' = FALSE
    /\ UNCHANGED <<slot, conn, known, look, shown, around, moved>>

\* The daemon reads the tokens.
ReadTokens ==
    /\ fetch.pc = "asked" /\ fetch' = [fetch EXCEPT !.pc = "read", !.list = Present]
    /\ UNCHANGED <<slot, conn, known, look, pending, shown, around, moved, missed>>

Show ==
    /\ fetch.pc = "read" /\ shown' = fetch.list /\ fetch' = NoFetch
    /\ UNCHANGED <<slot, conn, known, look, pending, around, moved, missed>>

\* The query fails, and so does its one retry: the page keeps what it has.
FetchFails ==
    /\ fetch.pc # "none" /\ Trouble
    /\ fetch' = NoFetch /\ missed' = TRUE
    /\ UNCHANGED <<slot, conn, known, look, pending, shown, moved>>

-----------------------------------------------------------------------------
(* The world around *)

\* A card is put in, pulled out, or exchanged.
Move(r) ==
    /\ around.moves < MaxMoves /\ around' = [around EXCEPT !.moves = @ + 1]
    /\ \E c \in (Cards \ Present) \cup {NoCard} : c # slot[r] /\ slot' = [slot EXCEPT ![r] = c]
    /\ moved' = moved \cup {r}
    /\ UNCHANGED <<conn, known, look, pending, fetch, shown, missed>>

\* The connection is lost, and with it the events on their way.
Drop ==
    /\ conn /\ conn' = FALSE /\ pending' = 0
    /\ Trouble
    /\ UNCHANGED <<slot, known, look, fetch, shown, moved, missed>>

Handler == Connect \/ Report \/ (\E r \in Readers : Look(r))
EventsNext == \/ Handler \/ Deliver \/ ReadTokens \/ Show \/ FetchFails \/ Drop
              \/ \E r \in Readers : Move(r) \/ Glitch(r)

\* Every reader is read in turn; the browser connects again, gets its messages, and has
\* its answers.
EventsSpec ==
    /\ EventsInit /\ [][EventsNext]_eventVars
    /\ WF_eventVars(Connect) /\ WF_eventVars(Report)
    /\ \A r \in Readers : WF_eventVars(Look(r))
    /\ WF_eventVars(Deliver) /\ WF_eventVars(ReadTokens) /\ WF_eventVars(Show)

-----------------------------------------------------------------------------
(***************************************************************************)
(* When the cards and the connection come to rest the page shows the       *)
(* tokens that are there, whatever was lost, exchanged or unreadable       *)
(* before, with three excuses: it connected again when no card was there,  *)
(* a card was exchanged for one of its make between two polls, or the list *)
(* could not be read, nor on the retry (gateway.py:436-459, pcsc_probe.py:123-149,     *)
(* hooks.ts:18-29).                                                        *)
(***************************************************************************)
ListCatchesUp == <>[](shown = Present \/ missed)

(***************************************************************************)
(* And then it stops reading: no event calls for another                   *)
(* (runtime.py:160-166).                                                   *)
(***************************************************************************)
ComesToRest == <>[](pending = 0 /\ fetch.pc = "none" /\ conn)
===============================================================================
