-------------------------------- MODULE Bridge --------------------------------
(***************************************************************************)
(* core/bridge: threads of the daemon call a helper process of another     *)
(* architecture through one BridgeManager.  manager.py holds its lock      *)
(* around a whole call, retries included; client.py writes a request line, *)
(* waits for a line with the same id, and gives up at a deadline;          *)
(* helper.py serves requests one after another, until its library hangs or *)
(* takes the process down.                                                 *)
(*                                                                         *)
(* Helpers are numbered as they are spawned.  A line of the helper's input *)
(* or output is a record; EOF is the sentinel the reader thread queues     *)
(* when the output ends.                                                   *)
(***************************************************************************)
EXTENDS Sequences, Naturals

CONSTANTS Callers,     \* threads that make one call each
          Closers,     \* threads that close the manager
          NoCaller,    \* nobody holds the lock
          Modules,     \* paths of PKCS#11 modules
          NoModule,    \* the helper's "no module_path in the request"
          MaxHelpers   \* bound of the model on spawned helpers

Threads == Callers \cup Closers
Helpers == 1 .. MaxHelpers

ASSUME BridgeAssumption ==
    /\ Callers \cap Closers = {}
    /\ NoCaller \notin Threads
    /\ NoModule \notin Modules
    /\ MaxHelpers \in Nat

VARIABLES
    lock, closed,       \* BridgeManager._lock, _closed
    client,             \* BridgeManager._client: a helper, or 0 for None
    spawned,            \* helpers spawned so far
    alive,              \* [Helpers -> the process runs]
    input, output,      \* [Helpers -> lines it has not read], [-> BridgeClient._queue]
    doing,              \* [Helpers -> the request it is executing, or Nothing]
    hung,               \* [Helpers -> the library will never return]
    lastId,             \* [Helpers -> BridgeClient._id]
    dropped,            \* [Helpers -> BridgeClient._closed]
    pc,                 \* [Threads -> step]
    attempt,            \* [Callers -> attempts begun]
    module,             \* [Callers -> the module it wants]
    answer,             \* [Callers -> what call returned or raised]
    executed,           \* history: [Callers -> times a helper ran its operation]
    opened              \* history: [Callers -> paths under which it was run]

mgrVars == <<lock, closed, client, spawned>>
helperVars == <<alive, input, output, doing, hung>>
clientVars == <<lastId, dropped>>
callVars == <<pc, attempt, module, answer>>
histVars == <<executed, opened>>
vars == <<mgrVars, helperVars, clientVars, callVars, histVars>>

Nothing == [id |-> 0, from |-> NoCaller, path |-> NoModule]
EOF == [id |-> 0, from |-> NoCaller, kind |-> "eof"]
Requests == [id : Nat, from : Callers, path : Modules \cup {NoModule}]
Lines == [id : Nat, from : Callers, kind : {"result", "error"}] \cup {EOF}

Init ==
    /\ lock = NoCaller /\ closed = FALSE /\ client = 0 /\ spawned = 0
    /\ alive = [h \in Helpers |-> FALSE]
    /\ input = [h \in Helpers |-> <<>>] /\ output = [h \in Helpers |-> <<>>]
    /\ doing = [h \in Helpers |-> Nothing] /\ hung = [h \in Helpers |-> FALSE]
    /\ lastId = [h \in Helpers |-> 0] /\ dropped = [h \in Helpers |-> FALSE]
    /\ pc = [c \in Threads |-> "idle"]
    /\ attempt = [c \in Callers |-> 0]
    /\ module \in [Callers -> Modules]
    /\ answer = [c \in Callers |-> [kind |-> "none", from |-> NoCaller]]
    /\ executed = [c \in Callers |-> 0]
    /\ opened = [c \in Callers |-> {}]

-----------------------------------------------------------------------------
Goto(c, step) == pc' = [pc EXCEPT ![c] = step]
Answer(c, kind, from) == answer' = [answer EXCEPT ![c] = [kind |-> kind, from |-> from]]

\* A call ends: the lock is released, the client stays where it is.
Return(c, kind, from) ==
    /\ Answer(c, kind, from)
    /\ Goto(c, "done")
    /\ lock' = NoCaller

Take(c) == lock = NoCaller /\ lock' = c

-----------------------------------------------------------------------------
(* BridgeManager.call *)

\* A caller asks for the lock.
Call(c) ==
    /\ pc[c] = "idle"
    /\ Goto(c, "lock")
    /\ UNCHANGED <<mgrVars, helperVars, clientVars, attempt, module, answer, histVars>>

Refused == closed

Enter(c) ==
    /\ pc[c] = "lock" /\ ~Refused
    /\ Take(c)
    /\ Goto(c, "ensure")
    /\ UNCHANGED <<closed, client, spawned, helperVars, clientVars, attempt, module,
                   answer, histVars>>

EnterClosed(c) ==
    /\ pc[c] = "lock" /\ Refused /\ lock = NoCaller
    /\ Return(c, "unavailable", NoCaller)
    /\ UNCHANGED <<closed, client, spawned, helperVars, clientVars, attempt, module, histVars>>

\* _ensure_client: the helper of an earlier call is taken as it is ...
Reuse(c) ==
    /\ pc[c] = "ensure" /\ client # 0
    /\ Goto(c, "send")
    /\ UNCHANGED <<mgrVars, helperVars, clientVars, attempt, module, answer, histVars>>

\* ... or one is spawned, ...
Spawn(c) ==
    /\ pc[c] = "ensure" /\ client = 0 /\ spawned < MaxHelpers
    /\ spawned' = spawned + 1
    /\ client' = spawned'
    /\ alive' = [alive EXCEPT ![spawned'] = TRUE]
    /\ Goto(c, "send")
    /\ UNCHANGED <<lock, closed, input, output, doing, hung, clientVars, attempt,
                   module, answer, histVars>>

\* ... which may fail.
SpawnFails(c) ==
    /\ pc[c] = "ensure" /\ client = 0
    /\ Return(c, "unavailable", NoCaller)
    /\ UNCHANGED <<closed, client, spawned, helperVars, clientVars, attempt, module, histVars>>

\* The request line: manager.call passes its params on as they are, and no
\* caller puts the path of the module into them.
PathSent(c) == NoModule
Request(c, id) == [id |-> id, from |-> c, path |-> PathSent(c)]

\* A line written to a process that is gone either breaks the pipe at once or
\* is swallowed.
Send(c) ==
    /\ pc[c] = "send"
    /\ LET h == client
           id == lastId[h] + 1
       IN /\ lastId' = [lastId EXCEPT ![h] = id]
          /\ attempt' = [attempt EXCEPT ![c] = @ + 1]
          /\ IF alive[h]
             THEN input' = [input EXCEPT ![h] = Append(@, Request(c, id))] /\ Goto(c, "wait")
             ELSE UNCHANGED input /\ (Goto(c, "wait") \/ Goto(c, "failed"))
    /\ UNCHANGED <<mgrVars, alive, output, doing, hung, dropped, module, answer, histVars>>

\* Bug: the first line that comes is taken for the answer.
IsAnswer_AnyId(m, h) == TRUE

IsAnswer(m, h) == m.id = lastId[h]

\* A line is taken from the queue: the end of the output fails the attempt,
\* a line with another id is skipped.
Receive(c) ==
    /\ pc[c] = "wait"
    /\ output[client] # <<>>
    /\ LET m == Head(output[client])
       IN /\ output' = [output EXCEPT ![client] = Tail(@)]
          /\ \/ (m.kind = "eof" \/ (IsAnswer(m, client) /\ m.kind = "error"))
                /\ Goto(c, "failed") /\ UNCHANGED <<answer, lock>>
             \/ m.kind # "eof" /\ ~IsAnswer(m, client) /\ UNCHANGED <<pc, answer, lock>>
             \/ m.kind = "result" /\ IsAnswer(m, client) /\ Return(c, "ok", m.from)
    /\ UNCHANGED <<closed, client, spawned, alive, input, doing, hung, clientVars,
                   attempt, module, histVars>>

\* Bug: the queue is read without a deadline.
Timeout_Never(c) == FALSE

\* BridgeTimeout
Timeout(c) ==
    /\ pc[c] = "wait"
    /\ Goto(c, "failed")
    /\ UNCHANGED <<mgrVars, helperVars, clientVars, attempt, module, answer, histVars>>

\* Bug: the retry is not counted.
LastAttempt_Never(c) == FALSE

LastAttempt(c) == attempt[c] = 2

\* Any BridgeError, be it the helper's own answer: once the helper is dropped
\* and the request repeated; the second time the error goes to the caller,
\* and the helper stays.
Retry(c) ==
    /\ pc[c] = "failed" /\ ~LastAttempt(c)
    /\ Goto(c, "drop")
    /\ UNCHANGED <<mgrVars, helperVars, clientVars, attempt, module, answer, histVars>>

GiveUp(c) ==
    /\ pc[c] = "failed" /\ LastAttempt(c)
    /\ Return(c, "error", NoCaller)
    /\ UNCHANGED <<closed, client, spawned, helperVars, clientVars, attempt, module, histVars>>

-----------------------------------------------------------------------------
(* _drop_client: BridgeClient.close, for call's retry and for close *)

DropMark(c) ==
    /\ pc[c] = "drop"
    /\ dropped' = [dropped EXCEPT ![client] = TRUE]
    /\ Goto(c, "shutdown")
    /\ UNCHANGED <<mgrVars, helperVars, lastId, attempt, module, answer, histVars>>

\* _rpc refuses a client that is marked closed, so "shutdown" is never sent.
DropShutdown(c) ==
    /\ pc[c] = "shutdown" /\ dropped[client]
    /\ Goto(c, "kill")
    /\ UNCHANGED <<mgrVars, helperVars, clientVars, attempt, module, answer, histVars>>

\* Bug: a helper whose library hangs survives.
Survives_Hung(h) == hung[h]

\* terminate, and kill for a process that did not end within the grace period
Survives(h) == FALSE

DropKill(c) ==
    /\ pc[c] = "kill"
    /\ alive' = [alive EXCEPT ![client] = Survives(client)]
    /\ doing' = [doing EXCEPT ![client] = Nothing]
    /\ input' = [input EXCEPT ![client] = <<>>]
    /\ output' = [output EXCEPT ![client] = <<>>]
    /\ client' = 0
    /\ IF c \in Closers THEN Goto(c, "done") /\ lock' = NoCaller
                        ELSE Goto(c, "ensure") /\ UNCHANGED lock
    /\ UNCHANGED <<closed, spawned, hung, clientVars, attempt, module, answer, histVars>>

-----------------------------------------------------------------------------
(* BridgeManager.close *)

CloseAsked(c) ==
    /\ pc[c] = "idle"
    /\ Goto(c, "lock")
    /\ UNCHANGED <<mgrVars, helperVars, clientVars, attempt, module, answer, histVars>>

CloseEnter(c) ==
    /\ pc[c] = "lock" /\ lock = NoCaller
    /\ closed' = TRUE
    /\ IF client = 0 THEN Goto(c, "done") /\ UNCHANGED lock
                     ELSE Goto(c, "drop") /\ lock' = c
    /\ UNCHANGED <<client, spawned, helperVars, clientVars, attempt, module, answer, histVars>>

-----------------------------------------------------------------------------
(* helper.py, and the library it loads (external) *)

\* The next request is dispatched.
Dispatch(h) ==
    /\ alive[h] /\ ~hung[h] /\ doing[h] = Nothing /\ input[h] # <<>>
    /\ LET m == Head(input[h])
       IN /\ doing' = [doing EXCEPT ![h] = m]
          /\ executed' = [executed EXCEPT ![m.from] = @ + 1]
          /\ opened' = [opened EXCEPT ![m.from] = @ \cup {m.path}]
    /\ input' = [input EXCEPT ![h] = Tail(@)]
    /\ UNCHANGED <<mgrVars, alive, output, hung, clientVars, callVars>>

\* A result, or the text of an exception.
Reply(h) ==
    /\ alive[h] /\ ~hung[h] /\ doing[h] # Nothing
    /\ \E kind \in {"result", "error"} :
          output' = [output EXCEPT ![h] = Append(@, [id |-> doing[h].id, from |-> doing[h].from,
                                                     kind |-> kind])]
    /\ doing' = [doing EXCEPT ![h] = Nothing]
    /\ UNCHANGED <<mgrVars, alive, input, hung, clientVars, callVars, histVars>>

Hang(h) ==
    /\ alive[h] /\ ~hung[h] /\ doing[h] # Nothing
    /\ hung' = [hung EXCEPT ![h] = TRUE]
    /\ UNCHANGED <<mgrVars, alive, input, output, doing, clientVars, callVars, histVars>>

\* The library brings the process down; the reader thread sees the end.
Die(h) ==
    /\ alive[h]
    /\ alive' = [alive EXCEPT ![h] = FALSE]
    /\ doing' = [doing EXCEPT ![h] = Nothing]
    /\ input' = [input EXCEPT ![h] = <<>>]
    /\ output' = [output EXCEPT ![h] = Append(@, EOF)]
    /\ UNCHANGED <<mgrVars, hung, clientVars, callVars, histVars>>

\* A thread that is inside call or close goes on.
CallStep(c) == \/ Enter(c) \/ EnterClosed(c) \/ Reuse(c) \/ Spawn(c) \/ SpawnFails(c)
               \/ Send(c) \/ Receive(c) \/ Timeout(c) \/ Retry(c) \/ GiveUp(c)
DropStep(c) == DropMark(c) \/ DropShutdown(c) \/ DropKill(c)

Next == \/ \E c \in Callers : Call(c) \/ CallStep(c)
        \/ \E c \in Closers : CloseAsked(c) \/ CloseEnter(c)
        \/ \E c \in Threads : DropStep(c)
        \/ \E h \in Helpers : Dispatch(h) \/ Reply(h) \/ Hang(h) \/ Die(h)

Spec == Init /\ [][Next]_vars

\* Threads run; the helper owes nothing: every wait on it has a deadline.
FairSpec == /\ Spec
            /\ \A c \in Callers : WF_vars(CallStep(c)) /\ WF_vars(Timeout(c))
            /\ \A c \in Closers : WF_vars(CloseEnter(c))
            /\ \A c \in Threads : WF_vars(DropStep(c))

-----------------------------------------------------------------------------
(***************************************************************************)
(* Threads, processes and lines have their types.                          *)
(***************************************************************************)
TypeOK ==
    /\ lock \in Threads \cup {NoCaller} /\ closed \in BOOLEAN
    /\ client \in Helpers \cup {0} /\ spawned \in 0 .. MaxHelpers
    /\ alive \in [Helpers -> BOOLEAN] /\ hung \in [Helpers -> BOOLEAN]
    /\ dropped \in [Helpers -> BOOLEAN] /\ lastId \in [Helpers -> Nat]
    /\ input \in [Helpers -> Seq(Requests)]
    /\ output \in [Helpers -> Seq(Lines)]
    /\ doing \in [Helpers -> Requests \cup {Nothing}]
    /\ pc \in [Threads -> {"idle", "lock", "ensure", "send", "wait", "failed", "drop",
                           "shutdown", "kill", "done"}]
    /\ attempt \in [Callers -> 0 .. 2] /\ executed \in [Callers -> Nat]
    /\ module \in [Callers -> Modules]
    /\ answer \in [Callers -> [kind : {"none", "ok", "error", "unavailable"},
                               from : Callers \cup {NoCaller}]]
    /\ opened \in [Callers -> SUBSET (Modules \cup {NoModule})]

(***************************************************************************)
(* A caller is answered with the result of its own operation, although     *)
(* late answers to calls that gave up arrive on the channel it uses        *)
(* (BridgeClient._rpc, BridgeManager.call).                                *)
(***************************************************************************)
AnswerIsMine == \A c \in Callers : answer[c].kind = "ok" => answer[c].from = c

(***************************************************************************)
(* A call through the manager is a remote call as its callers see it: an   *)
(* operation is asked for twice at most and runs once at most for each     *)
(* time; one that succeeded is never run again, whatever is still in the   *)
(* pipes of helpers that were given up; an error comes after the second    *)
(* attempt only, and everyone is told once (BridgeManager.call,            *)
(* BridgeClient._rpc, helper.py).                                          *)
(***************************************************************************)
Remote == INSTANCE RemoteCall
    WITH tries <- attempt, ran <- executed, told <- [c \in Callers |-> answer[c].kind]
ImplementsRemoteCall == Remote!Spec

(***************************************************************************)
(* Whenever the lock is free the only helper process that may run is the   *)
(* manager's client, and after close there is none, although helpers hang, *)
(* die and are replaced (manager.py: "KILL SACH moi helper").              *)
(***************************************************************************)
NoOrphan ==
    lock = NoCaller => /\ \A h \in Helpers : alive[h] => h = client
                       /\ closed => client = 0

(***************************************************************************)
(* Every call returns and every close ends, whatever the helper does       *)
(* (manager.py: "TIMEOUT moi RPC (khong treo daemon)").                    *)
(***************************************************************************)
CallsReturn == \A c \in Threads : pc[c] = "lock" ~> pc[c] = "done"

(***************************************************************************)
(* "enumerate_tokens(module_path)", "sign(module_path, ...)": the helper   *)
(* runs an operation on the module its caller named                        *)
(* (core/bridge/protocol.py:8-11).                                         *)
(***************************************************************************)
HelperOpensModule == \A c \in Callers : opened[c] \subseteq {module[c]}
===============================================================================
