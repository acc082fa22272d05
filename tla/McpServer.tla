-------------------------------- MODULE McpServer -------------------------------
(***************************************************************************)
(* The MCP server (mcp/mod.rs): one owner loop reads the client's frames,  *)
(* spawns a task for each tool call and hands what it answers to a writer  *)
(* task through a bounded channel.                                         *)
(*                                                                         *)
(* A frame is what the loop can tell of it; requests are numbered in the   *)
(* order the client sends them.  Left out: what a tool does (Forwards and  *)
(* EditCache have two of them), and what an answer holds.                  *)
(***************************************************************************)
EXTENDS Integers, Sequences, FiniteSets

CONSTANTS Id,            \* request ids
          Requests,      \* bound: requests that the client sends after the first
          Ids,           \* a set of functions from 1 .. Requests to Id: the ids it gives them
          Input,         \* bound: frames sent and not read yet
          Capacity,      \* MCP_WRITER_CHANNEL_CAPACITY
          Faults         \* subset of {"partial eof", "failed", "writer", "service"}

ASSUME McpAssumption ==
  /\ Requests \in Nat \ {0} /\ Input \in Nat \ {0} /\ Capacity \in Nat \ {0}
  /\ Ids \subseteq [1 .. Requests -> Id]
  /\ Faults \subseteq {"partial eof", "failed", "writer", "service"}

Request == 1 .. Requests
None == 0

VARIABLES
  \* the client
  input,       \* frames it has sent and the loop has not read
  sent,        \* requests sent so far
  id,          \* the id of each of them
  open,        \* stdin is open, or how it was closed
  \* the owner loop
  pc,          \* where it is
  message,     \* what it waits to put into the channel
  state,       \* ProtocolState
  active,      \* the call in flight with an id
  silenced,    \* calls with cancelled_by_client
  failed,      \* transport_failed
  partial,     \* partial_eof
  result,      \* what serve returned
  \* the tasks
  task,        \* each call's task
  ready,       \* JoinSet: the tasks that have ended and are not joined, in their order
  cancelled,   \* the calls whose token is cancelled
  \* the writer
  channel,     \* the messages in the channel
  writer,      \* its task: idle, writing the message it has taken, failed, or ended
  suppress,    \* suppress_call_responses
  answers      \* history: the requests answered, in the order of the channel

client == <<input, sent, id, open>>
owner == <<pc, message, state, active, silenced, failed, partial, result>>
tasks == <<task, ready, cancelled>>
output == <<channel, writer, suppress, answers>>
vars == <<client, owner, tasks, output>>

\* A message answers a request, or (None) is an error without an id.
Message == [to : Request \cup {None}, call : BOOLEAN]
NoMessage == [to |-> None, call |-> FALSE]

Init ==
  /\ input = <<>> /\ sent = 0 /\ id \in Ids
  /\ open = "open"
  /\ pc = "loop" /\ message = NoMessage
  /\ state = "AwaitInitialize"
  /\ active = [i \in Id |-> None] /\ silenced = {}
  /\ failed = FALSE /\ partial = FALSE /\ result = "none"
  /\ task = [r \in Request |-> "none"] /\ ready = <<>> /\ cancelled = {}
  /\ channel = <<>> /\ writer = "idle" /\ suppress = FALSE
  /\ answers = <<>>

-----------------------------------------------------------------------------
(* The client *)

Other == {"initialize", "initialized", "malformed"}
Asks == {"plain", "call"}

\* `malformed' is an oversized line, or no JSON-RPC request: its error has the id
\* that the frame has, if any, also while a call with this id is in flight.
\* The first request, `initialize', is not numbered; `plain' is whatever else is
\* answered at once: ping, tools/list, and all that is refused with its id.
\* What is sent once the loop is left is never read.
Serving == pc \in {"loop", "reap", "control", "respond"}

SendRequest ==
  /\ open = "open" /\ Serving /\ Len(input) < Input /\ sent < Requests
  /\ sent' = sent + 1
  /\ \E a \in Asks : input' = Append(input, [type |-> a, request |-> sent + 1, of |-> id[sent + 1]])
  /\ UNCHANGED <<id, open, owner, tasks, output>>

SendOther ==
  /\ open = "open" /\ Serving /\ Len(input) < Input
  /\ \/ \E n \in Other :
          input' = Append(input, [type |-> n, request |-> None, of |-> CHOOSE i \in Id : TRUE])
     \/ \E i \in Id : input' = Append(input, [type |-> "cancel", request |-> None, of |-> i])
  /\ UNCHANGED <<sent, id, open, owner, tasks, output>>

CloseInput ==
  /\ open = "open" /\ Serving
  /\ open' \in {"eof"} \cup (Faults \cap {"partial eof", "failed"})
  /\ UNCHANGED <<input, sent, id, owner, tasks, output>>

-----------------------------------------------------------------------------
(* The owner loop *)

Goes(next) == pc' = next

\* send_writer_message begins: the loop does nothing else until there is room.
Sends(to, isCall, next) ==
  /\ message' = [to |-> to, call |-> isCall]
  /\ Goes(next)

\* The channel takes the message; it is closed once the writer has returned.
Sent ==
  /\ pc \in {"control", "respond", "parse error"}
  /\ IF writer \in {"failed", "ended"}
     THEN failed' = TRUE /\ Goes("closing") /\ UNCHANGED <<channel, answers>>
     ELSE /\ Len(channel) < Capacity
          /\ channel' = Append(channel, message)
          /\ answers' = IF message.to = None THEN answers ELSE Append(answers, message.to)
          /\ Goes(CASE pc = "control" -> "reap" [] pc = "respond" -> "loop"
                    [] pc = "parse error" -> "closing")
          /\ UNCHANGED failed
  /\ message' = NoMessage
  /\ UNCHANGED <<client, state, active, silenced, partial, result, tasks, writer, suppress>>

Frame == Head(input)

\* next_owner_event takes a frame before it takes a completion.
ReadsFrame(types) ==
  /\ pc = "loop" /\ writer # "failed" /\ input # <<>> /\ Frame.type \in types
  /\ input' = Tail(input)
  /\ UNCHANGED <<sent, id, open, silenced, failed, partial, result, output>>

\* A request with the id of a call in flight.
Duplicate == Frame.request # None /\ active[Frame.of] # None

ReadsMalformed ==
  /\ ReadsFrame({"malformed"})
  /\ Sends(None, FALSE, "control")
  /\ UNCHANGED <<state, active, tasks>>

\* Nobody looks whether the id is in use.
ReadsRequest_AnyId ==
  /\ ReadsFrame(Asks)
  /\ \/ /\ Frame.type = "plain" \/ (Frame.type = "call" /\ state # "Ready")
        /\ Sends(Frame.request, FALSE, "control") /\ UNCHANGED <<state, active, tasks>>
     \/ /\ Frame.type = "call" /\ state = "Ready"
        /\ active' = [active EXCEPT ![Frame.of] = Frame.request]
        /\ task' = [task EXCEPT ![Frame.request] = "running"]
        /\ Goes("reap") /\ UNCHANGED <<message, state, ready, cancelled>>

\* process_control_frame of a request: every one is answered here, with a result
\* or an error, but a call that is admitted.
ReadsRequest ==
  /\ ReadsFrame(Asks)
  /\ \/ /\ Duplicate
        /\ Sends(None, FALSE, "control") /\ UNCHANGED <<state, active, tasks>>
     \/ /\ ~Duplicate
        /\ Frame.type = "plain" \/ (Frame.type = "call" /\ state # "Ready")
        /\ Sends(Frame.request, FALSE, "control") /\ UNCHANGED <<state, active, tasks>>
     \/ /\ ~Duplicate /\ Frame.type = "call" /\ state = "Ready"
        /\ active' = [active EXCEPT ![Frame.of] = Frame.request]
        /\ task' = [task EXCEPT ![Frame.request] = "running"]
        /\ Goes("reap") /\ UNCHANGED <<message, state, ready, cancelled>>

\* The transition is made when the channel has the response.
ReadsInitialize ==
  /\ ReadsFrame({"initialize"})
  /\ state' = IF state = "AwaitInitialize" THEN "AwaitInitialized" ELSE state
  /\ Sends(None, FALSE, "control")
  /\ UNCHANGED <<active, tasks>>

\* notifications/initialized; another one stands for all that is ignored.
ReadsInitialized ==
  /\ ReadsFrame({"initialized"})
  /\ state' = IF state = "AwaitInitialized" THEN "Ready" ELSE state
  /\ Goes("reap")
  /\ UNCHANGED <<message, active, tasks>>

\* notifications/cancelled
ReadsCancel ==
  /\ pc = "loop" /\ writer # "failed" /\ input # <<>> /\ Frame.type = "cancel"
  /\ input' = Tail(input)
  /\ LET met == IF state = "AwaitInitialize" THEN {} ELSE {active[Frame.of]} \ {None}
     IN  silenced' = silenced \cup met /\ cancelled' = cancelled \cup met
  /\ Goes("reap")
  /\ UNCHANGED <<sent, id, open, message, state, active, failed, partial, result, task, ready, output>>

\* The input is at its end.
ReadsEnd ==
  /\ pc = "loop" /\ writer # "failed" /\ input = <<>> /\ open # "open"
  /\ CASE open = "eof" -> Goes("closing") /\ UNCHANGED <<message, failed, partial>>
       [] open = "partial eof" ->
            partial' = TRUE /\ Sends(None, FALSE, "parse error") /\ UNCHANGED failed
       [] open = "failed" -> failed' = TRUE /\ Goes("closing") /\ UNCHANGED <<message, partial>>
  /\ UNCHANGED <<client, state, active, silenced, result, tasks, output>>

\* The writer has returned: it is looked at before anything else.
SeesWriter ==
  /\ pc = "loop" /\ writer = "failed"
  /\ failed' = TRUE /\ Goes("closing")
  /\ UNCHANGED <<client, message, state, active, silenced, partial, result, tasks, output>>

\* process_completion: the registry forgets the call, and answers for it unless
\* the client has cancelled it.
Completes(next) ==
  LET r == Head(ready) IN
  /\ ready # <<>>
  /\ ready' = Tail(ready)
  /\ task' = [task EXCEPT ![r] = "joined"]
  /\ active' = [active EXCEPT ![id[r]] = None]
  /\ IF r \in silenced THEN Goes(next) /\ UNCHANGED message ELSE Sends(r, TRUE, "respond")
  /\ UNCHANGED <<client, state, silenced, failed, partial, result, cancelled, output>>

\* A completion is only joined when there is no input.
TakesCompletion ==
  /\ pc = "loop" /\ writer # "failed" /\ input = <<>> /\ open = "open"
  /\ Completes("loop")

\* Nothing is joined after a frame.
Reaps_Nothing ==
  /\ pc = "reap"
  /\ Goes("loop")
  /\ UNCHANGED <<client, message, state, active, silenced, failed, partial, result, tasks, output>>

\* try_reap_one_completion, after every frame.
Reaps ==
  /\ pc = "reap"
  /\ IF ready # <<>> THEN Completes("loop")
     ELSE /\ Goes("loop")
          /\ UNCHANGED <<client, message, state, active, silenced, failed, partial, result, tasks, output>>

-----------------------------------------------------------------------------
(* The end *)

Running == {r \in Request : task[r] \in {"running", "aborting"}}

\* Every call is cancelled and no answer to one is written any more.
Closing ==
  /\ pc = "closing"
  /\ suppress' = TRUE
  /\ cancelled' = cancelled \cup ({active[i] : i \in Id} \ {None})
  /\ Goes("cleanup")
  /\ UNCHANGED <<client, message, state, active, silenced, failed, partial, result, task, ready>>
  /\ UNCHANGED <<channel, writer, answers>>

\* remove_completion, in the cleanup or the drain.
Joins ==
  /\ pc \in {"cleanup", "drain"} /\ ready # <<>>
  /\ ready' = Tail(ready)
  /\ task' = [task EXCEPT ![Head(ready)] = "joined"]
  /\ active' = [active EXCEPT ![id[Head(ready)]] = None]
  /\ UNCHANGED <<client, pc, message, state, silenced, failed, partial, result, cancelled, output>>

\* The service is shut down unless the transport failed.
Cleaned(f) == Goes(IF ~f /\ ~partial THEN "service" ELSE "join")

AllJoined ==
  /\ pc \in {"cleanup", "drain"} /\ ready = <<>> /\ Running = {}
  /\ Cleaned(failed)
  /\ UNCHANGED <<client, message, state, active, silenced, failed, partial, result, tasks, output>>

\* MCP_TASK_CLEANUP_GRACE is over: abort_all.
CleanupExpires ==
  /\ pc = "cleanup" /\ Running # {}
  /\ task' = [r \in Request |-> IF task[r] = "running" THEN "aborting" ELSE task[r]]
  /\ Goes("drain")
  /\ UNCHANGED <<client, message, state, active, silenced, failed, partial, result, ready, cancelled, output>>

\* A task that outlives the drain is no reason not to shut the service down.
DrainExpires_Goes_On ==
  /\ pc = "drain" /\ Running # {}
  /\ Cleaned(failed)
  /\ active' = [i \in Id |-> None]
  /\ UNCHANGED <<client, message, state, silenced, failed, partial, result, tasks, output>>

\* The drain has no bound.
DrainExpires_Waits ==
  /\ pc = "drain" /\ Running = {}
  /\ Cleaned(failed)
  /\ UNCHANGED <<client, message, state, active, silenced, failed, partial, result, tasks, output>>

\* MCP_ABORT_DRAIN_GRACE is over.
DrainExpires ==
  /\ pc = "drain" /\ Running # {}
  /\ failed' = TRUE /\ Cleaned(TRUE)
  /\ active' = [i \in Id |-> None]
  /\ UNCHANGED <<client, message, state, silenced, partial, result, tasks, output>>

\* ToolService::shutdown returns; its error is kept for the end.
ServiceReturns ==
  /\ pc = "service"
  /\ result' \in {"none"} \cup (IF "service" \in Faults THEN {"service"} ELSE {})
  /\ Goes("join")
  /\ UNCHANGED <<client, message, state, active, silenced, failed, partial, tasks, output>>

ServiceExpires ==
  /\ pc = "service"
  /\ result' = "service" /\ Goes("join")
  /\ UNCHANGED <<client, message, state, active, silenced, failed, partial, tasks, output>>

Ends(f) ==
  /\ Goes("ended")
  /\ failed' = f
  /\ result' = CASE f -> "transport" [] partial -> "partial"
                 [] result = "service" -> "service" [] OTHER -> "ok"
  /\ UNCHANGED <<client, message, state, active, silenced, partial, tasks, channel, suppress, answers>>

\* The sender is dropped; the writer has ended by now or within its grace.
JoinsWriter ==
  /\ pc = "join" /\ writer \in {"failed", "ended"}
  /\ Ends(failed \/ writer = "failed")
  /\ UNCHANGED writer

\* MCP_WRITER_SHUTDOWN_GRACE is over: the writer is aborted.
JoinExpires ==
  /\ pc = "join" /\ writer \notin {"failed", "ended"}
  /\ Ends(TRUE)
  /\ writer' = "ended"

-----------------------------------------------------------------------------
(* The tasks *)

\* The future of ToolService::call returns, or panics.
TaskEnds(r) ==
  /\ task[r] \in {"running", "aborting"}
  /\ task' = [task EXCEPT ![r] = "ended"]
  /\ ready' = Append(ready, r)
  /\ UNCHANGED <<client, owner, cancelled, output>>

\* An aborted task ends at the next await it comes to.
TaskAborted(r) ==
  /\ task[r] = "aborting"
  /\ task' = [task EXCEPT ![r] = "ended"]
  /\ ready' = Append(ready, r)
  /\ UNCHANGED <<client, owner, cancelled, output>>

-----------------------------------------------------------------------------
(* writer_loop *)

WriterTakes ==
  /\ writer = "idle" /\ channel # <<>>
  /\ channel' = Tail(channel)
  /\ IF Head(channel).call /\ suppress
     THEN UNCHANGED writer ELSE writer' = "writing"
  /\ UNCHANGED <<client, owner, tasks, suppress, answers>>

\* The client reads the line.
WriterWrites ==
  /\ writer = "writing"
  /\ writer' = "idle"
  /\ UNCHANGED <<client, owner, tasks, channel, suppress, answers>>

\* The client has closed its end.
WriterFails ==
  /\ "writer" \in Faults /\ writer \in {"idle", "writing"}
  /\ writer = "idle" => pc = "join" /\ channel = <<>>
  /\ writer' = "failed"
  /\ UNCHANGED <<client, owner, tasks, channel, suppress, answers>>

WriterEnds ==
  /\ writer = "idle" /\ channel = <<>> /\ pc = "join"
  /\ writer' = "ended"
  /\ UNCHANGED <<client, owner, tasks, channel, suppress, answers>>

-----------------------------------------------------------------------------
Client == SendRequest \/ SendOther \/ CloseInput

Owner ==
  \/ Sent \/ ReadsMalformed \/ ReadsRequest \/ ReadsInitialize
  \/ ReadsInitialized \/ ReadsCancel \/ ReadsEnd \/ SeesWriter \/ TakesCompletion \/ Reaps
  \/ Closing \/ Joins \/ AllJoined \/ JoinsWriter

Expires == CleanupExpires \/ DrainExpires \/ JoinExpires

Writer == WriterTakes \/ WriterWrites \/ WriterEnds

-----------------------------------------------------------------------------
(* Properties *)

\* The answers with one id come in the order of the requests with it, one for
\* each at most: a client that uses an id again is never misled.
AnswersInOrder ==
  \A j \in 1 .. Len(answers), k \in 1 .. Len(answers) :
    j < k /\ id[answers[j]] = id[answers[k]] => answers[j] < answers[k]

Answered(r) == r \in silenced \/ \E k \in 1 .. Len(answers) : answers[k] = r

\* Whatever else the client keeps sending, every call whose tool has returned is
\* answered in the end, unless the client cancelled it or the connection ends.
EveryCallAnswered ==
  []<>(Serving => \A r \in Request : task[r] \in {"ended", "joined"} => Answered(r))

\* serve returns once the input has ended or the client is gone, although a tool
\* or the service never returns.
ServeEnds == open # "open" \/ writer = "failed" ~> pc = "ended"

=============================================================================
