---------------------------- MODULE HostSession -----------------------------
(***************************************************************************)
(* The local end of a session, ssh/session.rs: calls of                    *)
(* `HostSession::execute', the table of pending requests, and the writer,  *)
(* reader and child tasks.  A step is what one task does between two       *)
(* awaits.  A future that is dropped in the middle is not modelled.        *)
(***************************************************************************)
EXTENDS Wire

VARIABLES
    call,        \* `execute' of each request: where it is
    result,      \* what it returned: None, or whether it succeeded and whether
                 \* the remote process may continue
    ready,       \* the READY signal was sent
    reply,       \* the result signal: None, or the outcome put in by another task
    pending,     \* `SessionInner.pending': the identifiers in the table
    received,    \* pieces of output accepted for each request
    closed,      \* `SessionInner.closed'; `retired' is only ever set along with it
    failing,     \* tasks and calls inside `transport_failure' or `fail_all'
    queue,       \* outbound frames waiting for the writer task
    tasks        \* which of the writer, reader and child tasks still run

hostVars == <<call, result, ready, reply, pending, received, closed,
              failing, queue, tasks>>

Outcome == [ok: BOOLEAN, may: BOOLEAN]

HostKinds ==
    /\ call \in [Request -> {"idle", "entered", "sending", "admission", "response",
                             "cancelling", "delivering", "grace", "failing", "done"}]
    /\ result \in [Request -> Outcome \cup {None}]
    /\ ready \in [Request -> BOOLEAN]
    /\ reply \in [Request -> Outcome \cup {None}]
    /\ pending \subseteq Request
    /\ received \in [Request -> Nat]
    /\ closed \in BOOLEAN
    /\ failing \subseteq Request \cup {"writer", "reader", "child"}
    /\ queue \in Seq(UpFrames)
    /\ tasks \subseteq {"writer", "reader", "child"}

HostTypeOK == HostKinds /\ \A r \in Request: received[r] =< MaxOutput

HostInit ==
    /\ call = [r \in Request |-> "idle"]
    /\ result = [r \in Request |-> None]
    /\ ready = [r \in Request |-> FALSE]
    /\ reply = [r \in Request |-> None]
    /\ pending = {}
    /\ received = [r \in Request |-> 0]
    /\ closed = FALSE
    /\ failing = {}
    /\ queue = <<>>
    /\ tasks = {"writer", "reader", "child"}

\* `SessionInner.send' looks at `closed' and then waits for room in the queue,
\* which the end of the writer interrupts.
HasRoom == "writer" \in tasks /\ Len(queue) < QueueCap

Goes(r, pc) == call' = [call EXCEPT ![r] = pc]

\* The call returns; its end of the result signal is dropped.
Returns(r, ok, may) ==
    /\ Goes(r, "done")
    /\ result' = [result EXCEPT ![r] = [ok |-> ok, may |-> may]]
    /\ reply' = [reply EXCEPT ![r] = None]

\* The first half of `transport_failure': nothing is admitted any more.
BeginFailure(t) ==
    /\ closed' = TRUE
    /\ failing' = failing \cup {t}

----------------------------------------------------------------------------
\* A call.

\* The request enters the table before its frames are offered to the writer.
execute(r) ==
    /\ call[r] = "idle"
    /\ Goes(r, "entered")
    /\ pending' = pending \cup {r}
    /\ UNCHANGED <<result, ready, reply, received, closed, failing, queue, tasks>>
    /\ UNCHANGED wireVars

\* What `send' sees of `closed' is stale while it waits, for OPEN and for CANCEL.
CheckOpen(r) ==
    /\ ~closed
    /\ \/ call[r] = "entered" /\ Goes(r, "sending")
       \/ call[r] = "cancelling" /\ Goes(r, "delivering")
    /\ UNCHANGED <<result, ready, reply, pending, received, closed, failing, queue, tasks>>
    /\ UNCHANGED wireVars

SendOpen(r) ==
    /\ call[r] = "sending"
    /\ HasRoom
    /\ queue' = Append(queue, Frame("OPEN", r, FALSE))
    /\ Goes(r, "admission")
    /\ UNCHANGED <<result, ready, reply, pending, received, closed, failing, tasks>>
    /\ UNCHANGED wireVars

\* The session is closed, or the call is cancelled or its admission deadline
\* passes while the queue is full: nothing was sent.
SendFails(r) ==
    /\ \/ call[r] = "entered" /\ closed /\ Returns(r, FALSE, TRUE)
       \/ call[r] = "sending" /\ "writer" \notin tasks /\ Returns(r, FALSE, TRUE)
       \/ call[r] \in {"entered", "sending"} /\ Returns(r, FALSE, FALSE)
    /\ pending' = pending \ {r}
    /\ UNCHANGED <<ready, received, closed, failing, queue, tasks>>
    /\ UNCHANGED wireVars

\* A result that is there is taken before anything else (`biased').
TakeReply(r) ==
    /\ call[r] \in {"admission", "response"}
    /\ reply[r] # None
    /\ Returns(r, reply[r].ok, reply[r].may)
    /\ UNCHANGED <<ready, pending, received, closed, failing, queue, tasks>>
    /\ UNCHANGED wireVars

TakeReady(r) ==
    /\ call[r] = "admission"
    /\ reply[r] = None
    /\ ready[r]
    /\ Goes(r, "response")
    /\ UNCHANGED <<result, ready, reply, pending, received, closed, failing, queue, tasks>>
    /\ UNCHANGED wireVars

\* The caller cancels, or the admission or the response deadline passes.
GiveUp(r) ==
    /\ \/ call[r] = "admission" /\ ~ready[r]
       \/ call[r] = "response"
    /\ reply[r] = None
    /\ Goes(r, "cancelling")
    /\ UNCHANGED <<result, ready, reply, pending, received, closed, failing, queue, tasks>>
    /\ UNCHANGED wireVars

SendCancel(r) ==
    /\ call[r] = "delivering"
    /\ HasRoom
    /\ queue' = Append(queue, Frame("CANCEL", r, FALSE))
    /\ Goes(r, "grace")
    /\ UNCHANGED <<result, ready, reply, pending, received, closed, failing, tasks>>
    /\ UNCHANGED wireVars

\* The session is closed, or CANCEL could not be queued within its grace.
CancelUndelivered(r) ==
    /\ \/ call[r] = "cancelling" /\ closed
       \/ call[r] = "delivering" /\ ~HasRoom
    /\ BeginFailure(r)
    /\ Goes(r, "failing")
    /\ UNCHANGED <<result, ready, reply, pending, received, queue, tasks>>
    /\ UNCHANGED wireVars

\* The helper confirmed the end of the request: the session goes on.
CancelConfirmed(r) ==
    /\ call[r] = "grace"
    /\ reply[r] # None
    /\ Returns(r, FALSE, IF reply[r].ok THEN reply[r].may ELSE TRUE)
    /\ UNCHANGED <<ready, pending, received, closed, failing, queue, tasks>>
    /\ UNCHANGED wireVars

\* Mutant: as long as the connection stands, the EXIT is waited for.
CancelUnconfirmed_Patient(r) ==
    /\ call[r] = "grace"
    /\ reply[r] = None
    /\ ~link
    /\ BeginFailure(r)
    /\ Goes(r, "failing")
    /\ UNCHANGED <<result, ready, reply, pending, received, queue, tasks>>
    /\ UNCHANGED wireVars

\* The grace passed without an EXIT: the whole session is given up.
CancelUnconfirmed(r) ==
    /\ call[r] = "grace"
    /\ reply[r] = None
    /\ BeginFailure(r)
    /\ Goes(r, "failing")
    /\ UNCHANGED <<result, ready, reply, pending, received, queue, tasks>>
    /\ UNCHANGED wireVars

----------------------------------------------------------------------------
\* Failure of the session.

\* Mutant: a call that gives the session up tells only itself.
fail_all_Own(t) ==
    /\ t \in failing
    /\ failing' = failing \ {t}
    /\ pending' = pending \ {t}
    /\ killed' = (killed \/ t # "child")
    /\ IF t \in Request THEN Returns(t, FALSE, TRUE) ELSE UNCHANGED <<call, result, reply>>
    /\ UNCHANGED <<ready, received, closed, queue, tasks>>
    /\ UNCHANGED <<up, down, link>>

\* The second half of `transport_failure': every request in the table is told,
\* and the SSH child is terminated.  A call that failed the session returns.
fail_all(t) ==
    /\ t \in failing
    /\ failing' = failing \ {t}
    /\ pending' = {}
    /\ LET told == pending \ {t}
       IN reply' = [r \in Request |-> IF r \in told THEN [ok |-> FALSE, may |-> TRUE]
                                      ELSE IF r = t THEN None ELSE reply[r]]
    /\ killed' = (killed \/ t # "child")
    /\ IF t \in Request
       THEN Goes(t, "done") /\ result' = [result EXCEPT ![t] = [ok |-> FALSE, may |-> TRUE]]
       ELSE UNCHANGED <<call, result>>
    /\ UNCHANGED <<ready, received, closed, queue, tasks>>
    /\ UNCHANGED <<up, down, link>>

\* The pool retires a session without leases.
retire_idle ==
    /\ "retire" \in Faults
    /\ \A r \in Request: call[r] \in {"idle", "done"}
    /\ ~closed
    /\ closed' = TRUE
    /\ killed' = TRUE
    /\ UNCHANGED <<call, result, ready, reply, pending, received, failing, queue, tasks>>
    /\ UNCHANGED <<up, down, link>>

----------------------------------------------------------------------------
\* The three tasks.

WriterWrites ==
    /\ "writer" \in tasks
    /\ queue # <<>>
    /\ link
    /\ Len(up) < PipeCap
    /\ up' = Append(up, Head(queue))
    /\ queue' = Tail(queue)
    /\ UNCHANGED <<call, result, ready, reply, pending, received, closed, failing, tasks>>
    /\ UNCHANGED <<down, link, killed>>

WriterFails ==
    /\ "writer" \in tasks
    /\ queue # <<>>
    /\ ~link
    /\ tasks' = tasks \ {"writer"}
    /\ queue' = <<>>
    /\ BeginFailure("writer")
    /\ UNCHANGED <<call, result, ready, reply, pending, received>>
    /\ UNCHANGED wireVars

\* READY, output and EXIT must be for a request in the table, and READY must be
\* the first; ERROR for an unknown request is ignored.
Expected(f) ==
    \/ f.kind = "ERROR"
    \/ f.id \in pending /\ (f.kind = "READY" => ~ready[f.id])

\* What dispatch_frame does with an expected frame.  An ERROR says nothing of the
\* process, which is written as one that may continue.
Delivers(f) ==
    /\ ready' = IF f.kind = "READY" THEN [ready EXCEPT ![f.id] = TRUE] ELSE ready
    /\ received' = IF f.kind = "STDOUT" THEN [received EXCEPT ![f.id] = @ + 1] ELSE received
    /\ IF f.kind \in {"EXIT", "ERROR"} /\ f.id \in pending
       THEN /\ pending' = pending \ {f.id}
            /\ reply' = [reply EXCEPT ![f.id] = 
                                           [ok |-> f.kind = "EXIT",
                                            may |-> f.may \/ f.kind = "ERROR"]]
       ELSE UNCHANGED <<pending, reply>>

dispatch_frame ==
    /\ "reader" \in tasks
    /\ down # <<>>
    /\ Expected(Head(down))
    /\ Delivers(Head(down))
    /\ down' = Tail(down)
    /\ UNCHANGED <<call, result, closed, failing, queue, tasks>>
    /\ UNCHANGED <<up, link, killed>>

\* A frame that was not expected, or the end of the stream.
ReaderFails ==
    /\ "reader" \in tasks
    /\ IF down = <<>> THEN ~link ELSE ~Expected(Head(down))
    /\ tasks' = tasks \ {"reader"}
    /\ BeginFailure("reader")
    /\ UNCHANGED <<call, result, ready, reply, pending, received, queue>>
    /\ UNCHANGED wireVars

\* The child task reports the end of the SSH child unless others have.
child_loop ==
    /\ "child" \in tasks
    /\ ~link
    /\ tasks' = tasks \ {"child"}
    /\ IF closed THEN UNCHANGED <<closed, failing>> ELSE BeginFailure("child")
    /\ UNCHANGED <<call, result, ready, reply, pending, received, queue>>
    /\ UNCHANGED wireVars

CallStep(r) ==
    \/ execute(r) \/ CheckOpen(r) \/ SendOpen(r) \/ SendFails(r) \/ TakeReply(r) \/ TakeReady(r)
    \/ GiveUp(r) \/ SendCancel(r) \/ CancelUndelivered(r)
    \/ CancelConfirmed(r) \/ CancelUnconfirmed(r)

HostNext ==
    \/ \E r \in Request: CallStep(r)
    \/ \E t \in failing: fail_all(t)
    \/ retire_idle
    \/ WriterWrites \/ WriterFails
    \/ dispatch_frame \/ ReaderFails
    \/ child_loop

\* Calls go on, their deadlines pass, and the tasks are scheduled.  The choice
\* of a caller to begin, and whether it gives up early, are its own.
HostFairness ==
    /\ \A r \in Request:
          WF_<<hostVars, wireVars>>((CallStep(r) /\ call[r] # "idle") \/ fail_all(r))
    /\ WF_<<hostVars, wireVars>>(WriterWrites \/ WriterFails \/ fail_all("writer"))
    /\ WF_<<hostVars, wireVars>>(dispatch_frame \/ ReaderFails \/ fail_all("reader"))
    /\ WF_<<hostVars, wireVars>>(child_loop \/ fail_all("child"))

=============================================================================
