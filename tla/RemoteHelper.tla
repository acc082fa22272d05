---------------------------- MODULE RemoteHelper ----------------------------
(***************************************************************************)
(* The remote end of a session, remote_helper.rs: the main loop, a worker  *)
(* thread per request, the watchdog and the thread that drains a command's *)
(* output (one stands for the two).  A command is a process group: its     *)
(* shell, and at most one process it leaves behind, which may hold the     *)
(* output pipes ("output"), the input pipe ("stdin"), neither ("quiet"),   *)
(* or the output pipes from a group of its own ("escaped").                *)
(***************************************************************************)
EXTENDS Wire

VARIABLES
    main,        \* the main loop: reading, joining workers, ended, or stuck
    active,      \* `Shared.requests': the requests that can be cancelled
    worker,      \* the worker of each request
    cancelled,   \* `RequestControl.cancelled'
    group,       \* `RequestControl.process_group' is set
    alive,       \* `process_group_alive', as the worker found it
    may,         \* the continuation bit of the EXIT that is due
    shell,       \* the shell of the command runs
    child,       \* None, or the kind of the process it has left behind
    unwritten,   \* pieces of output the request has yet to produce
    pipe,        \* a piece of output lies in the pipe
    drain,       \* the draining thread: waiting, holding a piece, or at the end
    stop         \* `stop_sending'

helperVars == <<main, active, worker, cancelled, group, alive, may, shell, child,
                unwritten, pipe, drain, stop>>

HelperTypeOK ==
    /\ main \in {"reading", "joining", "ended", "stuck"}
    /\ active \subseteq Request
    /\ worker \in [Request -> {"none", "ready", "spawned", "waiting", "reaped",
                               "draining", "exiting", "sent", "gone"}]
    /\ cancelled \in [Request -> BOOLEAN]
    /\ group \in [Request -> BOOLEAN]
    /\ alive \in [Request -> BOOLEAN]
    /\ may \in [Request -> BOOLEAN]
    /\ shell \in [Request -> BOOLEAN]
    /\ child \in [Request -> Offspring \cup {None}]
    /\ unwritten \in [Request -> 0..MaxOutput]
    /\ pipe \in [Request -> BOOLEAN]
    /\ drain \in [Request -> {"waiting", "holding", "closed"}]
    /\ stop \in [Request -> BOOLEAN]

HelperInit ==
    /\ main = "reading"
    /\ active = {}
    /\ worker = [r \in Request |-> "none"]
    /\ cancelled = [r \in Request |-> FALSE]
    /\ group = [r \in Request |-> FALSE]
    /\ alive = [r \in Request |-> FALSE]
    /\ may = [r \in Request |-> FALSE]
    /\ shell = [r \in Request |-> FALSE]
    /\ child = [r \in Request |-> None]
    /\ unwritten = [r \in Request |-> MaxOutput]
    /\ pipe = [r \in Request |-> FALSE]
    /\ drain = [r \in Request |-> "waiting"]
    /\ stop = [r \in Request |-> FALSE]

Runs == main \in {"reading", "joining"}

\* The process group of the request has a member.
GroupAlive(r) == shell[r] \/ child[r] \in {"quiet", "output", "stdin"}

\* Somebody holds the writing end of the output pipes.
PipeHeld(r) == shell[r] \/ child[r] \in {"output", "escaped"}

Works(r, pc) == worker' = [worker EXCEPT ![r] = pc]

\* Frames are written under the lock of the writer, which a full stream blocks.
\* Once the stream is broken, writing fails.
Sends(f) == link /\ Len(down) < PipeCap /\ down' = Append(down, f)
WriteFails == ~link /\ UNCHANGED down

\* SIGTERM, then SIGKILL, to the process groups of S that are known.
Kills(S) ==
    /\ shell' = [r \in Request |-> shell[r] /\ ~(r \in S /\ group[r])]
    /\ child' = [r \in Request |-> IF r \in S /\ group[r] /\ child[r] # "escaped"
                                   THEN None ELSE child[r]]

\* `RequestControl::cancel' for each of S.
Cancels(S) ==
    /\ cancelled' = [r \in Request |-> cancelled[r] \/ r \in S]
    /\ Kills(S)

\* `cancel' stores the flag and then loads the group; a worker stores its group
\* and then loads the flag.  With release and acquire ordering both may load the
\* old value: the worker goes on and its group is not signalled.
Misses(S) == IF "reorder" \in Faults THEN SUBSET {r \in S: worker[r] = "spawned"} ELSE {{}}

MainCancels(S) ==
    \E missed \in Misses(S):
        /\ cancelled' = [r \in Request |-> cancelled[r] \/ r \in S]
        /\ Kills(S \ missed)
        /\ worker' = [r \in Request |-> IF r \in missed THEN "waiting" ELSE worker[r]]

\* The threads of the helper run no more, and nothing it knew matters.
Stops(how) ==
    /\ main' = how
    /\ active' = {}
    /\ worker' = [r \in Request |-> "gone"]
    /\ cancelled' = [r \in Request |-> FALSE]
    /\ group' = [r \in Request |-> FALSE]
    /\ alive' = [r \in Request |-> FALSE]
    /\ may' = [r \in Request |-> FALSE]
    /\ drain' = [r \in Request |-> "closed"]
    /\ stop' = [r \in Request |-> FALSE]
    /\ UNCHANGED <<shell, child, unwritten, pipe>>

----------------------------------------------------------------------------
\* The main loop of `run'.

HelperOpen ==
    /\ main = "reading"
    /\ up # <<>>
    /\ Head(up).kind = "OPEN"
    /\ LET r == Head(up).id
       IN IF r \in active
          THEN /\ Sends(Frame("ERROR", r, FALSE))
               /\ UNCHANGED <<active, worker>>
          ELSE /\ active' = active \cup {r}
               /\ Sends(Frame("READY", r, FALSE))
               /\ Works(r, "ready")
    /\ up' = Tail(up)
    /\ UNCHANGED <<main, cancelled, group, alive, may, shell, child, unwritten, pipe, drain, stop>>
    /\ UNCHANGED <<link, killed>>

\* READY cannot be written, or the input ends within a frame: `run' returns with
\* the error, and nobody cancels the commands that still run.
HelperFails ==
    /\ main = "reading"
    /\ ~link
    /\ up # <<>> => Head(up).kind = "OPEN"
    /\ Stops("ended")
    /\ up' = <<>>
    /\ UNCHANGED <<down, link, killed>>

\* CANCEL of a request that has ended is ignored.
HelperCancel ==
    /\ main = "reading"
    /\ up # <<>>
    /\ Head(up).kind = "CANCEL"
    /\ MainCancels({Head(up).id} \cap active)
    /\ up' = Tail(up)
    /\ UNCHANGED <<main, active, group, alive, may, unwritten, pipe, drain, stop>>
    /\ UNCHANGED <<down, link, killed>>

\* End of input: every active request is cancelled, and the workers are joined.
HelperClose ==
    /\ main = "reading"
    /\ up = <<>>
    /\ ~link
    /\ MainCancels(active)
    /\ main' = "joining"
    /\ UNCHANGED <<active, group, alive, may, unwritten, pipe, drain, stop>>
    /\ UNCHANGED wireVars

HelperEnds ==
    /\ main = "joining"
    /\ \A r \in Request: worker[r] \in {"none", "gone"}
    /\ Stops("ended")
    /\ UNCHANGED wireVars

\* The helper, or the machine under it, stops making progress.
HelperWedges ==
    /\ "wedge" \in Faults
    /\ Runs
    /\ Stops("stuck")
    /\ UNCHANGED wireVars

----------------------------------------------------------------------------
\* The worker of a command: `execute_request'.

\* The group is stored before the flag is looked at.
SpawnCommand(r) ==
    /\ Runs
    /\ r \in Command
    /\ worker[r] = "ready"
    /\ Works(r, "spawned")
    /\ shell' = [shell EXCEPT ![r] = TRUE]
    /\ group' = [group EXCEPT ![r] = TRUE]
    /\ UNCHANGED <<main, active, cancelled, alive, may, child, unwritten, pipe, drain, stop>>
    /\ UNCHANGED wireVars

CheckCancelled(r) ==
    /\ Runs
    /\ worker[r] = "spawned"
    /\ Works(r, "waiting")
    /\ Cancels(IF cancelled[r] THEN {r} ELSE {})
    /\ UNCHANGED <<main, active, group, alive, may, unwritten, pipe, drain, stop>>
    /\ UNCHANGED wireVars

\* Mutant: the watchdog only raises the flag.
WatchdogFires_Flag(r) ==
    /\ Runs
    /\ worker[r] = "waiting"
    /\ cancelled' = [cancelled EXCEPT ![r] = TRUE]
    /\ UNCHANGED <<main, active, worker, group, alive, may, shell, child, unwritten, pipe, drain,
                   stop>>
    /\ UNCHANGED wireVars

WatchdogFires(r) ==
    /\ Runs
    /\ worker[r] = "waiting"
    /\ Cancels({r})
    /\ UNCHANGED <<main, active, worker, group, alive, may, unwritten, pipe, drain, stop>>
    /\ UNCHANGED wireVars

\* The shell is reaped, and the watchdog is stopped and joined.
Reap(r) ==
    /\ Runs
    /\ worker[r] = "waiting"
    /\ ~shell[r]
    /\ Works(r, "reaped")
    /\ UNCHANGED <<main, active, cancelled, group, alive, may, shell, child, unwritten, pipe,
                   drain, stop>>
    /\ UNCHANGED wireVars

\* The thread that feeds the input is joined: it ends when all is written or
\* nobody holds the pipe any more.  Then the worker looks for descendants.
LookForGroup(r) ==
    /\ Runs
    /\ worker[r] = "reaped"
    /\ child[r] # "stdin"
    /\ alive' = [alive EXCEPT ![r] = GroupAlive(r)]
    /\ Works(r, "draining")
    /\ UNCHANGED <<main, active, cancelled, group, may, shell, child, unwritten, pipe, drain,
                   stop>>
    /\ UNCHANGED wireVars

\* With a live group the wait for the end of the output is bounded; without one
\* it is not.
DrainDone(r) == drain[r] = "closed" \/ alive[r]

\* Mutant: only an open pipe makes the process one that may continue.
EndDrain_PipesOnly(r) ==
    /\ Runs
    /\ worker[r] = "draining"
    /\ DrainDone(r)
    /\ may' = [may EXCEPT ![r] = drain[r] # "closed"]
    /\ stop' = [stop EXCEPT ![r] = drain[r] # "closed"]
    /\ Works(r, "exiting")
    /\ UNCHANGED <<main, active, cancelled, group, alive, shell, child, unwritten, pipe, drain>>
    /\ UNCHANGED wireVars

\* Mutant: without a live group the output is taken for finished.
EndDrain_GroupOnly(r) ==
    /\ Runs
    /\ worker[r] = "draining"
    /\ may' = [may EXCEPT ![r] = alive[r]]
    /\ stop' = [stop EXCEPT ![r] = drain[r] # "closed"]
    /\ Works(r, "exiting")
    /\ UNCHANGED <<main, active, cancelled, group, alive, shell, child, unwritten, pipe, drain>>
    /\ UNCHANGED wireVars

EndDrain(r) ==
    /\ Runs
    /\ worker[r] = "draining"
    /\ DrainDone(r)
    /\ may' = [may EXCEPT ![r] = alive[r] \/ drain[r] # "closed"]
    /\ stop' = [stop EXCEPT ![r] = drain[r] # "closed"]
    /\ Works(r, "exiting")
    /\ UNCHANGED <<main, active, cancelled, group, alive, shell, child, unwritten, pipe, drain>>
    /\ UNCHANGED wireVars

SendExit(r) ==
    /\ Runs
    /\ worker[r] = "exiting"
    /\ Sends(Frame("EXIT", r, may[r])) \/ WriteFails
    /\ Works(r, "sent")
    /\ UNCHANGED <<main, active, cancelled, group, alive, may, shell, child, unwritten, pipe,
                   drain, stop>>
    /\ UNCHANGED <<up, link, killed>>

\* The command cannot be spawned, the search meets an error, or the job control
\* is refused or fails.
RequestFails(r) ==
    /\ Runs
    /\ worker[r] = "ready"
    /\ Sends(Frame("ERROR", r, FALSE)) \/ WriteFails
    /\ Works(r, "sent")
    /\ UNCHANGED <<main, active, cancelled, group, alive, may, shell, child, unwritten, pipe,
                   drain, stop>>
    /\ UNCHANGED <<up, link, killed>>

\* `run_request': the request leaves the table, and its control is dropped.
EndWorker(r) ==
    /\ Runs
    /\ worker[r] = "sent"
    /\ Works(r, "gone")
    /\ active' = active \ {r}
    /\ group' = [group EXCEPT ![r] = FALSE]
    /\ cancelled' = [cancelled EXCEPT ![r] = FALSE]
    /\ alive' = [alive EXCEPT ![r] = FALSE]
    /\ may' = [may EXCEPT ![r] = FALSE]
    /\ UNCHANGED <<main, shell, child, unwritten, pipe, drain, stop>>
    /\ UNCHANGED wireVars

----------------------------------------------------------------------------
\* The worker of a search or of a job control: no process, no group.

\* A search that was cancelled sends nothing more; the flag is looked at under
\* the lock of the writer.
TaskOutput(r) ==
    /\ Runs
    /\ r \notin Command
    /\ worker[r] = "ready"
    /\ unwritten[r] > 0
    /\ unwritten' = [unwritten EXCEPT ![r] = @ - 1]
    /\ IF cancelled[r] THEN UNCHANGED down ELSE Sends(Frame("STDOUT", r, FALSE))
    /\ UNCHANGED <<main, active, worker, cancelled, group, alive, may, shell, child, pipe, drain,
                   stop>>
    /\ UNCHANGED <<up, link, killed>>

TaskExit(r) ==
    /\ Runs
    /\ r \notin Command
    /\ worker[r] = "ready"
    /\ Sends(Frame("EXIT", r, FALSE)) \/ WriteFails
    /\ Works(r, "sent")
    /\ UNCHANGED <<main, active, cancelled, group, alive, may, shell, child, unwritten, pipe,
                   drain, stop>>
    /\ UNCHANGED <<up, link, killed>>

----------------------------------------------------------------------------
\* The draining thread of a command: `drain_stream' and `send_stream_frame'.

DrainReads(r) ==
    /\ Runs
    /\ drain[r] = "waiting"
    /\ pipe[r]
    /\ pipe' = [pipe EXCEPT ![r] = FALSE]
    /\ drain' = [drain EXCEPT ![r] = IF stop[r] THEN "waiting" ELSE "holding"]
    /\ UNCHANGED <<main, active, worker, cancelled, group, alive, may, shell, child, unwritten,
                   stop>>
    /\ UNCHANGED wireVars

\* `stop_sending' is looked at again under the lock of the writer, so that no
\* piece of output follows the EXIT.
MaySend(r) == ~stop[r]

DrainSends(r) ==
    /\ Runs
    /\ drain[r] = "holding"
    /\ IF MaySend(r)
       THEN \/ Sends(Frame("STDOUT", r, FALSE)) /\ drain' = [drain EXCEPT ![r] = "waiting"]
            \/ WriteFails /\ drain' = [drain EXCEPT ![r] = "closed"]
       ELSE UNCHANGED down /\ drain' = [drain EXCEPT ![r] = "waiting"]
    /\ UNCHANGED <<main, active, worker, cancelled, group, alive, may, shell, child, unwritten,
                   pipe, stop>>
    /\ UNCHANGED <<up, link, killed>>

DrainEof(r) ==
    /\ Runs
    /\ drain[r] = "waiting"
    /\ worker[r] \notin {"none", "ready"}
    /\ ~pipe[r]
    /\ ~PipeHeld(r)
    /\ drain' = [drain EXCEPT ![r] = "closed"]
    /\ UNCHANGED <<main, active, worker, cancelled, group, alive, may, shell, child, unwritten,
                   pipe, stop>>
    /\ UNCHANGED wireVars

----------------------------------------------------------------------------
\* The processes of a command.

\* Output that nobody will read is left out.
CommandWrites(r) ==
    /\ Runs
    /\ PipeHeld(r)
    /\ unwritten[r] > 0
    /\ ~pipe[r]
    /\ unwritten' = [unwritten EXCEPT ![r] = @ - 1]
    /\ pipe' = [pipe EXCEPT ![r] = TRUE]
    /\ UNCHANGED <<main, active, worker, cancelled, group, alive, may, shell, child, drain, stop>>
    /\ UNCHANGED wireVars

\* The shell ends, perhaps leaving a process behind.
ShellEnds(r) ==
    /\ shell[r]
    /\ shell' = [shell EXCEPT ![r] = FALSE]
    /\ \E k \in Offspring \cup {None}: child' = [child EXCEPT ![r] = k]
    /\ UNCHANGED <<main, active, worker, cancelled, group, alive, may, unwritten, pipe, drain, stop>>
    /\ UNCHANGED wireVars

ChildEnds(r) ==
    /\ child[r] # None
    /\ child' = [child EXCEPT ![r] = None]
    /\ UNCHANGED <<main, active, worker, cancelled, group, alive, may, shell, unwritten, pipe,
                   drain, stop>>
    /\ UNCHANGED wireVars

WorkerStep(r) ==
    \/ SpawnCommand(r) \/ CheckCancelled(r) \/ Reap(r) \/ LookForGroup(r) \/ EndDrain(r)
    \/ SendExit(r) \/ RequestFails(r) \/ EndWorker(r) \/ TaskOutput(r) \/ TaskExit(r)

DrainStep(r) == DrainReads(r) \/ DrainSends(r) \/ DrainEof(r)

MainStep ==
    HelperOpen \/ HelperFails \/ HelperCancel \/ HelperClose \/ HelperEnds

HelperNext ==
    \/ MainStep
    \/ HelperWedges
    \/ \E r \in Request: WorkerStep(r) \/ WatchdogFires(r) \/ DrainStep(r)
    \/ \E r \in Request: CommandWrites(r) \/ ShellEnds(r) \/ ChildEnds(r)

\* The threads of the helper are scheduled, the watchdog included: the bridge
\* gives every command a limit (unless less than a millisecond is left, which is
\* sent as none).  Nothing is assumed of commands.
HelperFairness ==
    /\ WF_<<helperVars, wireVars>>(MainStep)
    /\ \A r \in Request:
          /\ WF_<<helperVars, wireVars>>(WorkerStep(r))
          /\ WF_<<helperVars, wireVars>>(DrainStep(r))
          /\ WF_<<helperVars, wireVars>>(WatchdogFires(r))

=============================================================================
