------------------------------ MODULE DurableJob ------------------------------
(***************************************************************************)
(* Durable remote jobs (src/remote_job_runner.rs): the directory of a job, *)
(* the control requests helpers execute on it, the runner process that     *)
(* supervises the job's command, and what crashes and reboots leave.       *)
(*                                                                         *)
(* Nothing but the file system is shared, so an action is one access to    *)
(* it: reading or replacing a record, taking the advisory lock, creating   *)
(* or removing a file, looking at a process.  The two log files are in     *)
(* JobLogs.                                                                *)
(*                                                                         *)
(* An operator named X_Y is operator X with the mistake Y, kept to show    *)
(* which property notices it; no action uses one.                          *)
(***************************************************************************)
EXTENDS Integers, FiniteSets, Sequences

CONSTANTS
  Job,      \* job ids
  Helper,   \* helper processes; each executes one control request at a time
  Ops,      \* the control requests that are made
  Faults,   \* what may go wrong
  MaxBoot,  \* bound: boots of the remote host
  None      \* nobody

(* logs and list are a status, or one for every job, followed by reading. *)
AllOps == {"start", "status", "cancel", "delete"}

AllFaults == {"io", "slow", "stdin", "timeout", "fork", "hold", "helper", "runner", "reboot"}

ASSUME DurableJobAssumption ==
  /\ Ops \subseteq AllOps /\ Faults \subseteq AllFaults
  /\ MaxBoot \in Nat \ {0}
  /\ None \notin Helper \cup {"runner"} /\ "runner" \notin Helper

VARIABLES
  files,    \* files[j]: what exists of job j's directory
  record,   \* record[j]: the contents of its state file
  lock,     \* lock[j]: holder of the advisory lock on runner.lock
  ctl,      \* ctl[h]: the control request helper h executes
  runner,   \* runner[j]: the runner process
  command,  \* command[j]: the command, leader of its process group
  members,  \* members[j]: the rest of the process group
  boot      \* the current boot

vars == <<files, record, lock, ctl, runner, command, members, boot>>

-----------------------------------------------------------------------------
File == {"dir", "request", "lock", "state", "cancel", "temp"}

(* Succeeded and Failed are both "ended". *)
Terminal == {"ended", "cancelled", "timedout", "lost"}

(* "partial": created, not completely written. *)
JobState == {"none", "partial", "starting", "running"} \cup Terminal

Record == [state : JobState, boot : 0 .. MaxBoot]

CtlPC == {"idle", "walk", "read", "match", "lock", "settle", "install",
          "dopen", "dwait", "dscan", "unlink", "rmdir",
          "mkdir", "files", "create", "fill", "spawn", "ready", "ask"}

Request == [op : AllOps, job : Job \cup {None}, pc : CtlPC,
            phase : {"collect", "expire", "op", "poll"}, walk : SUBSET Job,
            at : Job \cup {None}, seen : Record, left : 0 .. 4]

NoRecord == [state |-> "none", boot |-> 0]

Idle == [op |-> "status", job |-> None, pc |-> "idle", phase |-> "collect",
         walk |-> {}, at |-> None, seen |-> NoRecord, left |-> 0]

RunnerPC == {"none", "spawned", "locked", "feeding", "staged", "recorded",
             "watching", "killing", "draining", "ending", "endstaged",
             "leaving", "zombie", "gone"}

NoRunner == [pc |-> "none", outcome |-> "none", parent |-> None]

(* The runner is a process that still executes. *)
Alive(j) == runner[j].pc \notin {"none", "zombie", "gone"}

(* process_matches: /proc still shows the runner, if only as a zombie that *)
(* its parent, the helper that spawned it, never waits for.                *)
process_matches(j) == Alive(j) \/ runner[j].pc = "zombie"

Directories == {j \in Job : "dir" \in files[j]}

Readable(j) == "state" \in files[j] /\ record[j].state # "partial"

Init ==
  /\ files = [j \in Job |-> {}]
  /\ record = [j \in Job |-> NoRecord]
  /\ lock = [j \in Job |-> None]
  /\ ctl = [h \in Helper |-> Idle]
  /\ runner = [j \in Job |-> NoRunner]
  /\ command = [j \in Job |-> "none"]
  /\ members = [j \in Job |-> "none"]
  /\ boot = 1

-----------------------------------------------------------------------------
(* A control request (execute_control): collect_expired over every job     *)
(* directory first, then the request itself.                               *)

Become(h, request) == ctl' = [ctl EXCEPT ![h] = request]

Goto(h, pc) == ctl' = [ctl EXCEPT ![h].pc = pc]

Return(h) == Become(h, Idle)

(* The job id of a start is fresh: 128 random bits. *)
Fresh(j) ==
  /\ files[j] = {} /\ runner[j] = NoRunner
  /\ \A h \in Helper : j \notin {ctl[h].job, ctl[h].at} \cup ctl[h].walk

execute_control(h, op, j) ==
  /\ op \in Ops
  /\ ctl[h].pc = "idle"
  /\ op = "start" => Fresh(j)
  /\ Become(h, [Idle EXCEPT !.op = op, !.job = j, !.pc = "walk", !.walk = Directories])
  /\ UNCHANGED <<files, record, lock, runner, command, members, boot>>

(* The next directory of a walk, or what follows the walk. *)
Walk(h) ==
  LET c == ctl[h]
      first == IF c.op = "start" THEN "mkdir" ELSE "read"
  IN
  /\ c.pc = "walk"
  /\ \/ \E j \in c.walk : Become(h, [c EXCEPT !.at = j, !.pc = "read"])
     \/ /\ c.walk = {}
        /\ Become(h, [c EXCEPT !.phase = "op", !.at = c.job, !.pc = first])
  /\ UNCHANGED <<files, record, lock, runner, command, members, boot>>

Deleting(c) == c.phase = "expire" \/ (c.phase = "op" /\ c.op = "delete")

(* The walk of collect_expired goes on. *)
Onward(c) == [c EXCEPT !.pc = "walk", !.walk = c.walk \ {c.at}, !.phase = "collect",
                       !.at = None, !.seen = NoRecord]

(* How the caller of `status' may go on with state s: a terminal record    *)
(* may be past its retention; a poll for cancellation repeats or times out. *)
AfterStatus(c, s) ==
  IF Deleting(c) THEN IF s \in Terminal THEN {[c EXCEPT !.pc = "dopen"]} ELSE {Idle}
  ELSE IF c.phase = "collect"
  THEN {Onward(c)} \cup {[c EXCEPT !.pc = "read", !.phase = "expire"] : x \in {s} \cap Terminal}
  ELSE IF c.op # "cancel" \/ s \in Terminal THEN {Idle}
  ELSE IF c.phase = "op" THEN {[c EXCEPT !.pc = "ask"]}
  ELSE {[c EXCEPT !.pc = "read"], Idle}

(* `status' ends with state s. *)
Answer(h, s) == \E next \in AfterStatus(ctl[h], s) : Become(h, next)

(* `status' fails because something does not exist: delete_terminal takes  *)
(* that for a job already deleted, everything else fails.                  *)
NotFound(h) ==
  Become(h, IF ctl[h].phase = "expire" THEN Onward(ctl[h]) ELSE Idle)

-----------------------------------------------------------------------------
(* status = read_state, then reconcile_state.                              *)

read_state(h) ==
  LET c == ctl[h]
      j == c.at
  IN
  /\ c.pc = "read"
  /\ IF Readable(j)
     THEN IF record[j].state \in Terminal
          THEN Answer(h, record[j].state)
          ELSE Become(h, [c EXCEPT !.pc = "match", !.seen = record[j]])
     ELSE IF "state" \in files[j] THEN Return(h) ELSE NotFound(h)
  /\ UNCHANGED <<files, record, lock, runner, command, members, boot>>

(* The record is of another boot, or its runner is gone. *)
Suspect(j, seen) ==
  \/ seen.boot # boot
  \/ seen.state = "running" /\ ~process_matches(j)

reconcile_state(h) ==
  LET c == ctl[h]
  IN
  /\ c.pc = "match"
  /\ IF Suspect(c.at, c.seen) THEN Goto(h, "lock") ELSE Answer(h, c.seen.state)
  /\ UNCHANGED <<files, record, lock, runner, command, members, boot>>

(* lock_job without blocking. *)
ReconcileLock(h) ==
  LET c == ctl[h]
      j == c.at
  IN
  /\ c.pc = "lock"
  /\ \/ /\ "lock" \notin files[j]
        /\ NotFound(h) /\ UNCHANGED lock
     \/ /\ "lock" \in files[j] /\ lock[j] # None
        /\ Answer(h, c.seen.state) /\ UNCHANGED lock
     \/ /\ "lock" \in files[j] /\ lock[j] = None
        /\ lock' = [lock EXCEPT ![j] = h]
        /\ Goto(h, "settle")
  /\ UNCHANGED <<files, record, runner, command, members, boot>>

Settled_Unread(j) == FALSE

Settled(j) ==
  \/ record[j].state \in Terminal
  \/ record[j].boot = boot /\ record[j].state = "running" /\ process_matches(j)

(* The record is read again under the lock; a new one is staged in a       *)
(* temporary file and renamed (replace_record_at).                         *)
ReconcileAgain(h) ==
  LET j == ctl[h].at
  IN
  /\ ctl[h].pc = "settle"
  /\ \/ /\ ~Readable(j)
        /\ lock' = [lock EXCEPT ![j] = None]
        /\ NotFound(h) /\ UNCHANGED files
     \/ /\ Readable(j) /\ Settled(j)
        /\ lock' = [lock EXCEPT ![j] = None]
        /\ Answer(h, record[j].state) /\ UNCHANGED files
     \/ /\ Readable(j) /\ ~Settled(j)
        /\ files' = [files EXCEPT ![j] = @ \cup {"temp"}]
        /\ Goto(h, "install") /\ UNCHANGED lock
  /\ UNCHANGED <<record, runner, command, members, boot>>

ReconcileLost(h) ==
  LET j == ctl[h].at
  IN
  /\ ctl[h].pc = "install"
  /\ record' = [record EXCEPT ![j].state = "lost"]
  /\ files' = [files EXCEPT ![j] = (@ \ {"temp"}) \cup {"state"}]
  /\ lock' = [lock EXCEPT ![j] = None]
  /\ Answer(h, "lost")
  /\ UNCHANGED <<runner, command, members, boot>>

-----------------------------------------------------------------------------
(* cancel: leave a file for the runner, then poll `status'.                *)

cancel(h) ==
  LET c == ctl[h]
      j == c.at
  IN
  /\ c.pc = "ask"
  /\ IF "dir" \in files[j]
     THEN /\ files' = [files EXCEPT ![j] = @ \cup {"cancel"}]
          /\ Become(h, [c EXCEPT !.pc = "read", !.phase = "poll"])
     ELSE /\ Return(h) /\ UNCHANGED files
  /\ UNCHANGED <<record, lock, runner, command, members, boot>>

-----------------------------------------------------------------------------
(* delete_terminal, after its `status' found a terminal record.            *)

DeleteOpen(h) ==
  /\ ctl[h].pc = "dopen"
  /\ IF "lock" \in files[ctl[h].at] THEN Goto(h, "dwait") ELSE Return(h)
  /\ UNCHANGED <<files, record, lock, runner, command, members, boot>>

DeleteLock_Skipped(h) ==
  LET j == ctl[h].at
  IN
  /\ ctl[h].pc = "dwait"
  /\ Goto(h, "dscan")
  /\ UNCHANGED <<files, record, lock, runner, command, members, boot>>

DeleteLock(h) ==
  LET j == ctl[h].at
  IN
  /\ ctl[h].pc = "dwait"
  /\ lock[j] = None
  /\ lock' = [lock EXCEPT ![j] = h]
  /\ Goto(h, "dscan")
  /\ UNCHANGED <<files, record, runner, command, members, boot>>

(* An entry of another name, such as a staged record, refuses deletion. *)
DeleteScan(h) ==
  LET j == ctl[h].at
  IN
  /\ ctl[h].pc = "dscan"
  /\ IF "temp" \in files[j]
     THEN lock' = [lock EXCEPT ![j] = None] /\ Return(h)
     ELSE UNCHANGED lock /\ Become(h, [ctl[h] EXCEPT !.pc = "unlink", !.left = 4])
  /\ UNCHANGED <<files, record, runner, command, members, boot>>

UnlinkOrder == <<"lock", "state", "request", "cancel">>

DeleteFile(h) ==
  LET c == ctl[h]
      name == UnlinkOrder[c.left]
  IN
  /\ c.pc = "unlink"
  /\ files' = [files EXCEPT ![c.at] = @ \ {name}]
  /\ record' = IF name = "state" THEN [record EXCEPT ![c.at] = NoRecord] ELSE record
  /\ Become(h, [c EXCEPT !.left = @ - 1, !.pc = IF c.left = 1 THEN "rmdir" ELSE "unlink"])
  /\ UNCHANGED <<lock, runner, command, members, boot>>

(* The lock is dropped, then the directory is removed if it is empty. *)
DeleteDirectory(h) ==
  LET c == ctl[h]
      j == c.at
  IN
  /\ c.pc = "rmdir"
  /\ lock' = [lock EXCEPT ![j] = IF @ = h THEN None ELSE @]
  /\ IF files[j] = {"dir"}
     THEN /\ files' = [files EXCEPT ![j] = {}]
          /\ Become(h, IF c.phase = "expire" THEN Onward(c) ELSE Idle)
     ELSE Return(h) /\ UNCHANGED files
  /\ UNCHANGED <<record, runner, command, members, boot>>

-----------------------------------------------------------------------------
(* start_job: create, spawn the runner, wait two seconds for READY.        *)

create(h) ==
  LET j == ctl[h].job
      Adds(from, names, to) ==
        /\ ctl[h].pc = from
        /\ files' = [files EXCEPT ![j] = @ \cup names]
        /\ Goto(h, to)
  IN
  /\ \/ Adds("mkdir", {"dir"}, "files") /\ UNCHANGED record
     \/ Adds("files", {"request", "lock"}, "create") /\ UNCHANGED record
     \/ /\ Adds("create", {"state"}, "fill")
        /\ record' = [record EXCEPT ![j].state = "partial"]
     \/ /\ Adds("fill", {}, "spawn")
        /\ record' = [record EXCEPT ![j] = [state |-> "starting", boot |-> boot]]
  /\ UNCHANGED <<lock, runner, command, members, boot>>

(* An error while the directory is made removes it again. *)
CreateFails(h) ==
  LET j == ctl[h].job
  IN
  /\ "io" \in Faults
  /\ ctl[h].pc \in {"files", "create", "fill"}
  /\ files' = [files EXCEPT ![j] = {}]
  /\ record' = [record EXCEPT ![j] = NoRecord]
  /\ Return(h)
  /\ UNCHANGED <<lock, runner, command, members, boot>>

SpawnRunner(h) ==
  /\ ctl[h].pc = "spawn"
  /\ runner' = [runner EXCEPT ![ctl[h].job] = [pc |-> "spawned", outcome |-> "none", parent |-> h]]
  /\ Goto(h, "ready")
  /\ UNCHANGED <<files, record, lock, command, members, boot>>

(* The error leaves the directory as it is. *)
SpawnFails(h) ==
  /\ "io" \in Faults
  /\ ctl[h].pc = "spawn"
  /\ Return(h)
  /\ UNCHANGED <<files, record, lock, runner, command, members, boot>>

(* The runner ended without READY, or two seconds have passed. *)
ReadyFails(h) ==
  /\ ctl[h].pc = "ready"
  /\ ~Alive(ctl[h].job) \/ "slow" \in Faults
  /\ Return(h)
  /\ UNCHANGED <<files, record, lock, runner, command, members, boot>>

-----------------------------------------------------------------------------
(* run_job: the runner process.                                            *)

Step(j, from, to) ==
  /\ runner[j].pc = from
  /\ runner' = [runner EXCEPT ![j].pc = to]

(* The runner is no more: its lock is free, init adopts and reaps its      *)
(* command.  Its own parent, if it still runs, does not wait for it.       *)
Ends(j) ==
  /\ runner' = [runner EXCEPT ![j].pc = IF runner[j].parent = None THEN "gone" ELSE "zombie"]
  /\ lock' = [lock EXCEPT ![j] = IF @ = "runner" THEN None ELSE @]
  /\ command' = [command EXCEPT ![j] = IF @ = "zombie" THEN "gone" ELSE @]

RunnerLock(j) ==
  /\ runner[j].pc = "spawned"
  /\ IF "lock" \in files[j] /\ lock[j] = None
     THEN /\ Step(j, "spawned", "locked")
          /\ lock' = [lock EXCEPT ![j] = "runner"]
          /\ UNCHANGED command
     ELSE Ends(j)
  /\ UNCHANGED <<files, record, ctl, members, boot>>

RunnerSpawns(j) ==
  /\ Step(j, "locked", "feeding")
  /\ command' = [command EXCEPT ![j] = "alive"]
  /\ UNCHANGED <<files, record, lock, ctl, members, boot>>

(* A failure of the runner's own: its command is not found, or does not    *)
(* read its stdin.                                                         *)
RunnerFails(j) ==
  /\ \/ "io" \in Faults /\ runner[j].pc = "locked"
     \/ "stdin" \in Faults /\ runner[j].pc = "feeding"
  /\ Ends(j)
  /\ UNCHANGED <<files, record, ctl, members, boot>>

(* All of stdin is written before `running' is recorded. *)
RunnerStages(j) ==
  /\ Step(j, "feeding", "staged") \/ Step(j, "ending", "endstaged")
  /\ files' = [files EXCEPT ![j] = @ \cup {"temp"}]
  /\ UNCHANGED <<record, lock, ctl, command, members, boot>>

Installs(j, state) ==
  /\ files' = [files EXCEPT ![j] = (@ \ {"temp"}) \cup {"state"}]
  /\ record' = [record EXCEPT ![j] = [state |-> state, boot |-> boot]]

RunnerRecords(j) ==
  /\ \/ Step(j, "staged", "recorded") /\ Installs(j, "running")
     \/ Step(j, "endstaged", "leaving") /\ Installs(j, runner[j].outcome)
  /\ UNCHANGED <<lock, ctl, command, members, boot>>

(* READY goes to the helper that waits for it; if it has given up the pipe *)
(* is closed and the runner fails.                                         *)
RunnerReady(j) ==
  /\ runner[j].pc = "recorded"
  /\ \/ \E h \in Helper :
          /\ ctl[h].pc = "ready" /\ ctl[h].job = j
          /\ Become(h, [ctl[h] EXCEPT !.pc = "read", !.at = j])
          /\ Step(j, "recorded", "watching")
          /\ UNCHANGED <<lock, command>>
     \/ /\ \A h \in Helper : ~(ctl[h].pc = "ready" /\ ctl[h].job = j)
        /\ Ends(j) /\ UNCHANGED ctl
  /\ UNCHANGED <<files, record, members, boot>>

RunnerReaps(j) ==
  /\ runner[j].pc \in {"watching", "killing"}
  /\ command[j] = "zombie"
  /\ command' = [command EXCEPT ![j] = "gone"]
  /\ runner' = [runner EXCEPT ![j].pc = "draining",
                              ![j].outcome = IF @ = "none" THEN "ended" ELSE @]
  /\ UNCHANGED <<files, record, lock, ctl, members, boot>>

(* SIGTERM to the process group, after the cancel file or the timeout. *)
RunnerTerminates_AtOnce(j) ==
  /\ runner[j].pc = "watching"
  /\ \E outcome \in {"cancelled", "timedout"} :
       /\ outcome = "cancelled" => "cancel" \in files[j]
       /\ outcome = "timedout" => "timeout" \in Faults
       /\ runner' = [runner EXCEPT ![j].pc = "draining", ![j].outcome = outcome]
  /\ UNCHANGED <<files, record, lock, ctl, command, members, boot>>

RunnerTerminates(j) ==
  /\ runner[j].pc = "watching"
  /\ \E outcome \in {"cancelled", "timedout"} :
       /\ outcome = "cancelled" => "cancel" \in files[j]
       /\ outcome = "timedout" => "timeout" \in Faults
       /\ runner' = [runner EXCEPT ![j].pc = "killing", ![j].outcome = outcome]
  /\ UNCHANGED <<files, record, lock, ctl, command, members, boot>>

(* wait_after_signal: SIGKILL to the group when its leader has not ended   *)
(* in five seconds.                                                        *)
RunnerKills_Never(j) == FALSE /\ UNCHANGED vars

RunnerKills(j) ==
  /\ runner[j].pc = "killing" /\ command[j] \in {"alive", "zombie"}
  /\ command' = [command EXCEPT ![j] = "zombie"]
  /\ members' = [members EXCEPT ![j] = "none"]
  /\ UNCHANGED <<files, record, lock, ctl, runner, boot>>

(* join_drain: until every process that holds the pipes has ended. *)
RunnerDrains(j) ==
  /\ members[j] # "holding"
  /\ Step(j, "draining", "ending")
  /\ UNCHANGED <<files, record, lock, ctl, command, members, boot>>

RunnerExits(j) ==
  /\ runner[j].pc = "leaving"
  /\ Ends(j)
  /\ UNCHANGED <<files, record, ctl, members, boot>>

-----------------------------------------------------------------------------
(* Environment.                                                            *)

(* The command ends by itself or of SIGTERM; without a runner init reaps it. *)
CommandExits(j) ==
  /\ command[j] = "alive"
  /\ command' = [command EXCEPT ![j] = IF Alive(j) THEN "zombie" ELSE "gone"]
  /\ UNCHANGED <<files, record, lock, ctl, runner, members, boot>>

(* It leaves processes in its group, which hold its output or not. *)
CommandForks(j, kind) ==
  /\ kind = "silent" => "fork" \in Faults
  /\ kind = "holding" => "hold" \in Faults
  /\ command[j] = "alive" /\ members[j] = "none"
  /\ members' = [members EXCEPT ![j] = kind]
  /\ UNCHANGED <<files, record, lock, ctl, runner, command, boot>>

MembersEnd(j) ==
  /\ members[j] # "none"
  /\ members' = [members EXCEPT ![j] = "none"]
  /\ UNCHANGED <<files, record, lock, ctl, runner, command, boot>>

(* A helper ends, with its session or by a crash, wherever it is. *)
HelperEnds(h) ==
  /\ "helper" \in Faults
  /\ Return(h)
  /\ lock' = [j \in Job |-> IF lock[j] = h THEN None ELSE lock[j]]
  /\ runner' = [j \in Job |->
       IF runner[j].parent # h THEN runner[j]
       ELSE [runner[j] EXCEPT !.parent = None, !.pc = IF @ = "zombie" THEN "gone" ELSE @]]
  /\ UNCHANGED <<files, record, command, members, boot>>

RunnerCrash(j) ==
  /\ "runner" \in Faults
  /\ Alive(j)
  /\ Ends(j)
  /\ UNCHANGED <<files, record, ctl, members, boot>>

Reboot ==
  /\ "reboot" \in Faults
  /\ boot < MaxBoot
  /\ boot' = boot + 1
  /\ ctl' = [h \in Helper |-> Idle]
  /\ lock' = [j \in Job |-> None]
  /\ runner' = [j \in Job |-> IF runner[j].pc = "none" THEN NoRunner
                              ELSE [runner[j] EXCEPT !.pc = "gone", !.parent = None]]
  /\ command' = [j \in Job |-> IF command[j] = "none" THEN "none" ELSE "gone"]
  /\ members' = [j \in Job |-> "none"]
  /\ UNCHANGED <<files, record>>

-----------------------------------------------------------------------------
ControlStep(h) ==
  \/ Walk(h) \/ read_state(h) \/ reconcile_state(h)
  \/ ReconcileLock(h) \/ ReconcileAgain(h) \/ ReconcileLost(h)
  \/ cancel(h)
  \/ DeleteOpen(h) \/ DeleteLock(h) \/ DeleteScan(h) \/ DeleteFile(h) \/ DeleteDirectory(h)
  \/ create(h) \/ SpawnRunner(h)

ControlFault(h) == CreateFails(h) \/ SpawnFails(h) \/ ReadyFails(h) \/ HelperEnds(h)

RunnerStep(j) ==
  \/ RunnerLock(j) \/ RunnerSpawns(j) \/ RunnerStages(j)
  \/ RunnerRecords(j) \/ RunnerReady(j) \/ RunnerReaps(j) \/ RunnerTerminates(j)
  \/ RunnerKills(j) \/ RunnerDrains(j) \/ RunnerExits(j)

Environment(j) ==
  \/ RunnerFails(j) \/ RunnerCrash(j)
  \/ CommandExits(j) \/ MembersEnd(j)
  \/ \E kind \in {"holding", "silent"} : CommandForks(j, kind)

Next ==
  \/ \E h \in Helper : ControlStep(h) \/ ControlFault(h)
  \/ \E h \in Helper, op \in AllOps, j \in Job : execute_control(h, op, j)
  \/ \E j \in Job : RunnerStep(j) \/ Environment(j)
  \/ Reboot

Spec == Init /\ [][Next]_vars

(* The runner is an ordinary process that the kernel schedules; nothing is *)
(* promised of its command.                                                *)
FairSpec == Spec /\ \A j \in Job : WF_vars(RunnerStep(j))

-----------------------------------------------------------------------------
(* Every variable holds a value of its kind; a record says "none" exactly  *)
(* when there is no state file.                                            *)
TypeOK ==
  /\ files \in [Job -> SUBSET File]
  /\ record \in [Job -> Record]
  /\ lock \in [Job -> Helper \cup {"runner", None}]
  /\ ctl \in [Helper -> Request]
  /\ runner \in [Job -> [pc : RunnerPC, parent : Helper \cup {None},
                         outcome : {"none", "ended", "cancelled", "timedout"}]]
  /\ command \in [Job -> {"none", "alive", "zombie", "gone"}]
  /\ members \in [Job -> {"none", "holding", "silent"}]
  /\ boot \in 1 .. MaxBoot
  /\ \A j \in Job : record[j].state = "none" <=> "state" \notin files[j]

(* A terminal record is final until its job is deleted: the runner writes  *)
(* exactly one, and a concurrent reconcile_state does not replace it, nor  *)
(* does the runner replace `lost'.                                         *)
TerminalIsFinal ==
  [][\A j \in Job : record[j].state \in Terminal =>
       record'[j] \in {record[j], NoRecord}]_vars

(* Ended, cancelled and timed out are recorded of a command that has been  *)
(* reaped, whatever race of cancel file, timeout and exit led there.       *)
OutcomeIsTrue ==
  \A j \in Job : record[j].state \in {"ended", "cancelled", "timedout"} =>
    command[j] = "gone"

(* Retention and deletion leave a job alone until its runner has ended     *)
(* (delete_terminal waits for the runner's lock).                          *)
SupervisedIsKept ==
  \A j \in Job : Alive(j) => {"dir", "request", "lock", "state"} \subseteq files[j]

(* A runner that has seen a cancel file in time ends its job, also against *)
(* a command that ignores SIGTERM.                                         *)
CancelSettles ==
  \A j \in Job :
    (runner[j].pc = "watching" /\ "cancel" \in files[j]) ~> ~Alive(j)

=============================================================================
