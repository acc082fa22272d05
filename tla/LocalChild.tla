------------------------------- MODULE LocalChild -------------------------------
(***************************************************************************)
(* SshRunner::run_child: one local ssh process that resolves or probes a   *)
(* host (ssh/process.rs).  Three tasks write its input, capture its output *)
(* and wait for it; the call selects over them and over what can stop it.  *)
(* A process that ssh left behind may keep the pipes open.                 *)
(***************************************************************************)
EXTENDS Naturals

VARIABLES
  purpose,  \* Phase: "resolve" or "probe"
  at,       \* where run_child is
  process,  \* the process group: running, told to end, ended; or waited for
  pipes,    \* a process outside of the group holds the pipes
  status,   \* the status of the child was taken from wait_task
  capture,  \* capture_task: at work, ended, taken, or aborted
  stdin,    \* the task of write_stdin, likewise
  stop,     \* why the loop was left
  outcome   \* what run_child returned

vars == <<purpose, at, process, pipes, status, capture, stdin, stop, outcome>>

Task == {"working", "ended", "failed", "limit", "taken", "aborted"}

TypeOK ==
  /\ purpose \in {"resolve", "probe"}
  /\ at \in {"start", "select", "terminate", "kill", "wait", "drain", "returned", "dropped"}
  /\ process \in {"none", "running", "termed", "ended"}
  /\ pipes \in BOOLEAN /\ status \in BOOLEAN
  /\ capture \in Task /\ stdin \in Task
  /\ stop \in {"none", "completed", "cancelled", "limit", "deadline", "internal"}
  /\ outcome \in {"none", "output", "exit", "cancelled", "limit", "deadline", "internal"}

Init ==
  /\ purpose \in {"resolve", "probe"}
  /\ at = "start" /\ process = "none" /\ pipes \in BOOLEAN /\ status = FALSE
  /\ capture = "working" /\ stdin = "working"
  /\ stop = "none" /\ outcome = "none"

Start ==
  /\ at = "start"
  /\ \/ at' = "select" /\ process' = "running" /\ UNCHANGED outcome
     \* Cancelled already, or ssh cannot be started.
     \/ at' = "returned" /\ outcome' \in {"cancelled", "internal"} /\ UNCHANGED process
  /\ UNCHANGED <<purpose, pipes, status, capture, stdin, stop>>

-----------------------------------------------------------------------------
(* The process and the tasks *)

ProcessEnds ==
  /\ process \in {"running", "termed"}
  /\ process' = "ended"
  /\ UNCHANGED <<purpose, at, pipes, status, capture, stdin, stop, outcome>>

\* The pipes close with the process, unless somebody else has them too.
Closed == process = "ended" /\ ~pipes

\* write_stdin; a pipe that nobody reads any more is an error.
WritesStdin ==
  /\ at # "start" /\ stdin = "working"
  /\ stdin' \in {"ended"} \cup (IF process = "ended" THEN {"failed"} ELSE {})
  /\ UNCHANGED <<purpose, at, process, pipes, status, capture, stop, outcome>>

\* OutputStore::capture_with_limit_signal ends with the output, at its limit,
\* by a cancellation, or when its store fails.
Captures ==
  /\ at # "start" /\ capture = "working"
  /\ capture' \in {"limit", "failed"} \cup (IF Closed THEN {"ended"} ELSE {})
  /\ UNCHANGED <<purpose, at, process, pipes, status, stdin, stop, outcome>>

-----------------------------------------------------------------------------
(* The loop *)

Stops(why) ==
  /\ stop' = why
  /\ at' = IF why = "completed" THEN "drain" ELSE "terminate"

\* The arms of the select; a completion needs all three.
TakeStatus ==
  /\ at = "select" /\ ~status /\ process = "ended"
  /\ status' = TRUE
  /\ IF capture = "taken" /\ stdin = "taken" THEN Stops("completed") ELSE UNCHANGED <<at, stop>>
  /\ UNCHANGED <<purpose, process, pipes, capture, stdin, outcome>>

TakeCapture ==
  /\ at = "select" /\ capture \in {"ended", "failed", "limit"}
  /\ capture' = "taken"
  /\ IF capture = "limit" THEN Stops("limit")
     ELSE IF capture = "failed" THEN Stops("internal")
     ELSE IF status /\ stdin = "taken" THEN Stops("completed") ELSE UNCHANGED <<at, stop>>
  /\ UNCHANGED <<purpose, process, pipes, status, stdin, outcome>>

TakeStdin ==
  /\ at = "select" /\ stdin \in {"ended", "failed"}
  /\ stdin' = "taken"
  /\ IF stdin = "failed" THEN Stops("internal")
     ELSE IF status /\ capture = "taken" THEN Stops("completed") ELSE UNCHANGED <<at, stop>>
  /\ UNCHANGED <<purpose, process, pipes, status, capture, outcome>>

Cancel ==
  /\ at = "select"
  /\ Stops("cancelled")
  /\ UNCHANGED <<purpose, process, pipes, status, capture, stdin, outcome>>

Deadline ==
  /\ at = "select"
  /\ Stops("deadline")
  /\ UNCHANGED <<purpose, process, pipes, status, capture, stdin, outcome>>

\* timeout_at drops run_child: its tasks go on without it.
Dropped ==
  /\ at \in {"select", "terminate", "kill", "wait"}
  /\ at' = "dropped"
  /\ UNCHANGED <<purpose, process, pipes, status, capture, stdin, stop, outcome>>

\* terminate_process_group: TERM, a pause, KILL.
Terminate ==
  /\ at = "terminate"
  /\ process' = IF process = "running" THEN "termed" ELSE process
  /\ at' = "kill"
  /\ UNCHANGED <<purpose, pipes, status, capture, stdin, stop, outcome>>

KillGroup ==
  /\ at = "kill"
  /\ process' = "ended" /\ at' = "wait"
  /\ UNCHANGED <<purpose, pipes, status, capture, stdin, stop, outcome>>

\* finish_wait has no bound of its own.
FinishWait ==
  /\ at = "wait" /\ (status \/ process = "ended")
  /\ status' = TRUE /\ at' = "drain"
  /\ UNCHANGED <<purpose, process, pipes, capture, stdin, stop, outcome>>

\* classify_exit and failed_exit, or the error of the stop.
Outcome ==
  IF stop # "completed" THEN {stop} ELSE {"output", "exit"}

\* The drains have no grace.
Finish_Unbounded ==
  /\ at = "drain" /\ stdin # "working" /\ capture # "working"
  /\ at' = "returned" /\ outcome' \in Outcome
  /\ UNCHANGED <<purpose, process, pipes, status, capture, stdin, stop>>

\* finish_stdin_bounded and finish_capture_bounded share one DRAIN_GRACE; what
\* is still at work then is aborted.
Finish ==
  /\ at = "drain"
  /\ stdin' = IF stdin = "working" THEN "aborted" ELSE "taken"
  /\ capture' = IF capture = "working" THEN "aborted" ELSE "taken"
  /\ at' = "returned" /\ outcome' \in Outcome
  /\ UNCHANGED <<purpose, process, pipes, status, stop>>

Next ==
  \/ Start \/ ProcessEnds \/ WritesStdin \/ Captures
  \/ TakeStatus \/ TakeCapture \/ TakeStdin \/ Cancel \/ Deadline \/ Dropped
  \/ Terminate \/ KillGroup \/ FinishWait \/ Finish

Spec == Init /\ [][Next]_vars

\* The timer runs and the call is polled; neither ssh nor a pipe need ever end.
Fairness ==
  /\ WF_vars(Deadline) /\ WF_vars(Start)
  /\ WF_vars(Terminate \/ KillGroup \/ FinishWait \/ Finish)

-----------------------------------------------------------------------------
(* Properties *)

\* run_child ends although ssh, or who inherited its pipes, does not.
ChildCallEnds == at = "select" ~> at \in {"returned", "dropped"}

=============================================================================
