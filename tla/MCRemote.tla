------------------------------ MODULE MCRemote ------------------------------
(***************************************************************************)
(* What runs commands on the remote host, for TLC: the shell dispatcher    *)
(* with two requests, of which the first may leave any kind of process     *)
(* behind, has a time limit, and may be cancelled; or the runner of a job  *)
(* that keeps three bytes of output, with a reader of its logs.  The two   *)
(* have no state in common, so that a behaviour is of one of them.         *)
(***************************************************************************)
EXTENDS Dispatcher, JobLogs

MCRequests == 1 .. 2
MCLeaves == [r \in MCRequests |-> IF r = 1 THEN Offspring ELSE {"none"}]
MCTimed == {1}
MCImpatient == {1}

VARIABLE part

MCInit == DispatcherInit /\ LogsInit /\ part \in {"dispatcher", "logs"}

MCNext ==
    \/ part = "dispatcher" /\ DispatcherNext /\ UNCHANGED <<part, logVars>>
    \/ part = "logs" /\ LogsNext /\ UNCHANGED <<part, dispatcherVars>>

\* No step of the dispatcher is due before it has read a frame, so that its
\* fairness asks nothing of the other part.
MCFairSpec == MCInit /\ [][MCNext]_<<part, dispatcherVars, logVars>> /\ DispatcherFairness

=============================================================================
