----------------------------- MODULE Dispatcher -----------------------------
(***************************************************************************)
(* The shell dispatcher, src/ssh/dispatcher.sh: the remote end of a        *)
(* session on a host where the Rust helper does not run.  The main loop    *)
(* reads frames; a subshell per request starts the command in a process    *)
(* group of its own, waits for it and answers; two collectors (one stands  *)
(* for both) read its output; a watchdog ends it when its time is over.    *)
(* They share nothing but a directory per request and the files in it: the *)
(* mark of a cancellation, the pid of the group, the mark of the watchdog, *)
(* the marks of the collectors.  Frames are sent under a lock directory,   *)
(* each in one step here.                                                  *)
(***************************************************************************)
EXTENDS Naturals

CONSTANTS
    Requests,
    Leaves,    \* request -> what its command may leave behind
    Timed,     \* requests that may have a time limit
    Impatient  \* requests the host may cancel

\* In the group, "output" holds the output pipes and "quiet" does not; in a
\* group of its own, "escaped" holds them and "daemon" does not.
InGroup == {"output", "quiet"}
Escaped == {"escaped", "daemon"}
HoldsPipes == {"output", "escaped"}
Offspring == {"none"} \cup InGroup \cup Escaped

ASSUME RequestsAssumption ==
    /\ 0 \notin Requests
    /\ Leaves \in [Requests -> SUBSET Offspring]

VARIABLES
    main,       \* the main loop, see MainStates
    about,      \* the request the main loop deals with, or 0
    opened,     \* requests whose OPEN was read
    asked,      \* requests whose CANCEL was read
    dir,        \* requests that have a directory
    cancelled,  \* requests with the file `cancelled'
    pidfile,    \* the file `pid': "none", "empty" or "written"
    worker,     \* the subshell of the request
    doomed,     \* the worker saw the cancellation before it started the command
    shell,      \* the shell of the command
    child,      \* what it left behind: see Offspring
    collected,  \* requests whose collectors have marked the end of the output
    watchdog,   \* "none", "armed", "fired", "over"
    killer,     \* requests with a KILL on its way (cancellation or clean-up)
    may,        \* "the process may continue", as the worker found it
    whole,      \* requests whose output was complete when it was sent
    sent        \* the last frame of the request: "none", "error", "ready", "exit"

files == <<dir, cancelled, pidfile, collected>>
command == <<shell, child, watchdog, killer>>
answer == <<doomed, may, whole, sent>>
dispatcherVars == <<main, about, opened, asked, files, worker, command, answer>>

MainStates == {"reading", "opening", "marking", "killing", "dying", "removing", "ended"}

StillReads == main \notin {"dying", "removing", "ended"}
GroupAlive(r) == shell[r] \in {"started", "running"} \/ child[r] \in InGroup

DispatcherInit ==
    /\ main = "reading" /\ about = 0 /\ opened = {} /\ asked = {}
    /\ dir = {} /\ cancelled = {} /\ collected = {}
    /\ pidfile = [r \in Requests |-> "none"]
    /\ worker = [r \in Requests |-> "none"]
    /\ doomed = {} /\ whole = {} /\ killer = {}
    /\ shell = [r \in Requests |-> "none"]
    /\ child = [r \in Requests |-> "none"]
    /\ watchdog = [r \in Requests |-> "none"]
    /\ may = [r \in Requests |-> FALSE]
    /\ sent = [r \in Requests |-> "none"]

Signals(r, sig) ==
    /\ shell' = [shell EXCEPT ![r] = IF @ \in {"started", "running"} THEN "dead" ELSE @]
    /\ \E left \in {child[r], "none"} :
        /\ left = "none" \/ sig = "TERM" \/ child[r] \in Escaped
        /\ (child[r] \in Escaped) => left = child[r]
        /\ child' = [child EXCEPT ![r] = left]

\* kill -TERM of the group, and KILL from a process of its own 50 ms later.
KillGroup(r) == Signals(r, "TERM") /\ killer' = killer \cup {r} /\ UNCHANGED watchdog

\* rm -rf of the directory, with every file in it.
RemoveDir(r) ==
    /\ dir' = dir \ {r} /\ cancelled' = cancelled \ {r} /\ collected' = collected \ {r}
    /\ pidfile' = [pidfile EXCEPT ![r] = "none"]

-----------------------------------------------------------------------------
(* The main loop.                                                          *)

ReadOpen(r) ==
    /\ main = "reading" /\ r \notin opened /\ opened' = opened \cup {r}
    /\ dir' = dir \cup {r} /\ main' = "opening" /\ about' = r
    /\ UNCHANGED <<asked, cancelled, pidfile, collected, worker, command, answer>>

\* Directory, command and input arrived: the worker is on its own.
OpenAccepted(r) ==
    /\ main = "opening" /\ about = r
    /\ worker' = [worker EXCEPT ![r] = "begun"]
    /\ main' = "reading" /\ about' = 0
    /\ UNCHANGED <<opened, asked, files, command, answer>>

OpenRejected(r) ==
    /\ main = "opening" /\ about = r
    /\ sent' = [sent EXCEPT ![r] = "error"] /\ RemoveDir(r)
    /\ main' = "reading" /\ about' = 0
    /\ UNCHANGED <<opened, asked, worker, command, doomed, may, whole>>

OpenCut(r) ==
    /\ main = "opening" /\ about = r /\ RemoveDir(r)
    /\ main' = "dying" /\ about' = 0
    /\ UNCHANGED <<opened, asked, worker, command, answer>>

ReadCancel(r) ==
    /\ main = "reading" /\ r \in (opened \cap Impatient) \ asked /\ asked' = asked \cup {r}
    /\ IF r \in dir THEN main' = "marking" /\ about' = r
       ELSE UNCHANGED <<main, about>>
    /\ UNCHANGED <<opened, files, worker, command, answer>>

\* `: >file' is a redirection of a special built-in: a shell that cannot
\* create the file exits.
MarkCancelled(r) ==
    /\ main = "marking" /\ about = r
    /\ IF r \in dir
       THEN cancelled' = cancelled \cup {r} /\ main' = "killing" /\ UNCHANGED about
       ELSE main' = "dying" /\ about' = 0 /\ UNCHANGED cancelled
    /\ UNCHANGED <<opened, asked, dir, pidfile, collected, worker, command, answer>>

KillCancelled(r) ==
    /\ main = "killing" /\ about = r /\ main' = "reading" /\ about' = 0
    /\ IF pidfile[r] = "written" THEN KillGroup(r) ELSE UNCHANGED command
    /\ UNCHANGED <<opened, asked, files, worker, answer>>

\* CLOSE, the end of the input, or a frame that makes no sense.
InputEnds ==
    /\ main = "reading" /\ main' = "dying"
    /\ UNCHANGED <<about, opened, asked, files, worker, command, answer>>

\* cleanup, the EXIT trap: a group whose pid is known is killed.
CleanupKill(r) ==
    /\ main = "dying" /\ r \in dir /\ main' = "removing" /\ about' = r
    /\ IF pidfile[r] = "written" THEN KillGroup(r) ELSE UNCHANGED command
    /\ UNCHANGED <<opened, asked, files, worker, answer>>

CleanupRemove(r) ==
    /\ main = "removing" /\ about = r /\ RemoveDir(r)
    /\ main' = "dying" /\ about' = 0
    /\ UNCHANGED <<opened, asked, worker, command, answer>>

CleanupEnds ==
    /\ main = "dying" /\ dir = {} /\ main' = "ended"
    /\ UNCHANGED <<about, opened, asked, files, worker, command, answer>>

Main(r) == \/ OpenAccepted(r) \/ OpenRejected(r) \/ OpenCut(r) \/ MarkCancelled(r)
           \/ KillCancelled(r) \/ CleanupKill(r) \/ CleanupRemove(r) \/ CleanupEnds

-----------------------------------------------------------------------------
(* The command, its watchdog and its collectors.                           *)

\* The group leader writes its pid before it becomes the command.
WritesPid(r) ==
    /\ shell[r] = "forked"
    /\ IF r \notin dir THEN shell' = [shell EXCEPT ![r] = "dead"] /\ UNCHANGED pidfile
       ELSE /\ shell' = [shell EXCEPT ![r] = "started"]
            /\ pidfile' = [pidfile EXCEPT ![r] = "empty"]
    /\ UNCHANGED <<main, about, opened, asked, dir, cancelled, collected, worker,
                   child, watchdog, killer, answer>>

Becomes(r) ==
    /\ shell[r] = "started"
    /\ shell' = [shell EXCEPT ![r] = IF r \in doomed THEN "dead" ELSE "running"]
    /\ pidfile' = [pidfile EXCEPT ![r] = IF r \in dir THEN "written" ELSE @]
    /\ UNCHANGED <<main, about, opened, asked, dir, cancelled, collected, worker,
                   child, watchdog, killer, answer>>

CommandEnds(r) ==
    /\ shell[r] = "running" /\ shell' = [shell EXCEPT ![r] = "dead"]
    /\ \E c \in Leaves[r] : child' = [child EXCEPT ![r] = c]
    /\ UNCHANGED <<main, about, opened, asked, files, worker, watchdog, killer, answer>>

ChildEnds(r) ==
    /\ child[r] # "none" /\ child' = [child EXCEPT ![r] = "none"]
    /\ UNCHANGED <<main, about, opened, asked, files, worker, shell, watchdog, killer, answer>>

PipesClosed(r) == shell[r] = "dead" /\ child[r] \notin HoldsPipes

\* copy_capped reads to the end of the output, which is when nobody holds
\* the pipe any more, and marks it.
Collects(r) ==
    /\ PipesClosed(r) /\ r \in dir \ collected
    /\ collected' = collected \cup {r}
    /\ UNCHANGED <<main, about, opened, asked, dir, cancelled, pidfile, worker, command, answer>>

KillArrives(r) ==
    /\ r \in killer /\ killer' = killer \ {r} /\ Signals(r, "KILL")
    /\ UNCHANGED <<main, about, opened, asked, files, worker, watchdog, answer>>

WatchdogFires(r) ==
    /\ watchdog[r] = "armed"
    /\ IF GroupAlive(r)
       THEN Signals(r, "TERM") /\ watchdog' = [watchdog EXCEPT ![r] = "fired"]
       ELSE watchdog' = [watchdog EXCEPT ![r] = "over"] /\ UNCHANGED <<shell, child>>
    /\ UNCHANGED <<main, about, opened, asked, files, worker, killer, answer>>

WatchdogKills(r) ==
    /\ watchdog[r] = "fired" /\ Signals(r, "KILL")
    /\ watchdog' = [watchdog EXCEPT ![r] = "over"]
    /\ UNCHANGED <<main, about, opened, asked, files, worker, killer, answer>>

-----------------------------------------------------------------------------
(* The worker of a request, run_request.                                   *)

Moves(r, from, to) ==
    /\ worker[r] = from /\ worker' = [worker EXCEPT ![r] = to]
    /\ UNCHANGED <<main, about, opened, asked>>

\* A cancellation that came this early replaces the command.
LooksForCancel(r) ==
    /\ Moves(r, "begun", "checked")
    /\ doomed' = IF r \in cancelled THEN doomed \cup {r} ELSE doomed
    /\ UNCHANGED <<files, command, may, whole, sent>>

Forks(r) ==
    /\ Moves(r, "checked", "waiting for pid")
    /\ shell' = [shell EXCEPT ![r] = "forked"]
    /\ UNCHANGED <<files, child, watchdog, killer, answer>>

ReadsPid(r) ==
    /\ pidfile[r] = "written" /\ Moves(r, "waiting for pid", "started")
    /\ UNCHANGED <<files, command, answer>>

\* The directory is gone, and with it the pid: the worker tries for a while.
GivesUpOnPid(r) ==
    /\ r \notin dir /\ Moves(r, "waiting for pid", "gone")
    /\ UNCHANGED <<files, command, answer>>

LooksAgain_NotAtAll(r) ==
    /\ Moves(r, "started", "ready")
    /\ UNCHANGED <<files, command, answer>>

\* A cancellation that came before there was a pid.
LooksAgain(r) ==
    /\ Moves(r, "started", "ready")
    /\ IF r \in cancelled THEN KillGroup(r) ELSE UNCHANGED command
    /\ UNCHANGED <<files, answer>>

\* READY; a request with a time limit gets a watchdog.
SendsReady(r) ==
    /\ Moves(r, "ready", "waiting")
    /\ sent' = [sent EXCEPT ![r] = "ready"]
    /\ \E w \in IF r \in Timed THEN {"none", "armed"} ELSE {"none"} :
           watchdog' = [watchdog EXCEPT ![r] = w]
    /\ UNCHANGED <<files, shell, child, killer, doomed, may, whole>>

\* The command has ended.  While its group lives, the collectors have a
\* bounded time to finish; if it does not, they have all the time they need.
Reaps(r) ==
    /\ shell[r] = "dead"
    /\ Moves(r, "waiting", IF GroupAlive(r) THEN "draining" ELSE "collecting")
    /\ UNCHANGED <<files, command, answer>>

DrainEnds(r) ==
    /\ Moves(r, "draining", "drained")
    /\ UNCHANGED <<files, command, answer>>

CollectEnds(r) ==
    /\ PipesClosed(r) /\ (r \in dir => r \in collected)
    /\ Moves(r, "collecting", "drained")
    /\ UNCHANGED <<files, command, answer>>

StopsWatchdog(r) ==
    /\ Moves(r, "drained", "settling")
    /\ watchdog' = [watchdog EXCEPT ![r] = IF @ = "none" THEN @ ELSE "over"]
    /\ UNCHANGED <<files, shell, child, killer, answer>>

\* What the EXIT frame will say: an unfinished collector, or a living group.
MayContinue_GroupOnly(r) == GroupAlive(r)

MayContinue(r) == r \notin collected \/ GroupAlive(r)

Settles(r) ==
    /\ Moves(r, "settling", "sending")
    /\ may' = [may EXCEPT ![r] = MayContinue(r)]
    /\ UNCHANGED <<files, command, doomed, whole, sent>>

\* STDOUT and STDERR, as far as the collectors have them, and EXIT: frames
\* are made in the directory, and a worker without one ends.
SendsExit(r) ==
    /\ Moves(r, "sending", IF r \in dir THEN "sweeping" ELSE "gone")
    /\ whole' = IF r \in collected THEN whole \cup {r} ELSE whole
    /\ sent' = [sent EXCEPT ![r] = IF r \in dir THEN "exit" ELSE @]
    /\ UNCHANGED <<files, command, doomed, may>>

\* The directory goes once the collectors are at the end.
Sweeps(r) ==
    /\ (r \in dir => r \in collected) /\ Moves(r, "sweeping", "gone")
    /\ RemoveDir(r) /\ UNCHANGED <<command, answer>>

Worker(r) ==
    \/ LooksForCancel(r) \/ Forks(r) \/ ReadsPid(r) \/ GivesUpOnPid(r)
    \/ LooksAgain(r) \/ SendsReady(r) \/ Reaps(r) \/ DrainEnds(r) \/ CollectEnds(r)
    \/ StopsWatchdog(r) \/ Settles(r) \/ SendsExit(r) \/ Sweeps(r)

Steps(r) ==
    \/ Main(r) \/ Worker(r) \/ WritesPid(r) \/ Becomes(r) \/ Collects(r)
    \/ KillArrives(r) \/ WatchdogFires(r) \/ WatchdogKills(r)

\* What nothing makes happen: frames of the host, and the command itself.
Outside(r) == ReadOpen(r) \/ ReadCancel(r) \/ CommandEnds(r) \/ ChildEnds(r)

DispatcherNext == InputEnds \/ \E r \in Requests : Steps(r) \/ Outside(r)

DispatcherSpec == DispatcherInit /\ [][DispatcherNext]_dispatcherVars

\* Processes the kernel schedules; no frame, command or left-behind process
\* need come to an end.
DispatcherFairness ==
    \A r \in Requests :
        /\ WF_dispatcherVars(Main(r)) /\ WF_dispatcherVars(Worker(r))
        /\ WF_dispatcherVars(WritesPid(r) \/ Becomes(r)) /\ WF_dispatcherVars(Collects(r))
        /\ WF_dispatcherVars(KillArrives(r))
        /\ WF_dispatcherVars(WatchdogFires(r) \/ WatchdogKills(r))

DispatcherFairSpec == DispatcherSpec /\ DispatcherFairness

-----------------------------------------------------------------------------
(* Properties.                                                             *)

\* An EXIT frame that does not say that the process may continue is the end of
\* the process group and of the output: nothing runs in the group, nothing
\* anywhere holds the output pipes, and all of the output was sent.  It says
\* nothing of a process that left both, a `setsid' with its output elsewhere:
\* such a "daemon" may run on.
\* (dispatcher.sh:509-545, the fourth field of EXIT)
ExitIsTrue ==
    \A r \in Requests : (sent[r] = "exit" /\ ~may[r]) =>
        /\ ~GroupAlive(r) /\ child[r] \notin HoldsPipes
        /\ r \in whole

\* A marked cancellation ends the command, whenever it came: before the
\* command was started, before its pid was known, or later; and unless a
\* process escaped with its pipes, the request gets its EXIT.  (An EXIT that
\* crosses the cancellation says that something may be left.)
\* (dispatcher.sh:395, 433, 695-711)
CancelReaches ==
    \A r \in Requests : (r \in cancelled) ~>
        \/ ~GroupAlive(r) /\ shell[r] = "dead" /\ (sent[r] = "exit" \/ child[r] = "escaped")
        \/ sent[r] = "exit" /\ may[r]
        \/ ~StillReads

=============================================================================
