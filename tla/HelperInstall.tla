---------------------------- MODULE HelperInstall -----------------------------
(***************************************************************************)
(* How a session starts (ssh/session.rs, connect_with_capability) and what *)
(* the start-up script does on the remote host (ssh/helper.rs).  Each      *)
(* connection is of another bridge process: it tries the persistent        *)
(* helper, then a temporary one, then the POSIX dispatcher, all under one  *)
(* deadline.  The scripts of the persistent attempts share the helper file *)
(* and a lock that is a directory with the owner's process id in it; they  *)
(* may live on after the bridge has given them up.                         *)
(*                                                                         *)
(* Left out: reuse of process ids, two builds of one bridge version, the   *)
(* checks of the directories, and arguments that the script refuses.       *)
(***************************************************************************)
EXTENDS Integers, FiniteSets

CONSTANTS Conn,    \* connections, each made once
          Nobody,  \* no process id in the lock
          Gone,    \* a script of an earlier connection, which is dead
          Tries,   \* how often a script looks at a busy lock (30)
          Kills,   \* bound: scripts that die by a signal without a trap
          Faults   \* subset of {"term", "disk", "loader", "old", "dispatcher", "no artifact"}

ASSUME HelperInstallAssumption ==
  /\ Nobody \notin Conn /\ Gone \notin Conn /\ Gone # Nobody
  /\ Tries \in Nat \ {0} /\ Kills \in Nat
  /\ Faults \subseteq {"term", "disk", "loader", "old", "dispatcher", "no artifact"}

VARIABLES
  mode,   \* ConnectionStart of the attempt under way
  phase,  \* where connect_with_mode is
  result, \* what connect_with_capability returned
  link,   \* the ssh process of the persistent attempt runs
  said,   \* the status line of its script, as it lies in the pipe
  bytes,  \* the helper was sent in full over that link
  pc,     \* the next command of the script
  owned,  \* lock_owned of the script
  waits,  \* wait_count
  temp,   \* .helper.$$.$helper_length.tmp
  helper, \* the installed file
  ran,    \* what the script executed
  lock,   \* .install.lock: the directory, and whose id is in its pid file
  kills

local == <<mode, phase, result, link, said, bytes>>
script == <<pc, owned, waits, temp, ran>>
vars == <<local, script, helper, lock, kills>>

NoLock == [dir |-> FALSE, pid |-> Nobody]

\* The commands of the script, and the helper that it becomes.
Critical == {"record", "check", "hit unpid", "hit unlock", "upload", "digest", "install",
             "unpid", "unlock"}
Commands == {"mkdir", "busy", "stale", "stale unpid", "stale rmdir", "wait", "exit unpid",
             "exit unlock"} \cup Critical

TypeOK ==
  /\ mode \in [Conn -> {"persistent", "temporary", "shell"}]
  /\ phase \in [Conn -> {"idle", "status", "upload", "hello", "over"}]
  /\ result \in [Conn -> {"none", "ready", "failed"}]
  /\ link \in [Conn -> BOOLEAN] /\ bytes \in [Conn -> BOOLEAN]
  /\ said \in [Conn -> {"nothing", "HIT", "NEED"}]
  /\ pc \in [Conn -> Commands \cup {"none", "exec", "dead"}]
  /\ owned \in [Conn -> BOOLEAN] /\ waits \in [Conn -> 0 .. Tries]
  /\ temp \in [Conn -> {"absent", "part", "whole"}]
  /\ helper \in {"absent", "old", "part", "whole"}
  /\ ran \in [Conn -> {"nothing", "absent", "old", "part", "whole"}]
  /\ lock \in [dir : BOOLEAN, pid : Conn \cup {Nobody, Gone}]
  /\ kills \in 0 .. Kills

Init ==
  /\ mode = [c \in Conn |-> "persistent"] /\ phase = [c \in Conn |-> "idle"]
  /\ result = [c \in Conn |-> "none"]
  /\ link = [c \in Conn |-> FALSE] /\ bytes = [c \in Conn |-> FALSE]
  /\ said = [c \in Conn |-> "nothing"]
  /\ pc = [c \in Conn |-> "none"] /\ owned = [c \in Conn |-> FALSE]
  /\ waits = [c \in Conn |-> 0]
  /\ temp = [c \in Conn |-> "absent"] /\ ran = [c \in Conn |-> "nothing"]
  /\ helper \in {"absent"} \cup (Faults \cap {"old"})
  /\ lock \in {NoLock} \cup [dir : {TRUE}, pid : {Gone, Nobody}]
  /\ kills = 0

-----------------------------------------------------------------------------
(* The bridge *)

\* connect_with_mode spawns ssh.  Without an artifact for the host only the
\* dispatcher is tried.
Connect(c) ==
  /\ phase[c] = "idle"
  /\ \/ /\ phase' = [phase EXCEPT ![c] = "status"]
        /\ link' = [link EXCEPT ![c] = TRUE]
        /\ pc' = [pc EXCEPT ![c] = "mkdir"]
        /\ UNCHANGED mode
     \/ /\ "no artifact" \in Faults
        /\ phase' = [phase EXCEPT ![c] = "hello"]
        /\ mode' = [mode EXCEPT ![c] = "shell"]
        /\ UNCHANGED <<link, pc>>
  /\ UNCHANGED <<result, said, bytes, owned, waits, temp, ran, helper, lock, kills>>

Persistent(c) == mode[c] = "persistent"

\* read_bootstrap_status_line
ReadStatus(c) ==
  /\ phase[c] = "status" /\ said[c] # "nothing"
  /\ phase' = [phase EXCEPT ![c] = IF said[c] = "HIT" THEN "hello" ELSE "upload"]
  /\ said' = [said EXCEPT ![c] = "nothing"]
  /\ UNCHANGED <<mode, result, link, bytes, script, helper, lock, kills>>

\* write_helper_bytes
WriteHelper(c) ==
  /\ phase[c] = "upload"
  /\ Persistent(c) => pc[c] # "dead"
  /\ phase' = [phase EXCEPT ![c] = "hello"]
  /\ bytes' = [bytes EXCEPT ![c] = Persistent(c)]
  /\ UNCHANGED <<mode, result, link, said, script, helper, lock, kills>>

Return(c, r) ==
  /\ phase' = [phase EXCEPT ![c] = "over"]
  /\ result' = [result EXCEPT ![c] = r]

\* The HELLO_ACK of a helper, or of the dispatcher.
Handshake(c) ==
  /\ phase[c] = "hello" /\ (Persistent(c) => pc[c] = "exec")
  /\ Return(c, "ready")
  /\ UNCHANGED <<mode, link, said, bytes, script, helper, lock, kills>>

\* The attempt fails: no status, a write error, or no handshake.
\* cleanup_startup_child ends its ssh, then the next mode is tried.
AttemptFails(c) ==
  /\ phase[c] \in {"status", "upload", "hello"}
  /\ IF Persistent(c) THEN pc[c] = "dead" /\ (phase[c] = "status" => said[c] = "nothing")
     ELSE \/ mode[c] = "temporary" /\ "loader" \in Faults
          \/ mode[c] = "shell" /\ "dispatcher" \in Faults
  /\ link' = [link EXCEPT ![c] = FALSE]
  /\ \/ /\ Persistent(c)
        /\ mode' = [mode EXCEPT ![c] = "temporary"]
        /\ phase' = [phase EXCEPT ![c] = "upload"] /\ UNCHANGED result
     \/ /\ mode[c] = "temporary"
        /\ mode' = [mode EXCEPT ![c] = "shell"]
        /\ phase' = [phase EXCEPT ![c] = "hello"] /\ UNCHANGED result
     \/ /\ mode[c] = "shell"
        /\ Return(c, "failed") /\ UNCHANGED mode
  /\ said' = [said EXCEPT ![c] = "nothing"]
  /\ UNCHANGED <<bytes, script, helper, lock, kills>>

\* The one deadline of all modes, or a cancellation: StartupProcessGuard.
GiveUp(c) ==
  /\ phase[c] \in {"status", "upload", "hello"}
  /\ Return(c, "failed")
  /\ link' = [link EXCEPT ![c] = FALSE]
  /\ said' = [said EXCEPT ![c] = "nothing"]
  /\ mode' = [mode EXCEPT ![c] = "shell"]
  /\ UNCHANGED <<bytes, script, helper, lock, kills>>

\* The session ends some time.
SessionEnds(c) ==
  /\ result[c] = "ready" /\ link[c]
  /\ link' = [link EXCEPT ![c] = FALSE]
  /\ UNCHANGED <<mode, phase, result, said, bytes, script, helper, lock, kills>>

-----------------------------------------------------------------------------
(* The start-up script *)

\* The next command; the script's files and the lock are as stated elsewhere.
Goes(c, next) == pc' = [pc EXCEPT ![c] = next]

\* `exit': the EXIT trap runs cleanup.
Exits(c) == Goes(c, IF owned[c] THEN "exit unpid" ELSE "exit unlock")

\* A process that is gone has no variables.
Dies(c) ==
  /\ Goes(c, "dead")
  /\ owned' = [owned EXCEPT ![c] = FALSE]
  /\ waits' = [waits EXCEPT ![c] = 0]
  /\ ran' = [ran EXCEPT ![c] = "nothing"]

\* valid_helper: size, mode and digest.
valid_helper == helper = "whole"

Unchanged == UNCHANGED local

\* mkdir "$lock"
TakeLock(c) ==
  /\ pc[c] = "mkdir"
  /\ IF lock.dir
     THEN Goes(c, "busy") /\ UNCHANGED <<lock, owned>>
     ELSE /\ lock' = [lock EXCEPT !.dir = TRUE] /\ Goes(c, "record")
          /\ owned' = [owned EXCEPT ![c] = TRUE]
  /\ UNCHANGED <<waits, temp, ran, helper, kills>> /\ Unchanged

\* Writing to a pipe whose reader is gone ends the script.
Says(c, what) ==
  \/ link[c] /\ said' = [said EXCEPT ![c] = what]
  \/ ~link[c] /\ UNCHANGED said

\* The lock is busy, but the helper is there already.
BusyHit(c) ==
  /\ pc[c] = "busy" /\ valid_helper
  /\ IF link[c]
     THEN Goes(c, "exec") /\ ran' = [ran EXCEPT ![c] = helper] /\ UNCHANGED <<owned, waits>>
     ELSE Dies(c)
  /\ Says(c, "HIT")
  /\ UNCHANGED <<mode, phase, result, link, bytes, temp, helper, lock, kills>>

BusyMiss(c) ==
  /\ pc[c] = "busy" /\ ~valid_helper
  /\ Goes(c, "stale")
  /\ UNCHANGED <<owned, waits, temp, ran, helper, lock, kills>> /\ Unchanged

Alive(c) == c # Gone /\ pc[c] \notin {"none", "dead"}

\* stale_lock: the owner's id is read, kill -0 asks for it; then its file and
\* the directory are removed, by whoever they are now.
StaleLock(c) ==
  /\ pc[c] = "stale"
  /\ Goes(c, IF lock.pid # Nobody /\ ~Alive(lock.pid) THEN "stale unpid" ELSE "wait")
  /\ UNCHANGED <<owned, waits, temp, ran, helper, lock, kills>> /\ Unchanged

StaleUnpid(c) ==
  /\ pc[c] = "stale unpid"
  /\ lock' = [lock EXCEPT !.pid = Nobody] /\ Goes(c, "stale rmdir")
  /\ UNCHANGED <<owned, waits, temp, ran, helper, kills>> /\ Unchanged

\* rmdir fails on a directory that is gone or has a pid file again.
Rmdir == lock.dir /\ lock.pid = Nobody

StaleRmdir(c) ==
  /\ pc[c] = "stale rmdir"
  /\ IF Rmdir THEN lock' = NoLock /\ Goes(c, "mkdir") ELSE UNCHANGED lock /\ Goes(c, "wait")
  /\ UNCHANGED <<owned, waits, temp, ran, helper, kills>> /\ Unchanged

\* The wait has no bound.
Wait_Forever(c) ==
  /\ pc[c] = "wait"
  /\ Goes(c, "mkdir")
  /\ UNCHANGED <<owned, waits, temp, ran, helper, lock, kills>> /\ Unchanged

Wait(c) ==
  /\ pc[c] = "wait"
  /\ waits' = [waits EXCEPT ![c] = @ + 1]
  /\ IF waits[c] + 1 < Tries THEN Goes(c, "mkdir") ELSE Exits(c)
  /\ UNCHANGED <<owned, temp, ran, helper, lock, kills>> /\ Unchanged

\* printf "$$" >"$lock/pid", which needs the directory.
RecordOwner(c) ==
  /\ pc[c] = "record"
  /\ \/ /\ lock.dir
        /\ lock' = [lock EXCEPT !.pid = c] /\ Goes(c, "check")
     \/ /\ ~lock.dir \/ "disk" \in Faults
        /\ UNCHANGED lock /\ Exits(c)
  /\ UNCHANGED <<owned, waits, temp, ran, helper, kills>> /\ Unchanged

CheckHit(c) ==
  /\ pc[c] = "check" /\ valid_helper
  /\ Goes(c, "hit unpid")
  /\ UNCHANGED <<owned, waits, temp, ran, helper, lock, kills>> /\ Unchanged

\* NEED is printed, and the temporary file made.
CheckNeed(c) ==
  /\ pc[c] = "check" /\ ~valid_helper
  /\ Says(c, "NEED")
  /\ IF link[c]
     THEN /\ Goes(c, "upload") /\ temp' = [temp EXCEPT ![c] = "part"]
          /\ UNCHANGED <<owned, waits, ran>>
     ELSE Dies(c) /\ UNCHANGED temp
  /\ UNCHANGED <<mode, phase, result, link, bytes, helper, lock, kills>>

\* dd and wc, until the length is reached or the input ends early.
Upload(c) ==
  /\ pc[c] = "upload"
  /\ \/ /\ bytes[c]
        /\ temp' = [temp EXCEPT ![c] = "whole"] /\ Goes(c, "digest")
     \/ /\ (~bytes[c] /\ ~link[c]) \/ "disk" \in Faults
        /\ UNCHANGED temp /\ Exits(c)
  /\ UNCHANGED <<owned, waits, ran, helper, lock, kills>> /\ Unchanged

\* The digest of what was uploaded.
Digest(c) ==
  /\ pc[c] = "digest"
  /\ IF temp[c] = "whole" THEN Goes(c, "install") ELSE Exits(c)
  /\ UNCHANGED <<owned, waits, temp, ran, helper, lock, kills>> /\ Unchanged

\* The helper is written in place.
Install_InPlace(c) ==
  /\ pc[c] = "install"
  /\ IF helper = "part" THEN helper' = "whole" /\ Goes(c, "unpid")
     ELSE helper' = "part" /\ UNCHANGED pc
  /\ UNCHANGED <<owned, waits, temp, ran, lock, kills>> /\ Unchanged

\* mv -f "$temporary" "$helper"
Install(c) ==
  /\ pc[c] = "install"
  /\ IF temp[c] = "absent"
     THEN Exits(c) /\ UNCHANGED <<helper, temp>>
     ELSE /\ helper' = temp[c] /\ temp' = [temp EXCEPT ![c] = "absent"]
          /\ Goes(c, "unpid")
  /\ UNCHANGED <<owned, waits, ran, lock, kills>> /\ Unchanged

\* rm -f "$lock/pid", which does not ask whose it is.
Unpid(c) ==
  /\ pc[c] \in {"unpid", "hit unpid"}
  /\ lock' = [lock EXCEPT !.pid = Nobody]
  /\ Goes(c, IF pc[c] = "unpid" THEN "unlock" ELSE "hit unlock")
  /\ UNCHANGED <<owned, waits, temp, ran, helper, kills>> /\ Unchanged

\* rmdir "$lock" || exit 74; exec "$helper".  A hit is printed between.
Unlock(c) ==
  /\ pc[c] \in {"unlock", "hit unlock"}
  /\ IF ~Rmdir
     THEN Exits(c) /\ UNCHANGED <<lock, owned, waits, ran, said>>
     ELSE /\ lock' = NoLock
          /\ IF pc[c] = "hit unlock" /\ ~link[c]
             THEN Dies(c) /\ UNCHANGED said
             ELSE /\ Goes(c, "exec") /\ ran' = [ran EXCEPT ![c] = helper]
                  /\ owned' = [owned EXCEPT ![c] = FALSE] /\ UNCHANGED waits
                  /\ IF pc[c] = "unlock" THEN UNCHANGED said ELSE Says(c, "HIT")
  /\ UNCHANGED <<mode, phase, result, link, bytes, temp, helper, kills>>

\* cleanup, from the EXIT trap.
Cleanup(c) ==
  /\ \/ /\ pc[c] = "exit unpid"
        /\ lock' = [lock EXCEPT !.pid = Nobody]
        /\ Goes(c, "exit unlock") /\ UNCHANGED <<temp, owned, waits, ran>>
     \/ /\ pc[c] = "exit unlock"
        /\ lock' = IF owned[c] /\ Rmdir THEN NoLock ELSE lock
        /\ temp' = [temp EXCEPT ![c] = "absent"]
        /\ Dies(c)
  /\ UNCHANGED <<helper, kills>> /\ Unchanged

\* HUP, INT or TERM: cleanup runs, and the script goes on.  The file that dd
\* appends to afterwards never reaches the length.
Term(c) ==
  /\ "term" \in Faults /\ pc[c] \in Commands \ {"exit unpid", "exit unlock"}
  /\ lock' = IF owned[c] /\ lock.dir THEN NoLock ELSE lock
  /\ temp' = [temp EXCEPT ![c] = "absent"]
  /\ IF pc[c] \in {"upload", "digest"} THEN Goes(c, "exit unpid") ELSE UNCHANGED pc
  /\ UNCHANGED <<owned, waits, ran, helper, kills>> /\ Unchanged

\* A signal without a trap, or the helper does not run on this host.
Killed(c) ==
  /\ \/ pc[c] \in Commands /\ kills < Kills /\ kills' = kills + 1
     \/ pc[c] = "exec" /\ "loader" \in Faults /\ phase[c] # "over" /\ UNCHANGED kills
  /\ Dies(c)
  /\ UNCHANGED <<temp, helper, lock>> /\ Unchanged

\* The helper sees the end of its input.
HelperGone(c) ==
  /\ pc[c] = "exec" /\ ~link[c]
  /\ Dies(c)
  /\ UNCHANGED <<temp, helper, lock, kills>> /\ Unchanged

-----------------------------------------------------------------------------
Bridge(c) ==
  \/ Connect(c) \/ ReadStatus(c) \/ WriteHelper(c) \/ Handshake(c) \/ AttemptFails(c)
  \/ GiveUp(c) \/ SessionEnds(c)

Command(c) ==
  \/ TakeLock(c) \/ BusyHit(c) \/ BusyMiss(c) \/ StaleLock(c) \/ StaleUnpid(c) \/ StaleRmdir(c)
  \/ Wait(c) \/ RecordOwner(c) \/ CheckHit(c) \/ CheckNeed(c) \/ Upload(c) \/ Digest(c)
  \/ Install(c) \/ Unpid(c) \/ Unlock(c) \/ Cleanup(c) \/ HelperGone(c)

Next == \E c \in Conn : Bridge(c) \/ Command(c) \/ Term(c) \/ Killed(c)

Spec == Init /\ [][Next]_vars

\* The remote host runs its scripts; the bridge reads what arrives and has a
\* timer.  A script reads what the bridge sends, or the end of it.
Fairness ==
  \A c \in Conn :
    /\ WF_vars(Command(c))
    /\ WF_vars(GiveUp(c))
    /\ WF_vars(AttemptFails(c) \/ ReadStatus(c))

FairSpec == Spec /\ Fairness

-----------------------------------------------------------------------------
(* Properties *)

\* Nothing but the verified file is ever executed or left under its name,
\* however many scripts believe they hold the lock: the temporary file, its
\* digest and the rename carry that, not the lock.
OnlyVerifiedRuns ==
  /\ helper # "part"
  /\ \A c \in Conn : ran[c] \in {"nothing", "whole"}

\* A script that its bridge has given up ends, also one that waits for a lock
\* nobody will ever release, and it takes its temporary file along.
ScriptsEnd ==
  \A c \in Conn :
    phase[c] = "over" /\ ~link[c] ~>
      /\ ~Alive(c)
      /\ kills = 0 => temp[c] = "absent"

=============================================================================
