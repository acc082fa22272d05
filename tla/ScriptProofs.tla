---------------------------- MODULE ScriptProofs ----------------------------
(***************************************************************************)
(* Proofs about the three kinds of shell program that run on the host: the *)
(* start-up script (HelperInstall), for any number of connections that     *)
(* install the helper at the same time, and wherever signals and time-outs *)
(* meet them; the dispatcher (Dispatcher), for every set of requests and   *)
(* whatever their commands leave behind; and the programs that read and    *)
(* change files (GuardedFiles), for every directory, jobs of any length,   *)
(* and any number of faults and of steps of a foreign program.             *)
(***************************************************************************)
EXTENDS HelperInstall, Dispatcher, GuardedFiles, WellFoundedInduction, TLAPS

-----------------------------------------------------------------------------
(*                        THE START-UP SCRIPT                              *)

-----------------------------------------------------------------------------
(* The inductive invariant *)

(* The types, in groups that the proofs take one at a time.                *)
LinkTypes ==
  /\ mode \in [Conn -> {"persistent", "temporary", "shell"}]
  /\ phase \in [Conn -> {"idle", "status", "upload", "hello", "over"}]
  /\ result \in [Conn -> {"none", "ready", "failed"}]
  /\ link \in [Conn -> BOOLEAN] /\ bytes \in [Conn -> BOOLEAN]
  /\ said \in [Conn -> {"nothing", "HIT", "NEED"}]

Commanded == pc \in [Conn -> Commands \cup {"none", "exec", "dead"}]

HelperTypes ==
  /\ owned \in [Conn -> BOOLEAN]
  /\ temp \in [Conn -> {"absent", "part", "whole"}]
  /\ helper \in {"absent", "old", "part", "whole"}
  /\ ran \in [Conn -> {"nothing", "absent", "old", "part", "whole"}]

LockTypes ==
  /\ lock \in [dir : BOOLEAN, pid : Conn \cup {Nobody, Gone}]
  /\ kills \in 0 .. Kills

(* A script that may still wait has tries left; there is none before the   *)
(* connection is made.                                                     *)
HasTries(c) ==
  /\ pc[c] \in {"exit unpid", "exit unlock"} \/ waits[c] < Tries
  /\ phase[c] = "idle" => pc[c] = "none"

(* What is about to be renamed has passed its digest; a signal may have    *)
(* taken it away.                                                          *)
PassedDigest(c) == pc[c] = "install" => temp[c] \in {"absent", "whole"}

(* A script that is about to execute the helper has seen the verified one  *)
(* or put it there, and nobody replaces it by anything else.               *)
SawWhole(c) ==
  pc[c] \in {"hit unpid", "hit unlock", "unpid", "unlock"} => helper = "whole"

StartupInv ==
  /\ TypeOK /\ OnlyVerifiedRuns
  /\ \A c \in Conn : HasTries(c) /\ PassedDigest(c) /\ SawWhole(c)

-----------------------------------------------------------------------------
(* Each step keeps it                                                      *)

LEMMA TypesApart ==
  TypeOK <=> /\ LinkTypes /\ Commanded /\ HelperTypes /\ LockTypes
             /\ waits \in [Conn -> 0 .. Tries]
  BY DEF TypeOK, LinkTypes, Commanded, HelperTypes, LockTypes

(* What the bridge knows. *)
LEMMA LinkTypesStep ==
  ASSUME StartupInv, NEW c \in Conn,
         Bridge(c) \/ Command(c) \/ Term(c) \/ Killed(c)
  PROVE  LinkTypes'
<1>t. LinkTypes
  BY TypesApart DEF StartupInv
<1> USE <1>t DEF LinkTypes
<1>1. CASE Connect(c)
  BY <1>1 DEF Connect
<1>2. CASE ReadStatus(c)
  BY <1>2 DEF ReadStatus, script
<1>3. CASE WriteHelper(c)
  BY <1>3 DEF WriteHelper, Persistent, script
<1>4. CASE Handshake(c)
  BY <1>4 DEF Handshake, Persistent, Return, script
<1>5. CASE AttemptFails(c)
  BY <1>5 DEF AttemptFails, Persistent, Return, script
<1>6. CASE GiveUp(c)
  BY <1>6 DEF GiveUp, Return, script
<1>7. CASE SessionEnds(c)
  BY <1>7 DEF SessionEnds, script
<1>8. CASE BusyHit(c)
  BY <1>8 DEF BusyHit, Says
<1>9. CASE CheckNeed(c)
  BY <1>9 DEF CheckNeed, Says
<1>10. CASE Unlock(c)
  BY <1>10 DEF Unlock, Says
<1>11. CASE TakeLock(c) \/ BusyMiss(c) \/ StaleLock(c) \/ StaleUnpid(c) \/
          StaleRmdir(c) \/ Wait(c)
  BY <1>11 DEF TakeLock, Unchanged, local, BusyMiss, StaleLock,
     StaleUnpid, StaleRmdir, Wait
<1>12. CASE RecordOwner(c) \/ CheckHit(c) \/ Upload(c) \/ Digest(c) \/
          Install(c) \/ Unpid(c)
  BY <1>12 DEF RecordOwner, Unchanged, local, CheckHit, Upload, Digest,
     Install, Unpid
<1>13. CASE Cleanup(c) \/ HelperGone(c) \/ Term(c) \/ Killed(c)
  BY <1>13 DEF Cleanup, Unchanged, local, HelperGone, Term, Killed
<1> QED
  BY <1>1, <1>2, <1>3, <1>4, <1>5, <1>6, <1>7, <1>8, <1>9, <1>10, <1>11,
     <1>12, <1>13 DEF Bridge, Command

(* The commands of the script. *)
LEMMA CommandedStep ==
  ASSUME StartupInv, NEW c \in Conn,
         Bridge(c) \/ Command(c) \/ Term(c) \/ Killed(c)
  PROVE  Commanded'
<1>t. Commanded
  BY TypesApart DEF StartupInv
<1> USE <1>t DEF Commanded, Commands, Critical
<1>1. CASE Connect(c) \/ ReadStatus(c) \/ WriteHelper(c) \/ Handshake(c) \/
          AttemptFails(c) \/ GiveUp(c) \/ SessionEnds(c)
  BY <1>1 DEF Connect, ReadStatus, script, WriteHelper, Handshake,
     AttemptFails, GiveUp, SessionEnds
<1>2. CASE TakeLock(c)
  BY <1>2 DEF TakeLock, Goes, Unchanged, local
<1>3. CASE BusyHit(c)
  BY <1>3 DEF BusyHit, Goes, Dies
<1>4. CASE BusyMiss(c)
  BY <1>4 DEF BusyMiss, Goes, Unchanged, local
<1>5. CASE StaleLock(c)
  BY <1>5 DEF StaleLock, Goes, Unchanged, local
<1>6. CASE StaleUnpid(c)
  BY <1>6 DEF StaleUnpid, Goes, Unchanged, local
<1>7. CASE StaleRmdir(c)
  BY <1>7 DEF StaleRmdir, Goes, Unchanged, local
<1>8. CASE Wait(c)
  BY <1>8 DEF Wait, Goes, Exits, Unchanged, local
<1>9. CASE RecordOwner(c)
  BY <1>9 DEF RecordOwner, Goes, Exits, Unchanged, local
<1>10. CASE CheckHit(c)
  BY <1>10 DEF CheckHit, Goes, Unchanged, local
<1>11. CASE CheckNeed(c)
  BY <1>11 DEF CheckNeed, Goes, Dies
<1>12. CASE Upload(c)
  BY <1>12 DEF Upload, Goes, Exits, Unchanged, local
<1>13. CASE Digest(c)
  BY <1>13 DEF Digest, Goes, Exits, Unchanged, local
<1>14. CASE Install(c)
  BY <1>14 DEF Install, Goes, Exits, Unchanged, local
<1>15. CASE Unpid(c)
  BY <1>15 DEF Unpid, Goes, Unchanged, local
<1>16. CASE Unlock(c)
  BY <1>16 DEF Unlock, Goes, Exits, Dies
<1>17. CASE Cleanup(c)
  BY <1>17 DEF Cleanup, Goes, Dies, Unchanged, local
<1>18. CASE HelperGone(c)
  BY <1>18 DEF HelperGone, Dies, Unchanged, Goes, local
<1>19. CASE Term(c)
  BY <1>19 DEF Term, Goes, Unchanged, local
<1>20. CASE Killed(c)
  BY <1>20 DEF Killed, Dies, Unchanged, Goes, local
<1> QED
  BY <1>1, <1>2, <1>3, <1>4, <1>5, <1>6, <1>7, <1>8, <1>9, <1>10, <1>11,
     <1>12, <1>13, <1>14, <1>15, <1>16, <1>17, <1>18, <1>19, <1>20 DEF
     Bridge, Command

(* The files, and what was executed. *)
LEMMA FileTypesStep ==
  ASSUME StartupInv, NEW c \in Conn,
         Bridge(c) \/ Command(c) \/ Term(c) \/ Killed(c)
  PROVE  HelperTypes'
<1>t. HelperTypes
  BY TypesApart DEF StartupInv
<1> USE <1>t DEF HelperTypes
<1>1. CASE Connect(c) \/ ReadStatus(c) \/ WriteHelper(c) \/ Handshake(c) \/
          AttemptFails(c) \/ GiveUp(c) \/ SessionEnds(c)
  BY <1>1 DEF Connect, ReadStatus, script, WriteHelper, Handshake,
     AttemptFails, GiveUp, SessionEnds
<1>2. CASE TakeLock(c)
  BY <1>2 DEF TakeLock, Unchanged, local
<1>3. CASE BusyHit(c)
  BY <1>3 DEF BusyHit, Dies
<1>4. CASE BusyMiss(c)
  BY <1>4 DEF BusyMiss, Unchanged, local
<1>5. CASE StaleLock(c)
  BY <1>5 DEF StaleLock, Unchanged, local
<1>6. CASE StaleUnpid(c)
  BY <1>6 DEF StaleUnpid, Unchanged, local
<1>7. CASE StaleRmdir(c)
  BY <1>7 DEF StaleRmdir, Unchanged, local
<1>8. CASE Wait(c)
  BY <1>8 DEF Wait, Unchanged, local
<1>9. CASE RecordOwner(c)
  BY <1>9 DEF RecordOwner, Unchanged, local
<1>10. CASE CheckHit(c)
  BY <1>10 DEF CheckHit, Unchanged, local
<1>11. CASE CheckNeed(c)
  BY <1>11 DEF CheckNeed, Dies
<1>12. CASE Upload(c)
  BY <1>12 DEF Upload, Unchanged, local
<1>13. CASE Digest(c)
  BY <1>13 DEF Digest, Unchanged, local
<1>14. CASE Install(c)
  BY <1>14 DEF Install, Unchanged, local
<1>15. CASE Unpid(c)
  BY <1>15 DEF Unpid, Unchanged, local
<1>16. CASE Unlock(c)
  BY <1>16 DEF Unlock, Dies
<1>17. CASE Cleanup(c)
  BY <1>17 DEF Cleanup, Dies, Unchanged, local
<1>18. CASE HelperGone(c)
  BY <1>18 DEF HelperGone, Dies, Unchanged, local
<1>19. CASE Term(c)
  BY <1>19 DEF Term, Unchanged, local
<1>20. CASE Killed(c)
  BY <1>20 DEF Killed, Dies, Unchanged, local
<1> QED
  BY <1>1, <1>2, <1>3, <1>4, <1>5, <1>6, <1>7, <1>8, <1>9, <1>10, <1>11,
     <1>12, <1>13, <1>14, <1>15, <1>16, <1>17, <1>18, <1>19, <1>20 DEF
     Bridge, Command

(* The lock directory. *)
LEMMA LockTypesStep ==
  ASSUME StartupInv, NEW c \in Conn,
         Bridge(c) \/ Command(c) \/ Term(c) \/ Killed(c)
  PROVE  LockTypes'
<1>t. /\ LockTypes /\ Kills \in Nat
  BY TypesApart, HelperInstallAssumption DEF StartupInv, HelperInstallAssumption
<1> DEFINE Locks == [dir : BOOLEAN, pid : Conn \cup {Nobody, Gone}]
<1>l. /\ lock \in Locks /\ NoLock \in Locks /\ [lock EXCEPT !.dir = TRUE] \in Locks
      /\ [lock EXCEPT !.pid = Nobody] \in Locks /\ [lock EXCEPT !.pid = c] \in Locks
  BY <1>t DEF LockTypes, NoLock
<1>k. kills \in 0 .. Kills
  BY <1>t DEF LockTypes
<1>g. ASSUME lock' \in Locks, kills' \in 0 .. Kills PROVE LockTypes'
  BY <1>g DEF LockTypes
<1> HIDE DEF Locks
<1> USE <1>l, <1>k, <1>g
<1>1. CASE Connect(c) \/ ReadStatus(c) \/ WriteHelper(c) \/ Handshake(c) \/
          AttemptFails(c) \/ GiveUp(c) \/ SessionEnds(c)
  BY <1>1 DEF Connect, ReadStatus, script, WriteHelper, Handshake,
     AttemptFails, GiveUp, SessionEnds
<1>2. CASE TakeLock(c)
  BY <1>2 DEF TakeLock, Unchanged, local
<1>3. CASE BusyHit(c)
  BY <1>3 DEF BusyHit
<1>4. CASE BusyMiss(c)
  BY <1>4 DEF BusyMiss, Unchanged, local
<1>5. CASE StaleLock(c)
  BY <1>5 DEF StaleLock, Unchanged, local
<1>6. CASE StaleUnpid(c)
  BY <1>6 DEF StaleUnpid, Unchanged, local
<1>7. CASE StaleRmdir(c)
  BY <1>7 DEF StaleRmdir, Unchanged, local
<1>8. CASE Wait(c)
  BY <1>8 DEF Wait, Unchanged, local
<1>9. CASE RecordOwner(c)
  BY <1>9 DEF RecordOwner, Unchanged, local
<1>10. CASE CheckHit(c)
  BY <1>10 DEF CheckHit, Unchanged, local
<1>11. CASE CheckNeed(c)
  BY <1>11 DEF CheckNeed
<1>12. CASE Upload(c)
  BY <1>12 DEF Upload, Unchanged, local
<1>13. CASE Digest(c)
  BY <1>13 DEF Digest, Unchanged, local
<1>14. CASE Install(c)
  BY <1>14 DEF Install, Unchanged, local
<1>15. CASE Unpid(c)
  BY <1>15 DEF Unpid, Unchanged, local
<1>16. CASE Unlock(c)
  BY <1>16 DEF Unlock
<1>17. CASE Cleanup(c)
  BY <1>17 DEF Cleanup, Unchanged, local
<1>18. CASE HelperGone(c)
  BY <1>18
     DEF HelperGone, Unchanged, local
<1>19. CASE Term(c)
  BY <1>19 DEF Term, Unchanged, local
<1>20. CASE Killed(c)
  <2>1. kills' \in 0 .. Kills
    BY <1>20, <1>t DEF Killed
  <2> QED
    BY <1>20, <2>1 DEF Killed
<1> QED
  BY <1>1, <1>2, <1>3, <1>4, <1>5, <1>6, <1>7, <1>8, <1>9, <1>10, <1>11,
     <1>12, <1>13, <1>14, <1>15, <1>16, <1>17, <1>18, <1>19, <1>20
     DEF Bridge,
     Command

(* The tries: a script that gives up stops counting. *)
LEMMA WaitsStep ==
  ASSUME StartupInv, NEW c \in Conn,
         Bridge(c) \/ Command(c) \/ Term(c) \/ Killed(c)
  PROVE  waits' \in [Conn -> 0 .. Tries] /\ \A d \in Conn : HasTries(d)'
<1>t. /\ waits \in [Conn -> 0 .. Tries] /\ DOMAIN pc = Conn /\ DOMAIN phase = Conn
      /\ Tries \in Nat \ {0} /\ \A d \in Conn : HasTries(d)
  BY HelperInstallAssumption DEF StartupInv, TypeOK, HelperInstallAssumption
<1> DEFINE Tried == waits' \in [Conn -> 0 .. Tries] /\ \A d \in Conn : HasTries(d)'
<1>a. ASSUME phase[c] # "idle", phase' = phase,
             pc' = [pc EXCEPT ![c] = "dead"], waits' = [waits EXCEPT ![c] = 0]
      PROVE  Tried
  <2>1. waits' \in [Conn -> 0 .. Tries]
    BY <1>t, <1>a
  <2>2. waits'[c] < Tries /\ \A d \in Conn \ {c} : waits'[d] = waits[d]
    BY <1>t, <1>a
  <2> QED
    BY <1>t, <1>a, <2>1, <2>2 DEF HasTries
<1>b. ASSUME phase' = phase, pc[c] # "none", UNCHANGED waits,
             pc' = [pc EXCEPT ![c] = pc'[c]],
             pc'[c] \in {"exit unpid", "exit unlock"}
                \/ pc[c] \notin {"exit unpid", "exit unlock"}
      PROVE  Tried
  BY <1>t, <1>b DEF HasTries
<1>c. ASSUME phase' = phase, UNCHANGED <<pc, waits>>
      PROVE  Tried
  BY <1>t, <1>c DEF HasTries
<1>d. phase[c] = "idle" => pc[c] = "none"
  BY <1>t DEF HasTries
<1>p. DOMAIN pc = Conn
  BY <1>t
<1> SUFFICES Tried
  OBVIOUS
<1> HIDE DEF Tried
<1>0. CASE Connect(c)
  BY <1>0, <1>t DEF Connect, HasTries, Tried
<1>w. CASE Wait(c)
  <2>1. /\ waits' = [waits EXCEPT ![c] = waits[c] + 1] /\ phase' = phase
        /\ pc' = [pc EXCEPT ![c] = pc'[c]]
        /\ pc'[c] \in {"exit unpid", "exit unlock"} \/ waits[c] + 1 < Tries
        /\ pc[c] = "wait"
    <3>1. CASE waits[c] + 1 < Tries
      BY <1>w, <3>1, <1>p DEF Wait, Goes, Unchanged, local
    <3>2. CASE ~(waits[c] + 1 < Tries)
      BY <1>w, <3>2, <1>p DEF Wait, Goes, Exits, Unchanged, local
    <3> QED
      BY <3>1, <3>2
  <2>4. waits[c] < Tries
    BY <2>1, <1>t DEF HasTries
  <2>2. waits' \in [Conn -> 0 .. Tries]
    <3>1. waits[c] + 1 \in 0 .. Tries
      BY <2>4, <1>t
    <3> QED
      BY <2>1, <3>1, <1>t
  <2>3. waits'[c] = waits[c] + 1 /\ \A d \in Conn \ {c} : waits'[d] = waits[d]
    BY <2>1, <1>t
  <2> QED
    BY <2>1, <2>2, <2>3, <2>4, <1>t DEF HasTries, Tried
<1>1. CASE ReadStatus(c) \/ WriteHelper(c) \/ Handshake(c) \/ AttemptFails(c)
          \/ GiveUp(c) \/ SessionEnds(c)
  BY <1>1, <1>t DEF HasTries, Tried, ReadStatus, script, WriteHelper, Persistent, Handshake,
     Return, AttemptFails, GiveUp, SessionEnds
<1>2. CASE TakeLock(c)
  BY <1>2, <1>a, <1>b, <1>c, <1>d, <1>p DEF TakeLock, Goes, Unchanged, local
<1>3. CASE BusyMiss(c)
  BY <1>3, <1>a, <1>b, <1>c, <1>d, <1>p DEF BusyMiss, Goes, Unchanged, local
<1>4. CASE StaleLock(c)
  BY <1>4, <1>a, <1>b, <1>c, <1>d, <1>p DEF StaleLock, Goes, Unchanged, local
<1>5. CASE StaleUnpid(c)
  BY <1>5, <1>a, <1>b, <1>c, <1>d, <1>p DEF StaleUnpid, Goes, Unchanged, local
<1>6. CASE StaleRmdir(c)
  BY <1>6, <1>a, <1>b, <1>c, <1>d, <1>p DEF StaleRmdir, Goes, Unchanged, local
<1>7. CASE RecordOwner(c)
  BY <1>7, <1>a, <1>b, <1>c, <1>d, <1>p DEF RecordOwner, Goes, Exits, Unchanged, local
<1>8. CASE CheckHit(c)
  BY <1>8, <1>a, <1>b, <1>c, <1>d, <1>p DEF CheckHit, Goes, Unchanged, local
<1>9. CASE Upload(c)
  BY <1>9, <1>a, <1>b, <1>c, <1>d, <1>p DEF Upload, Goes, Exits, Unchanged, local
<1>10. CASE Digest(c)
  BY <1>10, <1>a, <1>b, <1>c, <1>d, <1>p DEF Digest, Goes, Exits, Unchanged, local
<1>11. CASE Install(c)
  BY <1>11, <1>a, <1>b, <1>c, <1>d, <1>p DEF Install, Goes, Exits, Unchanged, local
<1>12. CASE Unpid(c)
  BY <1>12, <1>a, <1>b, <1>c, <1>d, <1>p DEF Unpid, Goes, Unchanged, local
<1>13. CASE Term(c)
  BY <1>13, <1>a, <1>b, <1>c, <1>d, <1>p DEF Term, Goes, Unchanged, Commands, local
<1>14. CASE BusyHit(c)
  BY <1>14, <1>a, <1>b, <1>c, <1>d, <1>p DEF BusyHit, Goes, Dies
<1>15. CASE CheckNeed(c)
  BY <1>15, <1>a, <1>b, <1>c, <1>d, <1>p DEF CheckNeed, Goes, Dies
<1>16. CASE Unlock(c)
  BY <1>16, <1>a, <1>b, <1>c, <1>d, <1>p DEF Unlock, Goes, Exits, Dies
<1>17. CASE Cleanup(c)
  BY <1>17, <1>a, <1>b, <1>c, <1>d, <1>p DEF Cleanup, Goes, Dies, Unchanged, local
<1>18. CASE HelperGone(c)
  BY <1>18, <1>a, <1>b, <1>c, <1>d, <1>p DEF HelperGone, Dies, Unchanged, Goes, local
<1>19. CASE Killed(c)
  BY <1>19, <1>a, <1>b, <1>c, <1>d, <1>p DEF Killed, Dies, Unchanged, Commands,
     Critical, Goes, local
<1> QED
  BY <1>0, <1>w, <1>1, <1>2, <1>3, <1>4, <1>5, <1>6, <1>7, <1>8, <1>9, <1>10, <1>11,
     <1>12, <1>13, <1>14, <1>15, <1>16, <1>17, <1>18, <1>19 DEF Tried, Bridge,
     Command

(* The digest and the rename. *)
LEMMA StartupVerifiedStep ==
  ASSUME StartupInv, NEW c \in Conn,
         Bridge(c) \/ Command(c) \/ Term(c) \/ Killed(c)
  PROVE  OnlyVerifiedRuns' /\ \A d \in Conn : PassedDigest(d)' /\ SawWhole(d)'
<1>t. /\ DOMAIN pc = Conn /\ DOMAIN temp = Conn /\ DOMAIN ran = Conn
      /\ helper \in {"absent", "old", "whole"} /\ temp[c] \in {"absent", "part", "whole"}
      /\ OnlyVerifiedRuns
      /\ \A d \in Conn : PassedDigest(d) /\ SawWhole(d)
  BY DEF StartupInv, TypeOK, OnlyVerifiedRuns
<1> USE <1>t DEF OnlyVerifiedRuns, PassedDigest, SawWhole
<1>1. CASE Connect(c)
  BY <1>1 DEF Connect
<1>2. CASE ReadStatus(c)
  BY <1>2 DEF ReadStatus, script
<1>3. CASE WriteHelper(c)
  BY <1>3 DEF WriteHelper, Persistent, script
<1>4. CASE Handshake(c)
  BY <1>4 DEF Handshake, Persistent, Return, script
<1>5. CASE AttemptFails(c)
  BY <1>5 DEF AttemptFails, Persistent, Return, script
<1>6. CASE GiveUp(c)
  BY <1>6 DEF GiveUp, Return, script
<1>7. CASE SessionEnds(c)
  BY <1>7 DEF SessionEnds, script
<1>8. CASE TakeLock(c)
  BY <1>8 DEF TakeLock, Goes, Unchanged, local
<1>9. CASE BusyHit(c)
  BY <1>9 DEF BusyHit, Goes, Dies, Says, valid_helper
<1>10. CASE BusyMiss(c)
  BY <1>10 DEF BusyMiss, Goes, Unchanged, local
<1>11. CASE StaleLock(c)
  BY <1>11 DEF StaleLock, Goes, Unchanged, local
<1>12. CASE StaleUnpid(c)
  BY <1>12 DEF StaleUnpid, Goes, Unchanged, local
<1>13. CASE StaleRmdir(c)
  BY <1>13 DEF StaleRmdir, Goes, Unchanged, Rmdir, NoLock, local
<1>14. CASE Wait(c)
  BY <1>14 DEF Wait, Goes, Exits, Unchanged, local
<1>15. CASE RecordOwner(c)
  BY <1>15 DEF RecordOwner, Goes, Exits, Unchanged, local
<1>16. CASE CheckHit(c)
  BY <1>16 DEF CheckHit, Goes, Unchanged, local, valid_helper
<1>17. CASE CheckNeed(c)
  BY <1>17 DEF CheckNeed, Goes, Dies, Says
<1>18. CASE Upload(c)
  BY <1>18 DEF Upload, Goes, Exits, Unchanged, local
<1>19. CASE Digest(c)
  BY <1>19 DEF Digest, Goes, Exits, Unchanged, local
<1>20. CASE Install(c)
  BY <1>20 DEF Install, Goes, Exits, Unchanged, local
<1>21. CASE Unpid(c)
  BY <1>21 DEF Unpid, Goes, Unchanged, local
<1>22. CASE Unlock(c)
  BY <1>22 DEF Unlock, Goes, Exits, Dies, Says, Rmdir, NoLock
<1>23. CASE Cleanup(c)
  BY <1>23 DEF Cleanup, Goes, Dies, Unchanged, Rmdir, NoLock, local
<1>24. CASE HelperGone(c)
  BY <1>24 DEF HelperGone, Dies, Unchanged, Goes, local
<1>25. CASE Term(c)
  BY <1>25 DEF Term, Goes, Unchanged, Commands, NoLock, local, Critical
<1>26. CASE Killed(c)
  BY <1>26 DEF Killed, Dies, Unchanged, Commands, Goes, local, Critical
<1> QED
  BY <1>1, <1>2, <1>3, <1>4, <1>5, <1>6, <1>7, <1>8, <1>9, <1>10, <1>11,
     <1>12, <1>13, <1>14, <1>15, <1>16, <1>17, <1>18, <1>19, <1>20, <1>21,
     <1>22, <1>23, <1>24, <1>25, <1>26 DEF Bridge, Command

-----------------------------------------------------------------------------
(* The theorems                                                            *)

LEMMA StartupNext == StartupInv /\ [Next]_vars => StartupInv'
<1> SUFFICES ASSUME StartupInv, [Next]_vars PROVE StartupInv'
  OBVIOUS
<1>1. CASE UNCHANGED vars
  BY <1>1 DEF vars, local, script, StartupInv, TypeOK, OnlyVerifiedRuns, HasTries,
     PassedDigest, SawWhole
<1>2. CASE Next
  <2> PICK c \in Conn : Bridge(c) \/ Command(c) \/ Term(c) \/ Killed(c)
    BY <1>2 DEF Next
  <2>1. TypeOK'
    BY LinkTypesStep, CommandedStep, FileTypesStep, LockTypesStep, WaitsStep
    DEF TypeOK, LinkTypes, Commanded, HelperTypes, LockTypes
  <2> QED
    BY <2>1, WaitsStep, StartupVerifiedStep DEF StartupInv
<1> QED
  BY <1>1, <1>2

LEMMA StartupInit == Init => StartupInv
<1>0. Tries \in Nat \ {0} /\ Kills \in Nat /\ Faults \cap {"old"} \subseteq {"old"}
  BY HelperInstallAssumption DEF HelperInstallAssumption
<1>z. 0 \in 0 .. Tries /\ 0 \in 0 .. Kills /\ 0 < Tries
  BY <1>0
<1>1. Init => TypeOK
  <2> SUFFICES ASSUME Init PROVE TypeOK
    OBVIOUS
  <2>1. LinkTypes
    BY DEF Init, LinkTypes
  <2>2. Commanded
    BY DEF Init, Commanded
  <2>3. HelperTypes
    <3>1. helper \in {"absent", "old"}
      BY DEF Init
    <3> QED
      BY <3>1 DEF Init, HelperTypes
  <2>4. LockTypes
    <3>1. lock \in {NoLock} \cup [dir : {TRUE}, pid : {Gone, Nobody}] /\ kills = 0
      BY DEF Init
    <3>2. kills \in 0 .. Kills
      BY <3>1, <1>z
    <3>3. NoLock \in [dir : BOOLEAN, pid : Conn \cup {Nobody, Gone}]
      BY DEF NoLock
    <3>4. lock \in [dir : BOOLEAN, pid : Conn \cup {Nobody, Gone}]
      BY <3>1, <3>3
    <3> QED
      BY <3>2, <3>4 DEF LockTypes
  <2>5. waits \in [Conn -> 0 .. Tries]
    <3>1. waits = [c \in Conn |-> 0]
      BY DEF Init
    <3> QED
      BY <3>1, <1>z
  <2> QED
    BY TypesApart, <2>1, <2>2, <2>3, <2>4, <2>5
<1>2. Init => OnlyVerifiedRuns /\ \A c \in Conn : HasTries(c) /\ PassedDigest(c) /\ SawWhole(c)
  BY <1>z DEF Init, OnlyVerifiedRuns, HasTries, PassedDigest, SawWhole
<1> QED
  BY <1>1, <1>2 DEF StartupInv

(* The connections, their scripts and the files of the installation stand  *)
(* in this relation at all times. (ssh/helper.rs, the start-up script)     *)
THEOREM StartupInvariant == Spec => []StartupInv
  BY StartupInit, StartupNext, PTL DEF Spec

(* Nothing but the verified helper is executed or left under its name,     *)
(* though the lock may be broken by a script that takes it for stale while *)
(* its owner lives: for any number of connections and of tries.            *)
(* (ssh/helper.rs, the digest before the rename)                           *)
THEOREM NothingUnverifiedRuns == Spec => []OnlyVerifiedRuns
<1>1. StartupInv => OnlyVerifiedRuns
  BY DEF StartupInv
<1> QED
  BY <1>1, StartupInvariant, PTL

-----------------------------------------------------------------------------
(*                          THE DISPATCHER                                 *)


-----------------------------------------------------------------------------
(* The inductive invariant *)

Shells == {"none", "forked", "started", "running", "dead"}
Workers == {"none", "begun", "checked", "waiting for pid", "started", "ready", "waiting",
            "draining", "collecting", "drained", "settling", "sending", "sweeping", "gone"}

DispatcherTypes ==
    /\ shell \in [Requests -> Shells] /\ worker \in [Requests -> Workers]
    /\ child \in [Requests -> Offspring] /\ may \in [Requests -> BOOLEAN]
    /\ sent \in [Requests -> {"none", "error", "ready", "exit"}]
    /\ collected \subseteq dir /\ dir \subseteq opened

(* A worker begins once, for a request that was opened; there is no        *)
(* command before it forks one.                                            *)
BeginsOnce(r) ==
    /\ worker[r] # "none" => r \in opened
    /\ r \notin opened => sent[r] = "none"
    /\ main = "opening" /\ about = r => worker[r] = "none" /\ r \in opened
    /\ worker[r] \in {"none", "begun", "checked"} => shell[r] = "none"

(* The mark of the collectors: the command has ended, and nobody holds its *)
(* pipes, or ever will.                                                    *)
MarkedEnd(r) == r \in collected => PipesClosed(r)

(* Nothing of the command is in the group or holds the pipes.              *)
Over(r) == shell[r] = "dead" /\ child[r] \in {"none", "daemon"}

(* A worker that is about to say that nothing continues has the mark, or   *)
(* no directory to send from.                                              *)
SaysSo(r) ==
    /\ worker[r] = "sending" /\ ~may[r] =>
          /\ Over(r)
          /\ r \in collected \/ r \notin dir
    /\ sent[r] = "exit" =>
          /\ worker[r] \in {"sweeping", "gone"}
          /\ ~may[r] => Over(r) /\ r \in whole

DispatcherInv ==
    /\ DispatcherTypes
    /\ \A r \in Requests : BeginsOnce(r) /\ MarkedEnd(r) /\ SaysSo(r)

-----------------------------------------------------------------------------
(* Each step keeps it                                                      *)

(* A signal ends what the group still runs, and starts nothing.            *)
LEMMA SignalsKeep ==
    ASSUME DispatcherInv, NEW r \in Requests, NEW sig, Signals(r, sig)
    PROVE  /\ shell' \in [Requests -> Shells] /\ child' \in [Requests -> Offspring]
           /\ \A q \in Requests :
                 /\ \/ shell'[q] = shell[q]
                    \/ shell[q] \in {"started", "running"} /\ shell'[q] = "dead"
                 /\ child'[q] \in {child[q], "none"}
<1>1. shell \in [Requests -> Shells] /\ child \in [Requests -> Offspring] /\ "none" \in Offspring
    BY DEF DispatcherInv, DispatcherTypes, Offspring
<1>2. PICK left \in {child[r], "none"} : child' = [child EXCEPT ![r] = left]
    BY DEF Signals
<1>3. shell' = [shell EXCEPT ![r] = IF @ \in {"started", "running"} THEN "dead" ELSE @]
    BY DEF Signals
<1> QED
    BY <1>1, <1>2, <1>3 DEF Shells

(* Types, and the files a directory has in it. *)
LEMMA DispatcherTypesStep ==
    ASSUME DispatcherInv, NEW r \in Requests, Steps(r) \/ Outside(r)
    PROVE  DispatcherTypes'
<1> USE DEF DispatcherInv, DispatcherTypes
<1>1. CASE ReadOpen(r)
    BY <1>1 DEF ReadOpen, command, answer
<1>2. CASE OpenAccepted(r)
    BY <1>2 DEF OpenAccepted, files, command, answer, Workers
<1>3. CASE OpenRejected(r)
    BY <1>3 DEF OpenRejected, RemoveDir, command
<1>4. CASE OpenCut(r)
    BY <1>4 DEF OpenCut, RemoveDir, command, answer
<1>5. CASE ReadCancel(r)
    BY <1>5 DEF ReadCancel, files, command, answer
<1>6. CASE MarkCancelled(r)
    BY <1>6 DEF MarkCancelled, command, answer
<1>7. CASE KillCancelled(r)
    BY <1>7, SignalsKeep DEF KillCancelled, KillGroup, files, command,
       answer
<1>8. CASE CleanupKill(r)
    BY <1>8, SignalsKeep DEF CleanupKill, KillGroup, files, command, answer
<1>9. CASE CleanupRemove(r)
    BY <1>9 DEF CleanupRemove, RemoveDir, command, answer
<1>10. CASE CleanupEnds
    BY <1>10 DEF CleanupEnds, files, command, answer
<1>11. CASE WritesPid(r)
    BY <1>11 DEF WritesPid, answer, Shells
<1>12. CASE Becomes(r)
    BY <1>12 DEF Becomes, answer, Shells
<1>13. CASE CommandEnds(r)
  <2>1. /\ shell' = [shell EXCEPT ![r] = "dead"]
        /\ UNCHANGED <<main, about, opened, asked, files, worker, watchdog, killer, answer>>
    BY <1>13 DEF CommandEnds
  <2>2. PICK c \in Leaves[r] : child' = [child EXCEPT ![r] = c]
    BY <1>13 DEF CommandEnds
  <2>3. c \in Offspring
    BY RequestsAssumption DEF RequestsAssumption
  <2>4. /\ child' \in [Requests -> Offspring]
        /\ shell' \in [Requests -> Shells]
    BY <2>1, <2>2, <2>3 DEF Shells
  <2> HIDE DEF DispatcherInv
  <2>5. DispatcherTypes
    BY DEF DispatcherInv
  <2> QED
    BY <2>1, <2>4, <2>5 DEF files, answer
<1>14. CASE ChildEnds(r)
    BY <1>14 DEF ChildEnds, files, answer, Offspring
<1>15. CASE Collects(r)
    BY <1>15 DEF Collects, command, answer
<1>16. CASE KillArrives(r)
    BY <1>16, SignalsKeep DEF KillArrives, files, answer
<1>17. CASE WatchdogFires(r)
    BY <1>17, SignalsKeep DEF WatchdogFires, files, answer
<1>18. CASE WatchdogKills(r)
    BY <1>18, SignalsKeep DEF WatchdogKills, files, answer
<1>19. CASE LooksForCancel(r)
    BY <1>19 DEF LooksForCancel, Moves, files, command, Workers
<1>20. CASE Forks(r)
    BY <1>20 DEF Forks, Moves, files, answer, Workers, Shells
<1>21. CASE ReadsPid(r)
    BY <1>21 DEF ReadsPid, Moves, files, command, answer, Workers
<1>22. CASE GivesUpOnPid(r)
    BY <1>22 DEF GivesUpOnPid, Moves, files, command, answer, Workers
<1>23. CASE LooksAgain(r)
    BY <1>23, SignalsKeep DEF LooksAgain, KillGroup, Moves, files, command,
       answer, Workers
<1>24. CASE SendsReady(r)
    BY <1>24 DEF SendsReady, Moves, files, Workers
<1>25. CASE Reaps(r)
    BY <1>25 DEF Reaps, Moves, files, command, answer, Workers
<1>26. CASE DrainEnds(r)
    BY <1>26 DEF DrainEnds, Moves, files, command, answer, Workers
<1>27. CASE CollectEnds(r)
    BY <1>27 DEF CollectEnds, Moves, files, command, answer, Workers
<1>28. CASE StopsWatchdog(r)
    BY <1>28 DEF StopsWatchdog, Moves, files, answer, Workers
<1>29. CASE Settles(r)
    BY <1>29 DEF Settles, Moves, files, command, Workers, MayContinue,
       GroupAlive
<1>30. CASE SendsExit(r)
    BY <1>30 DEF SendsExit, Moves, files, command, Workers
<1>31. CASE Sweeps(r)
    BY <1>31 DEF Sweeps, RemoveDir, Moves, command, answer, Workers
<1> QED
    BY <1>1, <1>2, <1>3, <1>4, <1>5, <1>6, <1>7, <1>8, <1>9, <1>10, <1>11,
       <1>12, <1>13, <1>14, <1>15, <1>16, <1>17, <1>18, <1>19, <1>20, <1>21,
       <1>22, <1>23, <1>24, <1>25, <1>26, <1>27, <1>28, <1>29, <1>30, <1>31 DEF
       Steps, Outside, Main, Worker

(* A worker is started by its OPEN alone. *)
LEMMA BeginsOnceStep ==
    ASSUME DispatcherInv, NEW r \in Requests, Steps(r) \/ Outside(r)
    PROVE  \A q \in Requests : BeginsOnce(q)'
<1>t. /\ DOMAIN shell = Requests /\ DOMAIN worker = Requests /\ DOMAIN sent = Requests
      /\ \A q \in Requests : BeginsOnce(q)
      /\ 0 \notin Requests
    BY RequestsAssumption DEF DispatcherInv, DispatcherTypes, RequestsAssumption
<1> USE <1>t DEF BeginsOnce
<1>1. CASE ReadOpen(r)
    BY <1>1 DEF ReadOpen, command, answer
<1>2. CASE OpenAccepted(r)
    BY <1>2 DEF OpenAccepted, files, command, answer
<1>3. CASE OpenRejected(r)
    BY <1>3 DEF OpenRejected, RemoveDir, command
<1>4. CASE OpenCut(r)
    BY <1>4 DEF OpenCut, RemoveDir, command, answer
<1>5. CASE ReadCancel(r)
    BY <1>5 DEF ReadCancel, files, command, answer
<1>6. CASE MarkCancelled(r)
    BY <1>6 DEF MarkCancelled, command, answer
<1>7. CASE KillCancelled(r)
    BY <1>7, SignalsKeep DEF KillCancelled, KillGroup, files, command,
       answer
<1>8. CASE CleanupKill(r)
    BY <1>8, SignalsKeep DEF CleanupKill, KillGroup, files, command, answer
<1>9. CASE CleanupRemove(r)
    BY <1>9 DEF CleanupRemove, RemoveDir, command, answer
<1>10. CASE CleanupEnds
    BY <1>10 DEF CleanupEnds, files, command, answer
<1>11. CASE WritesPid(r)
    BY <1>11 DEF WritesPid, answer
<1>12. CASE Becomes(r)
    BY <1>12 DEF Becomes, answer
<1>13. CASE CommandEnds(r)
    BY <1>13 DEF CommandEnds, files, answer
<1>14. CASE ChildEnds(r)
    BY <1>14 DEF ChildEnds, files, answer
<1>15. CASE Collects(r)
    BY <1>15 DEF Collects, command, answer
<1>16. CASE KillArrives(r)
    BY <1>16, SignalsKeep DEF KillArrives, files, answer
<1>17. CASE WatchdogFires(r)
    BY <1>17, SignalsKeep DEF WatchdogFires, files, answer
<1>18. CASE WatchdogKills(r)
    BY <1>18, SignalsKeep DEF WatchdogKills, files, answer
<1>19. CASE LooksForCancel(r)
    BY <1>19 DEF LooksForCancel, Moves, files, command
<1>20. CASE Forks(r)
    BY <1>20 DEF Forks, Moves, files, answer
<1>21. CASE ReadsPid(r)
    BY <1>21 DEF ReadsPid, Moves, files, command, answer
<1>22. CASE GivesUpOnPid(r)
    BY <1>22 DEF GivesUpOnPid, Moves, files, command, answer
<1>23. CASE LooksAgain(r)
    BY <1>23, SignalsKeep DEF LooksAgain, KillGroup, Moves, files, command,
       answer
<1>24. CASE SendsReady(r)
    BY <1>24 DEF SendsReady, Moves, files
<1>25. CASE Reaps(r)
    BY <1>25 DEF Reaps, Moves, files, command, answer
<1>26. CASE DrainEnds(r)
    BY <1>26 DEF DrainEnds, Moves, files, command, answer
<1>27. CASE CollectEnds(r)
    BY <1>27 DEF CollectEnds, Moves, files, command, answer
<1>28. CASE StopsWatchdog(r)
    BY <1>28 DEF StopsWatchdog, Moves, files, answer
<1>29. CASE Settles(r)
    BY <1>29 DEF Settles, Moves, files, command
<1>30. CASE SendsExit(r)
    BY <1>30 DEF SendsExit, Moves, files, command
<1>31. CASE Sweeps(r)
    BY <1>31 DEF Sweeps, RemoveDir, Moves, command, answer
<1> QED
    BY <1>1, <1>2, <1>3, <1>4, <1>5, <1>6, <1>7, <1>8, <1>9, <1>10, <1>11,
       <1>12, <1>13, <1>14, <1>15, <1>16, <1>17, <1>18, <1>19, <1>20, <1>21,
       <1>22, <1>23, <1>24, <1>25, <1>26, <1>27, <1>28, <1>29, <1>30, <1>31 DEF
       Steps, Outside, Main, Worker

(* Once everybody has let go of the pipes nobody takes them again. *)
LEMMA MarkedEndStep ==
    ASSUME DispatcherInv, NEW r \in Requests, Steps(r) \/ Outside(r)
    PROVE  \A q \in Requests : MarkedEnd(q)'
<1>t. /\ DOMAIN shell = Requests /\ DOMAIN child = Requests
      /\ \A q \in Requests : MarkedEnd(q) /\ BeginsOnce(q)
    BY DEF DispatcherInv, DispatcherTypes
<1> USE <1>t DEF MarkedEnd, PipesClosed
<1> DEFINE Rest == collected' \subseteq collected /\ UNCHANGED <<shell, child>>
<1>a. Rest => \A q \in Requests : MarkedEnd(q)'
    OBVIOUS
<1>b. ASSUME UNCHANGED collected,
             \A q \in Requests :
                /\ shell'[q] = shell[q] \/ shell'[q] = "dead"
                /\ child'[q] \in {child[q], "none"}
      PROVE  \A q \in Requests : MarkedEnd(q)'
    BY <1>b DEF HoldsPipes
<1>1. CASE Main(r) /\ ~KillCancelled(r) /\ ~CleanupKill(r)
    BY <1>1, <1>a DEF Main, OpenAccepted, OpenRejected, OpenCut, MarkCancelled,
       CleanupRemove, CleanupEnds, RemoveDir, files, command, answer
<1>2. CASE KillCancelled(r) \/ CleanupKill(r) \/ LooksAgain(r)
    BY <1>2, <1>b, SignalsKeep DEF KillCancelled, CleanupKill, LooksAgain,
       KillGroup, files, command, answer
<1>3. CASE KillArrives(r) \/ WatchdogFires(r) \/ WatchdogKills(r)
    BY <1>3, <1>b, SignalsKeep DEF KillArrives, WatchdogFires, WatchdogKills,
       files, command, answer
<1>4. CASE ReadOpen(r) \/ ReadCancel(r)
    BY <1>4, <1>a DEF ReadOpen, ReadCancel, files, command
<1>5. CASE WritesPid(r) \/ Becomes(r)
    BY <1>5 DEF WritesPid, Becomes
<1>6. CASE CommandEnds(r)
    BY <1>6 DEF CommandEnds, files
<1>7. CASE ChildEnds(r)
    BY <1>7, <1>b DEF ChildEnds, files
<1>8. CASE Collects(r)
    BY <1>8 DEF Collects, command
<1>9. CASE Forks(r)
    BY <1>9 DEF Forks, Moves, files, BeginsOnce
<1>10. CASE Worker(r) /\ ~LooksAgain(r) /\ ~Forks(r)
    BY <1>10, <1>a DEF Worker, LooksForCancel, ReadsPid, GivesUpOnPid,
       SendsReady, Reaps, DrainEnds, CollectEnds, StopsWatchdog, Settles,
       SendsExit, Sweeps, RemoveDir, files, command, answer
<1> QED
    BY <1>1, <1>2, <1>3, <1>4, <1>5, <1>6, <1>7, <1>8, <1>9, <1>10
    DEF Steps, Outside

(* What an EXIT frame is about to say stays true. *)
LEMMA SaysSoStep ==
    ASSUME DispatcherInv, NEW r \in Requests, Steps(r) \/ Outside(r)
    PROVE  \A q \in Requests : SaysSo(q)'
<1>t. /\ DOMAIN shell = Requests /\ DOMAIN child = Requests
      /\ DOMAIN worker = Requests /\ DOMAIN sent = Requests /\ DOMAIN may = Requests
      /\ dir \subseteq opened
      /\ \A q \in Requests : BeginsOnce(q) /\ SaysSo(q)
    BY DEF DispatcherInv, DispatcherTypes
<1> USE <1>t DEF SaysSo, Over
<1> DEFINE Still == UNCHANGED <<worker, answer>>
           Milder == \A q \in Requests :
               /\ shell'[q] = shell[q] \/ shell[q] # "dead"
               /\ child'[q] = child[q] \/ shell[q] # "dead" \/ child'[q] = "none"
           Swept == \A q \in Requests :
               (q \in collected \/ q \notin dir) => (q \in collected' \/ q \notin dir')
<1>a. ASSUME Still, Milder, Swept
      PROVE  \A q \in Requests : SaysSo(q)'
    BY <1>a DEF answer
<1>1. CASE KillCancelled(r) \/ CleanupKill(r)
    <2>1. Milder
        BY <1>1, SignalsKeep DEF KillCancelled, CleanupKill, KillGroup, command
    <2> QED
        BY <1>1, <2>1, <1>a DEF KillCancelled, CleanupKill, files
<1>2. CASE KillArrives(r) \/ WatchdogFires(r) \/ WatchdogKills(r)
    <2>1. Milder
        BY <1>2, SignalsKeep DEF KillArrives, WatchdogFires, WatchdogKills
    <2> QED
        BY <1>2, <2>1, <1>a DEF KillArrives, WatchdogFires, WatchdogKills, files
<1>3. CASE WritesPid(r) \/ Becomes(r) \/ CommandEnds(r) \/ ChildEnds(r) \/ Collects(r)
    <2>1. Milder
        BY <1>3 DEF WritesPid, Becomes, CommandEnds, ChildEnds, Collects, command
    <2> QED
        BY <1>3, <2>1, <1>a DEF WritesPid, Becomes, CommandEnds, ChildEnds,
           Collects, files
<1>4. CASE OpenCut(r) \/ MarkCancelled(r) \/ CleanupRemove(r) \/ CleanupEnds \/ ReadCancel(r)
    BY <1>4, <1>a DEF OpenCut, MarkCancelled, CleanupRemove, CleanupEnds,
       ReadCancel, RemoveDir, files, command
<1>5. CASE ReadOpen(r)
    BY <1>5 DEF ReadOpen, command, answer, BeginsOnce
<1>6. CASE OpenAccepted(r)
    BY <1>6 DEF OpenAccepted, files, command, answer, BeginsOnce
<1>7. CASE OpenRejected(r)
    BY <1>7 DEF OpenRejected, RemoveDir, command
<1>8. CASE LooksAgain(r)
    <2>1. Milder
        BY <1>8, SignalsKeep DEF LooksAgain, KillGroup, command
    <2> QED
        BY <1>8, <2>1 DEF LooksAgain, Moves, files, answer
<1>9. CASE LooksForCancel(r) \/ ReadsPid(r) \/ GivesUpOnPid(r)
    BY <1>9 DEF LooksForCancel, ReadsPid, GivesUpOnPid, Moves, files, command, answer
<1>10. CASE Forks(r)
    BY <1>10 DEF Forks, Moves, files, answer, BeginsOnce
<1>11. CASE SendsReady(r)
    BY <1>11 DEF SendsReady, Moves, files
<1>12. CASE Reaps(r) \/ DrainEnds(r) \/ CollectEnds(r) \/ StopsWatchdog(r)
    BY <1>12 DEF Reaps, DrainEnds, CollectEnds, StopsWatchdog, Moves, files,
       command, answer
<1>13. CASE Settles(r)
    <2>1. ~MayContinue(r) => Over(r) /\ r \in collected
        BY DEF MayContinue, GroupAlive, DispatcherInv, DispatcherTypes, MarkedEnd,
           PipesClosed, HoldsPipes, InGroup, Escaped, Offspring
    <2> QED
        BY <1>13, <2>1 DEF Settles, Moves, files, command
<1>14. CASE SendsExit(r)
    BY <1>14 DEF SendsExit, Moves, files, command
<1>15. CASE Sweeps(r)
    BY <1>15 DEF Sweeps, RemoveDir, Moves, command, answer
<1> QED
    BY <1>1, <1>2, <1>3, <1>4, <1>5, <1>6, <1>7, <1>8, <1>9, <1>10, <1>11,
       <1>12, <1>13, <1>14, <1>15 DEF Steps, Outside, Main, Worker

-----------------------------------------------------------------------------
(* The theorems                                                            *)

LEMMA DispatcherSteps == DispatcherInv /\ [DispatcherNext]_dispatcherVars => DispatcherInv'
<1> SUFFICES ASSUME DispatcherInv, [DispatcherNext]_dispatcherVars PROVE DispatcherInv'
    OBVIOUS
<1>1. CASE InputEnds
    BY <1>1 DEF InputEnds, DispatcherInv, DispatcherTypes, BeginsOnce, MarkedEnd,
       PipesClosed, SaysSo, Over, files, command, answer
<1>2. CASE UNCHANGED dispatcherVars
    BY <1>2 DEF dispatcherVars, DispatcherInv, DispatcherTypes, BeginsOnce, MarkedEnd,
       PipesClosed, SaysSo, Over, files, command, answer
<1>3. ASSUME NEW r \in Requests, Steps(r) \/ Outside(r) PROVE DispatcherInv'
    BY <1>3, DispatcherTypesStep, BeginsOnceStep, MarkedEndStep, SaysSoStep
    DEF DispatcherInv
<1> QED
    BY <1>1, <1>2, <1>3 DEF DispatcherNext

(* The dispatcher's files, processes and frames stand in this relation at  *)
(* all times. (dispatcher.sh:388-548)                                      *)
THEOREM DispatcherInvariant == DispatcherSpec => []DispatcherInv
<1>1. DispatcherInit => DispatcherInv
    BY RequestsAssumption DEF RequestsAssumption, DispatcherInit, DispatcherInv,
       DispatcherTypes, BeginsOnce, MarkedEnd, SaysSo, Shells, Workers, Offspring
<1> QED
    BY <1>1, DispatcherSteps, PTL DEF DispatcherSpec

(* An EXIT frame that does not say that the process may continue is the    *)
(* end of the process group and of the output: nothing runs in the group,  *)
(* nothing holds the output pipes, and all of the output was sent,         *)
(* whatever the command leaves behind and whenever signals, time-outs and  *)
(* cancellations come.  A process that left both the group and the pipes   *)
(* may run on, and the frame does not tell. (dispatcher.sh:509-545)        *)
THEOREM ExitTellsTheTruth == DispatcherSpec => []ExitIsTrue
<1>1. DispatcherInv => ExitIsTrue
    BY DEF DispatcherInv, SaysSo, Over, ExitIsTrue, GroupAlive, InGroup, HoldsPipes
<1> QED
    BY <1>1, DispatcherInvariant, PTL

-----------------------------------------------------------------------------
(*                   THE PROGRAMS THAT CHANGE FILES                        *)

(* The scripts: every variable keeps a value of its kind.                  *)

Texts == {"old", "new", Theirs} \X {"old", "new", Theirs}
Reading == {"stat", "read1", "read2", "restat"}
Places == Reading \cup {"idle", "launch", "stage", "link", "compare", "chmod", "swap",
                        "remove", "verify", "settle"}

FileTypes ==
    /\ names \in [Files -> Ids \cup {Absent}]
    /\ inode \in [Ids -> [data : Texts, mode : Nat]]
    /\ seen \in [id : Ids \cup {Absent}, mode : Nat]
    /\ handle \in Ids \cup {Absent} /\ tmp \in Ids \cup {Absent}
    /\ intrusions \in Nat /\ faults \in Nat

CallerTypes ==
    /\ job \in Jobs /\ stage \in {"reading", "mutating", "done"} /\ doing \in Places
    /\ at \in Nat \ {0} /\ waiting \in BOOLEAN /\ (waiting <=> stage # "done")
    /\ doing # "idle" => at <= (IF stage = "reading" THEN Len(job.reads) ELSE Len(job.ops))
    /\ stage = "reading" => doing \in Reading
    /\ stage = "mutating" => doing # "idle"
    /\ snap \in [Files -> {Missing} \cup [data : Texts, mode : Nat]]
    /\ report \in [changed : SUBSET Paths, unknown : SUBSET Paths, same : SUBSET Paths]

(* What dd has read is as long as the program counter says.                *)
HalvesRead ==
    /\ doing = "read2" => handle \in Ids /\ \E x \in {"old", "new", Theirs} : acc = <<x>>
    /\ doing = "restat" => acc \in Texts

(* What the caller has been told, while it waits and afterwards.           *)
Past == {job.ops[k].path : k \in 1 .. (at - 1)}
Rest == {job.ops[j].path : j \in at .. ScriptEnd}

Partition ==
    /\ report.changed \cup report.same \cup report.unknown = Paths
    /\ report.changed \cap report.same = {} /\ report.changed \cap report.unknown = {}
    /\ report.same \cap report.unknown = {}

ReadingChangesNothing ==
    stage = "reading" =>
        /\ touched = {} /\ prefix = {}
        /\ report = [changed |-> {}, unknown |-> {}, same |-> {}]

ProgressSoFar ==
    stage = "mutating" =>
        /\ report.unknown = {} /\ report.same = {}
        /\ report.changed \cup prefix \subseteq touched
        /\ report.changed \cup prefix \subseteq Past
        /\ report.changed \cap prefix = {}
        /\ touched \subseteq report.changed \cup prefix \cup {P}
        /\ P \in touched => doing = "verify"

VerifiesAChange == doing = "verify" => P \in touched

AnswerIsTrue ==
    stage = "done" =>
        /\ Partition
        /\ report.changed \subseteq touched /\ report.same \cap touched = {}
        /\ doing # "idle" => Rest \subseteq report.unknown

ProgressInv == ReadingChangesNothing /\ ProgressSoFar /\ VerifiesAChange /\ AnswerIsTrue

(* Names and inodes: no inode has two names, and the staged file has none. *)
NamesApart == \A p, q \in Files : p # q /\ names[p] = names[q] => names[p] = Absent

Staged ==
    \/ doing \in {"link", "settle", "compare", "chmod", "swap"}
    \/ doing \in {"read1", "read2", "restat"} /\ stage # "reading" /\ ~Batch /\ Op.op # "delete"

StagedApart == Staged => tmp \in Ids /\ \A p \in Files : names[p] # tmp

SameHasBase ==
    stage # "reading" /\ doing # "idle" =>
        \A i \in DOMAIN job.ops : job.ops[i].op = "same" => snap[job.ops[i].path] # Missing

(* What a write or a delete still knows of the path it has looked at.      *)
LookedAt ==
    stage # "reading" /\ ~Batch =>
        /\ doing # "settle"
        /\ doing \in {"compare", "read1", "read2", "restat", "chmod", "swap", "remove"} => ~Creates
        /\ doing \in {"stage", "compare", "read1", "read2", "restat", "chmod", "swap", "remove"}
              /\ ~Creates => seen.id # Absent

HalfKnown ==
    stage # "reading" /\ ~Batch /\ doing = "read2" /\ "reused" \notin window /\ names[P] = seen.id =>
        handle = seen.id /\ ("data" \notin window => acc = <<inode[seen.id].data[1]>>)

WholeKnown ==
    stage # "reading" /\ ~Batch /\ doing = "restat" /\ "reused" \notin window
        /\ "data" \notin window /\ names[P] = seen.id => acc = inode[seen.id].data

AboutToChange ==
    stage # "reading" /\ ~Batch /\ doing \in {"chmod", "swap", "remove"} =>
        /\ names[P] # seen.id => "entry" \in window
        /\ window = {} /\ Guarded => inode[names[P]].data = Base.data
        /\ Op.op # "delete" /\ window \cap {"entry", "reused", "mode"} = {} => Look(P) = seen
        /\ doing = "swap" => inode[tmp].mode = seen.mode
        /\ doing = "remove" => Op.op = "delete"

(* And the batch program, which looks less often.                          *)
BatchKnows ==
    stage # "reading" /\ Batch =>
        /\ doing \notin {"compare", "chmod"}
        /\ doing \in {"settle", "swap", "remove"} => ~Creates
        /\ doing = "read2" /\ window = {} => names[P] = handle /\ acc = <<inode[handle].data[1]>>
        /\ doing = "restat" /\ window = {} => names[P] # Absent /\ acc = inode[names[P]].data
        /\ doing \in {"stage", "settle", "swap", "remove"} /\ ~Creates /\ Guarded =>
              /\ names[P] # seen.id => "entry" \in window
              /\ window = {} => names[P] # Absent /\ inode[names[P]].data = Base.data

WindowInv == /\ NamesApart /\ StagedApart /\ SameHasBase
             /\ LookedAt /\ HalfKnown /\ WholeKnown /\ AboutToChange /\ BatchKnows

-----------------------------------------------------------------------------
(* Where a job is.                                                         *)

LEMMA ItemOf ==
    ASSUME NEW S, NEW s \in Seq(S), NEW i \in DOMAIN s
    PROVE  s[i] \in S
OBVIOUS

LEMMA JobsAreJobs ==
    ASSUME job \in Jobs
    PROVE  /\ job.reads \in Seq(Files)
           /\ job.ops \in Seq([path : Files, op : OpKind, last : BOOLEAN])
           /\ job.ops # <<>> /\ job.ops[Len(job.ops)].last
           /\ \A i, k \in DOMAIN job.ops : job.ops[i].path = job.ops[k].path => i = k
           /\ job.reads = <<>> => \A i \in DOMAIN job.ops : job.ops[i].op = "overwrite"
BY FilesAssumption DEF FilesAssumption

Working == stage # "reading" /\ doing # "idle"

(* The path that is worked on is one of the job, and not a settled one.    *)
LEMMA WorkedOn ==
    ASSUME CallerTypes, Working
    PROVE  /\ at \in DOMAIN job.ops /\ DOMAIN job.ops = 1 .. Len(job.ops)
           /\ Len(job.ops) \in Nat /\ at \in 1 .. Len(job.ops)
           /\ Op \in [path : Files, op : OpKind, last : BOOLEAN]
           /\ P = Op.path /\ P \in Files /\ P \in Paths /\ P \notin Past
           /\ Past \subseteq Paths /\ Paths \subseteq Files
<1>1. job \in Jobs /\ at \in Nat \ {0} /\ at <= Len(job.ops)
    BY DEF CallerTypes, Working
<1>2. job.ops \in Seq([path : Files, op : OpKind, last : BOOLEAN])
    BY <1>1, JobsAreJobs
<1>3. DOMAIN job.ops = 1 .. Len(job.ops) /\ Len(job.ops) \in Nat
    BY <1>2
<1>4. at \in DOMAIN job.ops
    BY <1>1, <1>3
<1>5. \A i \in DOMAIN job.ops : job.ops[i] \in [path : Files, op : OpKind, last : BOOLEAN]
    BY <1>2, ItemOf
<1>6. P = Op.path /\ Op \in [path : Files, op : OpKind, last : BOOLEAN]
    BY <1>4, <1>5 DEF P, Op, Working
<1>7. \A i, k \in DOMAIN job.ops : job.ops[i].path = job.ops[k].path => i = k
    BY <1>1, JobsAreJobs
<1>8. P \notin Past
    <2>1. SUFFICES ASSUME NEW k \in 1 .. (at - 1), job.ops[k].path = Op.path PROVE FALSE
        BY <1>6 DEF Past
    <2>2. k \in DOMAIN job.ops /\ k # at
        BY <1>1, <1>3
    <2> QED
        BY <1>4, <1>7, <2>1, <2>2 DEF Op
<1>9. Past \subseteq Paths
    BY <1>1, <1>3 DEF Past, Paths
<1>10. P \in Paths /\ Paths \subseteq Files
    BY <1>4, <1>5, <1>6 DEF Paths, Op
<1> QED
    BY <1>1, <1>3, <1>4, <1>6, <1>8, <1>9, <1>10

EndsAt(a, j) ==
    /\ j \in a .. Len(job.ops) /\ job.ops[j].last
    /\ \A k \in a .. (j - 1) : ~job.ops[k].last

LEMMA OneEnd ==
    ASSUME NEW a \in Nat, NEW j, NEW k, EndsAt(a, j), EndsAt(a, k), Len(job.ops) \in Nat
    PROVE  j = k
<1>1. j \in Nat /\ k \in Nat /\ a <= j /\ a <= k
    BY DEF EndsAt
<1>2. ~(j < k) /\ ~(k < j)
    BY <1>1 DEF EndsAt
<1> QED
    BY <1>1, <1>2

(* Every program has a last operation: the job has one.                    *)
LEMMA SomeEnd ==
    ASSUME CallerTypes, Working
    PROVE  EndsAt(at, ScriptEnd)
<1> DEFINE S == {j \in at .. Len(job.ops) : job.ops[j].last}
<1>1. at \in 1 .. Len(job.ops) /\ Len(job.ops) \in Nat /\ job.ops[Len(job.ops)].last
    BY WorkedOn, JobsAreJobs DEF CallerTypes
<1>2. S \in SUBSET Nat /\ S # {}
    BY <1>1
<1>3. PICK j \in S : \A q \in S : ~ (<<q, j>> \in OpToRel(<, Nat))
    BY <1>2, NatLessThanWellFounded, WFMin
<1>4. ASSUME NEW q \in S PROVE ~ (q < j)
    <2>1. q \in Nat /\ j \in Nat
        BY <1>2
    <2>2. q < j => <<q, j>> \in OpToRel(<, Nat)
        BY <2>1 DEF OpToRel
    <2> QED
        BY <1>3, <2>2, Zenon
<1>5. EndsAt(at, j)
    <2>1. j \in at .. Len(job.ops) /\ job.ops[j].last
        OBVIOUS
    <2>2. ASSUME NEW k \in at .. (j - 1), job.ops[k].last PROVE FALSE
        <3>1. k \in S /\ k < j
            BY <1>1, <2>1, <2>2
        <3> QED
            BY <1>4, <3>1
    <2> QED
        BY <2>1, <2>2 DEF EndsAt
<1>6. \E e \in at .. Len(job.ops) :
          job.ops[e].last /\ \A k \in at .. (e - 1) : ~job.ops[k].last
    BY <1>5 DEF EndsAt
<1>7. /\ ScriptEnd \in at .. Len(job.ops) /\ job.ops[ScriptEnd].last
      /\ \A k \in at .. (ScriptEnd - 1) : ~job.ops[k].last
    BY <1>6, Zenon DEF ScriptEnd
<1> QED
    BY <1>7 DEF EndsAt

(* What is left of the program: the path that is worked on, and no settled *)
(* one.                                                                    *)
LEMMA RestOfProgram ==
    ASSUME CallerTypes, Working
    PROVE  P \in Rest /\ Rest \subseteq Paths /\ Rest \cap Past = {}
<1>1. EndsAt(at, ScriptEnd) /\ at \in 1 .. Len(job.ops) /\ Len(job.ops) \in Nat /\ P = Op.path
    BY SomeEnd, WorkedOn
<1>2. ScriptEnd \in at .. Len(job.ops) /\ DOMAIN job.ops = 1 .. Len(job.ops)
    BY <1>1, WorkedOn DEF EndsAt
<1>3. P \in Rest
    BY <1>1, <1>2 DEF Rest, Op
<1>4. Rest \subseteq Paths
    BY <1>1, <1>2 DEF Rest, Paths
<1>5. \A i, k \in DOMAIN job.ops : job.ops[i].path = job.ops[k].path => i = k
    BY JobsAreJobs DEF CallerTypes
<1>6. ASSUME NEW j \in at .. ScriptEnd, NEW k \in 1 .. (at - 1)
      PROVE  job.ops[j].path # job.ops[k].path
    <2>1. j \in DOMAIN job.ops /\ k \in DOMAIN job.ops /\ j # k
        BY <1>1, <1>2
    <2> QED
        BY <1>5, <2>1
<1> QED
    BY <1>3, <1>4, <1>6 DEF Rest, Past

(* The next operation of the same program ends where this one does.        *)
LEMMA RestShrinks ==
    ASSUME CallerTypes, Working, CallerTypes', Working', ~Op.last, at' = at + 1, job' = job
    PROVE  Rest' \subseteq Rest
<1>1. EndsAt(at, ScriptEnd) /\ at \in 1 .. Len(job.ops) /\ Len(job.ops) \in Nat
    BY SomeEnd, WorkedOn
<1>2. EndsAt(at, ScriptEnd)'
    BY SomeEnd, PTL
<1>3. EndsAt(at + 1, ScriptEnd')
    BY <1>2 DEF EndsAt
<1>4. EndsAt(at + 1, ScriptEnd)
    BY <1>1 DEF EndsAt, Op
<1>5. ScriptEnd' = ScriptEnd
    BY <1>1, <1>3, <1>4, OneEnd
<1>6. ScriptEnd \in Nat
    BY <1>1 DEF EndsAt
<1> QED
    BY <1>1, <1>5, <1>6 DEF Rest

LEMMA SameEnd ==
    ASSUME job' = job, at' = at
    PROVE  ScriptEnd' = ScriptEnd /\ Rest' = Rest /\ Past' = Past /\ Paths' = Paths
<1>1. ScriptEnd' = ScriptEnd
    BY Zenon DEF ScriptEnd
<1> QED
    BY <1>1 DEF Rest, Past, Paths

-----------------------------------------------------------------------------
(* What the caller says: how each way to go on or to end keeps it true.    *)

LEMMA GoesKeeps ==
    ASSUME CallerTypes, ProgressInv, Working, UNCHANGED caller, doing' \in Places \ {"idle"},
           \/ touched' = touched /\ doing # "verify" /\ doing' # "verify"
           \/ touched' = touched \cup {P} /\ doing' = "verify"
    PROVE  CallerTypes' /\ ProgressInv'
<1>1. /\ job' = job /\ at' = at /\ stage' = stage /\ waiting' = waiting /\ report' = report
      /\ snap' = snap /\ prefix' = prefix
    BY DEF caller
<1>2. Rest' = Rest /\ Past' = Past /\ Paths' = Paths
    BY <1>1, SameEnd
<1>3. P' = P /\ P \in Rest /\ P \in Paths
    BY <1>1, RestOfProgram, WorkedOn DEF P, Op
<1>4. CallerTypes'
    BY <1>1, <1>2 DEF CallerTypes, Working
<1>5. ReadingChangesNothing'
    BY <1>1 DEF ReadingChangesNothing, Working
<1>6. ProgressSoFar'
    BY <1>1, <1>2, <1>3 DEF ProgressInv, ProgressSoFar
<1>7. VerifiesAChange'
    BY <1>3 DEF VerifiesAChange
<1>8. AnswerIsTrue'
    <2>1. stage = "done" => Partition /\ P \in report.unknown
        BY <1>3 DEF ProgressInv, AnswerIsTrue, Working
    <2>2. stage = "done" => Partition'
        BY <1>1, <1>2, <2>1 DEF Partition
    <2>3. stage = "done" => report.same \cap touched' = {}
        BY <2>1 DEF ProgressInv, AnswerIsTrue, Partition
    <2> QED
        BY <1>1, <1>2, <2>2, <2>3 DEF ProgressInv, AnswerIsTrue, Working
<1> QED
    BY <1>4, <1>5, <1>6, <1>7, <1>8 DEF ProgressInv

LEMMA EndsKeeps ==
    ASSUME CallerTypes, ProgressInv, Working,
           NEW c \in SUBSET Paths, NEW u \in SUBSET Paths, Ends(c, u),
           (report.changed \cup c) \cap u = {},
           waiting => /\ touched' \subseteq report.changed \cup c \cup u
                      /\ report.changed \cup c \subseteq touched',
           ~waiting => touched \subseteq touched' /\ touched' \subseteq touched \cup {P}
    PROVE  CallerTypes' /\ ProgressInv'
<1>1. /\ job' = job /\ at' = at /\ stage' = "done" /\ waiting' = FALSE /\ doing' = "idle"
      /\ snap' = snap
      /\ report' = IF ~waiting THEN report
                   ELSE [changed |-> report.changed \cup c, unknown |-> u,
                         same |-> Paths \ (report.changed \cup c \cup u)]
    BY DEF Ends
<1>2. Paths' = Paths
    BY <1>1, SameEnd
<1>3. report.changed \subseteq Paths /\ report'
          \in [changed : SUBSET Paths, unknown : SUBSET Paths, same : SUBSET Paths]
    BY <1>1 DEF CallerTypes
<1>4. CallerTypes'
    BY <1>1, <1>2, <1>3 DEF CallerTypes, Places
<1>5. ReadingChangesNothing' /\ ProgressSoFar' /\ VerifiesAChange'
    BY <1>1 DEF ReadingChangesNothing, ProgressSoFar, VerifiesAChange
<1>6. CASE waiting
    <2>1. /\ report'.changed = report.changed \cup c /\ report'.unknown = u
          /\ report'.same = Paths \ (report.changed \cup c \cup u)
        BY <1>1, <1>6
    <2>2. Partition'
        BY <1>2, <1>3, <2>1 DEF Partition
    <2>3. report'.changed \subseteq touched' /\ report'.same \cap touched' = {}
        BY <1>6, <2>1
    <2> QED
        BY <1>1, <1>4, <1>5, <2>2, <2>3 DEF ProgressInv, AnswerIsTrue
<1>7. CASE ~waiting
    <2>1. stage = "done"
        BY <1>7 DEF CallerTypes
    <2>2. P \in report.unknown /\ Partition
        BY <2>1, RestOfProgram DEF ProgressInv, AnswerIsTrue, Working
    <2>3. Partition'
        BY <1>1, <1>2, <1>7, <2>2 DEF Partition
    <2>4. report.changed \subseteq touched' /\ report.same \cap touched' = {}
        BY <1>7, <2>1, <2>2 DEF ProgressInv, AnswerIsTrue, Partition
    <2> QED
        BY <1>1, <1>4, <1>5, <1>7, <2>3, <2>4 DEF ProgressInv, AnswerIsTrue
<1> QED
    BY <1>6, <1>7

LEMMA MutatingIsWaiting ==
    ASSUME CallerTypes, ProgressInv, Working, waiting
    PROVE  /\ report.changed \cup prefix \subseteq touched
           /\ report.changed \cup prefix \subseteq Past
           /\ report.changed \cap prefix = {}
           /\ touched \subseteq report.changed \cup prefix \cup {P}
           /\ P \in touched => doing = "verify"
           /\ report.unknown = {} /\ report.same = {} /\ stage = "mutating"
BY DEF CallerTypes, ProgressInv, ProgressSoFar, Working

(* Nobody waits for the list of settled paths of a program that runs on.   *)
LEMMA EndsUnheard ==
    ASSUME CallerTypes, ProgressInv, Working, ~waiting, NEW c, NEW u, Ends(c, u),
           touched \subseteq touched' /\ touched' \subseteq touched \cup {P}
    PROVE  CallerTypes' /\ ProgressInv'
<1>1. Ends({}, {})
    BY DEF Ends
<1>2. report.changed \subseteq Paths
    BY DEF CallerTypes
<1> QED
    BY <1>1, EndsKeeps

LEMMA DeclinesKeeps ==
    ASSUME CallerTypes, ProgressInv, Working, Declines, touched' = touched, doing # "verify"
    PROVE  CallerTypes' /\ ProgressInv'
<1>1. Ends(prefix, {})
    BY DEF Declines
<1>2. CASE ~waiting
    BY <1>1, <1>2, EndsUnheard
<1>3. CASE waiting
    <2>1. /\ prefix \in SUBSET Paths
          /\ touched \subseteq report.changed \cup prefix
          /\ report.changed \cup prefix \subseteq touched
        BY <1>3, MutatingIsWaiting, WorkedOn
    <2> QED
        BY <1>1, <1>3, <2>1, EndsKeeps
<1> QED
    BY <1>2, <1>3

LEMMA UnknownIs ==
    ASSUME CallerTypes, ProgressInv, Working, waiting
    PROVE  /\ Unknown = prefix \cup Rest /\ Unknown \subseteq Paths
           /\ report.changed \cap Unknown = {} /\ P \in Unknown
<1>1. Unknown = prefix \cup Rest
    BY DEF Unknown, Rest
<1> QED
    BY <1>1, MutatingIsWaiting, RestOfProgram, WorkedOn

LEMMA DiesKeeps ==
    ASSUME CallerTypes, ProgressInv, Working, NEW left, Fails(left), touched' = touched
    PROVE  CallerTypes' /\ ProgressInv'
<1>1. Ends({}, Unknown)
    BY DEF Fails
<1>2. CASE ~waiting
    BY <1>1, <1>2, EndsUnheard
<1>3. CASE waiting
    <2>1. /\ Unknown \in SUBSET Paths /\ report.changed \cap Unknown = {} /\ P \in Unknown
          /\ Unknown = prefix \cup Rest
        BY <1>3, UnknownIs
    <2>2. touched \subseteq report.changed \cup Unknown /\ report.changed \subseteq touched
        BY <1>3, <2>1, MutatingIsWaiting
    <2> QED
        BY <1>1, <1>3, <2>1, <2>2, EndsKeeps
<1> QED
    BY <1>2, <1>3

LEMMA SucceedsKeeps ==
    ASSUME CallerTypes, ProgressInv, Working, Succeeds, touched' = touched \cup {P}
    PROVE  CallerTypes' /\ ProgressInv'
<1>0. /\ P \in Paths /\ P \notin Past /\ Past \subseteq Paths
      /\ at \in 1 .. Len(job.ops) /\ Len(job.ops) \in Nat
      /\ job.ops[Len(job.ops)].last /\ P = Op.path
    BY WorkedOn, JobsAreJobs DEF CallerTypes
<1>1. CASE Op.last /\ (at = Len(job.ops) \/ ~waiting)
    <2>1. Ends(prefix \cup {P}, {})
        BY <1>1 DEF Succeeds
    <2>2. CASE ~waiting
        BY <2>1, <2>2, EndsUnheard
    <2>3. CASE waiting
        <3>1. /\ prefix \cup {P} \in SUBSET Paths
              /\ touched' \subseteq report.changed \cup (prefix \cup {P})
              /\ report.changed \cup (prefix \cup {P}) \subseteq touched'
            BY <1>0, <2>3, MutatingIsWaiting
        <3> QED
            BY <2>1, <2>3, <3>1, EndsKeeps
    <2> QED
        BY <2>2, <2>3
<1>2. CASE ~(Op.last /\ (at = Len(job.ops) \/ ~waiting))
    <2>1. /\ at' = at + 1 /\ job' = job /\ stage' = stage /\ snap' = snap
          /\ waiting' = waiting
          /\ IF Op.last
             THEN /\ report' = [report EXCEPT !.changed = @ \cup prefix \cup {P}]
                  /\ prefix' = {} /\ doing' = "launch"
             ELSE /\ prefix' = prefix \cup {P} /\ doing' = "stat" /\ report' = report
        BY <1>2 DEF Succeeds
    <2>2. at + 1 <= Len(job.ops) /\ at + 1 \in Nat \ {0}
        <3>1. at # Len(job.ops)
            BY <1>0, <1>2 DEF Op
        <3> QED
            BY <1>0, <3>1
    <2>3. Paths' = Paths /\ Past' = Past \cup {P}
        <3>1. 1 .. (at + 1 - 1) = 1 .. (at - 1) \cup {at}
            BY <1>0
        <3> QED
            BY <1>0, <2>1, <3>1 DEF Paths, Past, Op
    <2>4. report \in [changed : SUBSET Paths, unknown : SUBSET Paths, same : SUBSET Paths]
        BY DEF CallerTypes
    <2>5. waiting => prefix \subseteq Paths
        BY <1>0, MutatingIsWaiting
    <2>6. Op.last => waiting
        BY <1>2
    <2>7. report' \in [changed : SUBSET Paths, unknown : SUBSET Paths, same : SUBSET Paths]
        <3>1. CASE Op.last
            BY <1>0, <2>1, <2>4, <2>5, <2>6, <3>1
        <3>2. CASE ~Op.last
            BY <2>1, <2>4, <3>2
        <3> QED
            BY <3>1, <3>2
    <2>8. CallerTypes'
        BY <2>1, <2>2, <2>3, <2>7 DEF CallerTypes, Working, Places, Reading
    <2>9. Working' /\ doing' \in {"launch", "stat"}
        BY <2>1 DEF Working
    <2>10. (P \in Paths /\ P \notin Past)'
        BY <2>8, <2>9, WorkedOn, PTL
    <2>11. ReadingChangesNothing' /\ VerifiesAChange'
        BY <2>9 DEF ReadingChangesNothing, VerifiesAChange, Working
    <2>12. CASE waiting
        <3>1. stage' = "mutating" /\ stage' # "done"
            BY <2>1, <2>12, MutatingIsWaiting
        <3>2. /\ report'.changed \cup prefix' = report.changed \cup prefix \cup {P}
              /\ report'.unknown = {} /\ report'.same = {}
              /\ report'.changed \cap prefix' = {}
            <4>1. /\ report.unknown = {} /\ report.same = {}
                  /\ report.changed \cap prefix = {} /\ P \notin report.changed
                BY <1>0, <2>12, MutatingIsWaiting
            <4>2. CASE Op.last
                BY <2>1, <2>4, <4>1, <4>2
            <4>3. CASE ~Op.last
                BY <2>1, <4>1, <4>3
            <4> QED
                BY <4>2, <4>3
        <3>3. /\ report'.changed \cup prefix' \subseteq touched'
              /\ report'.changed \cup prefix' \subseteq Past'
              /\ touched' \subseteq report'.changed \cup prefix'
            BY <2>3, <2>12, <3>2, MutatingIsWaiting
        <3>4. ProgressSoFar'
            BY <2>10, <3>1, <3>2, <3>3 DEF ProgressSoFar
        <3>5. AnswerIsTrue'
            BY <3>1 DEF AnswerIsTrue
        <3> QED
            BY <2>8, <2>11, <3>4, <3>5 DEF ProgressInv
    <2>13. CASE ~waiting
        <3>1. stage = "done" /\ stage' = "done" /\ ~Op.last /\ report' = report
            BY <2>1, <2>6, <2>13 DEF CallerTypes
        <3>2. P \in report.unknown /\ Partition /\ Rest \subseteq report.unknown
              /\ report.changed \subseteq touched /\ report.same \cap touched = {}
            BY <3>1, RestOfProgram DEF ProgressInv, AnswerIsTrue, Working
        <3>3. Rest' \subseteq Rest
            BY <2>1, <2>8, <2>9, <3>1, RestShrinks
        <3>4. Partition'
            BY <2>3, <3>1, <3>2 DEF Partition
        <3>5. report.changed \subseteq touched' /\ report.same \cap touched' = {}
            BY <3>2 DEF Partition
        <3>6. AnswerIsTrue'
            BY <3>1, <3>2, <3>3, <3>4, <3>5 DEF AnswerIsTrue
        <3>7. ProgressSoFar'
            BY <3>1 DEF ProgressSoFar
        <3> QED
            BY <2>8, <2>11, <3>6, <3>7 DEF ProgressInv
    <2> QED
        BY <2>12, <2>13
<1> QED
    BY <1>1, <1>2

LEMMA GivingUpKeeps ==
    ASSUME CallerTypes, ProgressInv, HostGivesUp
    PROVE  CallerTypes' /\ ProgressInv'
<1>1. /\ job' = job /\ at' = at /\ snap' = snap /\ prefix' = prefix /\ touched' = touched
      /\ doing' = doing /\ stage' = "done" /\ waiting' = FALSE /\ stage = "mutating" /\ waiting
      /\ doing \notin {"idle", "launch"}
      /\ report' = [report EXCEPT !.unknown = Unknown,
                                  !.same = Paths \ (report.changed \cup Unknown)]
    BY DEF HostGivesUp, program
<1>2. Paths' = Paths /\ Rest' = Rest /\ P' = P
    BY <1>1, SameEnd DEF P, Op
<1>3. Working
    BY <1>1 DEF Working
<1>4. /\ Unknown = prefix \cup Rest /\ Unknown \subseteq Paths
      /\ report.changed \cap Unknown = {} /\ P \in Unknown
    BY <1>1, <1>3, UnknownIs
<1>5. report \in [changed : SUBSET Paths, unknown : SUBSET Paths, same : SUBSET Paths]
    BY DEF CallerTypes
<1>6. /\ report'.changed = report.changed /\ report'.unknown = Unknown
      /\ report'.same = Paths \ (report.changed \cup Unknown)
      /\ report' \in [changed : SUBSET Paths, unknown : SUBSET Paths, same : SUBSET Paths]
    BY <1>1, <1>4, <1>5
<1>7. CallerTypes'
    BY <1>1, <1>2, <1>6 DEF CallerTypes
<1>8. Partition'
    BY <1>2, <1>4, <1>5, <1>6 DEF Partition
<1>9. report.changed \subseteq touched /\ touched \subseteq report.changed \cup Unknown
    BY <1>1, <1>3, <1>4, MutatingIsWaiting
<1>10. AnswerIsTrue'
    BY <1>1, <1>2, <1>4, <1>6, <1>8, <1>9 DEF AnswerIsTrue
<1>11. ReadingChangesNothing' /\ ProgressSoFar' /\ VerifiesAChange'
    BY <1>1, <1>2 DEF ReadingChangesNothing, ProgressSoFar, VerifiesAChange, ProgressInv
<1> QED
    BY <1>7, <1>10, <1>11 DEF ProgressInv

(* Before a program that changes something is started, nothing is changed. *)
LEMMA ReadFailsKeeps ==
    ASSUME CallerTypes, ProgressInv, stage = "reading", ReadFails, touched' = touched
    PROVE  CallerTypes' /\ ProgressInv'
<1>1. /\ job' = job /\ at' = at /\ snap' = snap /\ stage' = "done" /\ waiting' = FALSE
      /\ doing' = "idle" /\ report' = [report EXCEPT !.same = Paths]
    BY DEF ReadFails
<1>2. touched' = {} /\ report = [changed |-> {}, unknown |-> {}, same |-> {}]
    BY DEF ProgressInv, ReadingChangesNothing
<1>3. Paths' = Paths /\ report' = [changed |-> {}, unknown |-> {}, same |-> Paths]
    BY <1>1, <1>2, SameEnd
<1>4. CallerTypes'
    BY <1>1, <1>3 DEF CallerTypes, Places
<1>5. Partition'
    BY <1>3 DEF Partition
<1>6. ReadingChangesNothing' /\ ProgressSoFar' /\ VerifiesAChange' /\ AnswerIsTrue'
    BY <1>1, <1>2, <1>3, <1>5
       DEF ReadingChangesNothing, ProgressSoFar, VerifiesAChange, AnswerIsTrue
<1> QED
    BY <1>4, <1>6 DEF ProgressInv

LEMMA ReadAPath ==
    ASSUME CallerTypes, stage = "reading"
    PROVE  /\ at \in 1 .. Len(job.reads) /\ Len(job.reads) \in Nat /\ P \in Files
           /\ doing \in Reading
<1>1. job.reads \in Seq(Files)
    BY JobsAreJobs DEF CallerTypes
<1>2. at \in Nat \ {0} /\ at <= Len(job.reads) /\ Len(job.reads) \in Nat
    BY <1>1 DEF CallerTypes, Reading
<1>3. job.reads[at] \in Files
    BY <1>1, <1>2
<1> QED
    BY <1>2, <1>3 DEF P, CallerTypes

LEMMA KeepKeeps ==
    ASSUME CallerTypes, ProgressInv, SameHasBase, stage = "reading", touched' = touched,
           NEW base \in {Missing} \cup [data : Texts, mode : Nat], Keep(base)
    PROVE  CallerTypes' /\ ProgressInv' /\ SameHasBase'
<1> DEFINE next == [snap EXCEPT ![P] = base]
<1>1. P \in Files /\ at \in 1 .. Len(job.reads) /\ Len(job.reads) \in Nat
    BY ReadAPath
<1>2. next \in [Files -> {Missing} \cup [data : Texts, mode : Nat]]
    BY <1>1 DEF CallerTypes
<1>3. touched' = {} /\ prefix = {} /\ report = [changed |-> {}, unknown |-> {}, same |-> {}]
    BY DEF ProgressInv, ReadingChangesNothing
<1>4. CASE at < Len(job.reads)
    <2>1. /\ at' = at + 1 /\ doing' = "stat" /\ snap' = next /\ job' = job /\ stage' = "reading"
          /\ prefix' = {} /\ waiting' = waiting /\ report' = report
        BY <1>3, <1>4 DEF Keep
    <2>2. Paths' = Paths
        BY <2>1 DEF Paths
    <2>3. CallerTypes'
        BY <1>1, <1>2, <1>4, <2>1, <2>2 DEF CallerTypes, Places, Reading
    <2>4. ReadingChangesNothing' /\ ProgressSoFar' /\ VerifiesAChange' /\ AnswerIsTrue'
        BY <1>3, <2>1 DEF ReadingChangesNothing, ProgressSoFar, VerifiesAChange, AnswerIsTrue
    <2> QED
        BY <2>1, <2>3, <2>4 DEF ProgressInv, SameHasBase
<1>5. CASE /\ ~(at < Len(job.reads))
           /\ \A i \in DOMAIN job.ops : Fits(job.ops[i], next[job.ops[i].path])
    <2>1. /\ at' = 1 /\ doing' = "launch" /\ snap' = next /\ job' = job /\ stage' = "mutating"
          /\ prefix' = {} /\ waiting' = waiting /\ report' = report
        BY <1>3, <1>5 DEF Keep
    <2>2. Paths' = Paths
        BY <2>1 DEF Paths
    <2>3. 1 <= Len(job.ops)
        BY JobsAreJobs DEF CallerTypes
    <2>4. CallerTypes'
        BY <1>2, <2>1, <2>2, <2>3 DEF CallerTypes, Places, Reading
    <2>5. ReadingChangesNothing' /\ ProgressSoFar' /\ VerifiesAChange' /\ AnswerIsTrue'
        BY <1>3, <2>1 DEF ReadingChangesNothing, ProgressSoFar, VerifiesAChange, AnswerIsTrue
    <2>6. \A i \in DOMAIN job.ops :
              job.ops[i].op = "same" => next[job.ops[i].path] # Missing
        BY <1>5 DEF Fits
    <2> QED
        BY <2>1, <2>4, <2>5, <2>6 DEF ProgressInv, SameHasBase
<1>6. CASE /\ ~(at < Len(job.reads))
           /\ ~ \A i \in DOMAIN job.ops : Fits(job.ops[i], next[job.ops[i].path])
    <2>1. /\ at' = at /\ doing' = "idle" /\ snap' = snap /\ job' = job /\ stage' = "done"
          /\ waiting' = FALSE /\ report' = [report EXCEPT !.same = Paths]
        BY <1>6 DEF Keep
    <2>2. Paths' = Paths /\ report' = [changed |-> {}, unknown |-> {}, same |-> Paths]
        BY <1>3, <2>1, SameEnd
    <2>3. CallerTypes'
        BY <2>1, <2>2 DEF CallerTypes, Places
    <2>4. Partition'
        BY <2>2 DEF Partition
    <2>5. ReadingChangesNothing' /\ ProgressSoFar' /\ VerifiesAChange' /\ AnswerIsTrue'
        BY <1>3, <2>1, <2>2, <2>4
           DEF ReadingChangesNothing, ProgressSoFar, VerifiesAChange, AnswerIsTrue
    <2> QED
        BY <2>1, <2>3, <2>5 DEF ProgressInv, SameHasBase
<1> QED
    BY <1>4, <1>5, <1>6

(* A program that reads goes on.                                           *)
LEMMA ReadsOn ==
    ASSUME CallerTypes, ProgressInv, stage = "reading", UNCHANGED caller, touched' = touched,
           doing' \in Reading
    PROVE  CallerTypes' /\ ProgressInv'
<1>1. /\ job' = job /\ at' = at /\ stage' = "reading" /\ waiting' = waiting
      /\ report' = report /\ snap' = snap /\ prefix' = prefix
    BY DEF caller
<1>2. Paths' = Paths
    BY <1>1 DEF Paths
<1>3. CallerTypes'
    BY <1>1, <1>2, ReadAPath DEF CallerTypes, Places, Reading
<1>4. ReadingChangesNothing' /\ ProgressSoFar' /\ VerifiesAChange' /\ AnswerIsTrue'
    BY <1>1 DEF ReadingChangesNothing, ProgressSoFar, VerifiesAChange, AnswerIsTrue,
                ProgressInv, Reading
<1> QED
    BY <1>3, <1>4 DEF ProgressInv

-----------------------------------------------------------------------------
(* The inductive invariant of the scripts, and what every step shares.     *)

ScriptInv == CallerTypes /\ FileTypes /\ HalvesRead /\ ProgressInv /\ WindowInv

LEMMA SameCaller ==
    ASSUME UNCHANGED caller
    PROVE  /\ job' = job /\ stage' = stage /\ at' = at /\ snap' = snap /\ waiting' = waiting
           /\ report' = report /\ prefix' = prefix
           /\ P' = P /\ Op' = Op /\ Base' = Base /\ Batch' = Batch
           /\ Creates' = Creates /\ Guarded' = Guarded /\ Desired' = Desired
<1>1. /\ job' = job /\ stage' = stage /\ at' = at /\ snap' = snap /\ waiting' = waiting
      /\ report' = report /\ prefix' = prefix
    BY DEF caller
<1>2. P' = P /\ Op' = Op /\ Batch' = Batch
    BY <1>1 DEF P, Op, Batch
<1>3. Base' = Base
    BY <1>1, <1>2 DEF Base
<1> QED
    BY <1>1, <1>2, <1>3 DEF Creates, Guarded, Desired

(* At the start of a program, at its end and while the bases are read,     *)
(* nothing is claimed about the path.                                      *)
LEMMA NothingClaimed ==
    ASSUME NamesApart', SameHasBase',
           \/ doing' \in {"idle", "launch", "stat", "verify"}
           \/ stage' = "reading" /\ doing' \in Reading
    PROVE  WindowInv'
BY DEF WindowInv, StagedApart, Staged, LookedAt, HalfKnown, WholeKnown, AboutToChange,
       BatchKnows, Reading

LEMMA SameDisk ==
    ASSUME FileTypes, NamesApart, UNCHANGED disk, UNCHANGED <<intrusions>>,
           faults' \in Nat, seen' \in [id : Ids \cup {Absent}, mode : Nat],
           handle' \in Ids \cup {Absent}, tmp' \in Ids \cup {Absent}
    PROVE  FileTypes' /\ NamesApart' /\ names' = names /\ inode' = inode
<1>1. names' = names /\ inode' = inode
    BY DEF disk
<1> QED
    BY <1>1 DEF FileTypes, NamesApart

LEMMA LookIsTyped ==
    ASSUME FileTypes, NEW p \in Files
    PROVE  /\ Look(p) \in [id : Ids \cup {Absent}, mode : Nat]
           /\ Look(p).id = names[p]
           /\ names[p] # Absent => names[p] \in Ids /\ Look(p).mode = inode[names[p]].mode
BY DEF Look, FileTypes, Absent

LEMMA BasesAreKept ==
    ASSUME SameHasBase, Working, UNCHANGED <<job, snap>>
    PROVE  SameHasBase'
BY DEF SameHasBase, Working

(* A program that ends leaves nothing to be claimed.                       *)
LEMMA EndsWell ==
    ASSUME FileTypes, NamesApart, UNCHANGED disk, UNCHANGED <<intrusions>>, faults' \in Nat,
           NEW c, NEW u, Ends(c, u), tmp' \in Ids \cup {Absent}
    PROVE  FileTypes' /\ HalvesRead' /\ WindowInv'
<1>1. doing' = "idle" /\ handle' = Absent /\ seen' = seen
    BY DEF Ends
<1>2. FileTypes' /\ NamesApart'
    BY <1>1, SameDisk DEF FileTypes
<1>3. SameHasBase' /\ HalvesRead'
    BY <1>1 DEF SameHasBase, HalvesRead
<1> QED
    BY <1>1, <1>2, <1>3, NothingClaimed

LEMMA DeclinesWell ==
    ASSUME ScriptInv, Working, Declines, doing # "verify",
           UNCHANGED disk, touched' = touched, intrusions' = intrusions, faults' \in Nat
    PROVE  ScriptInv'
<1>1. Ends(prefix, {}) /\ tmp' = Absent
    BY DEF Declines
<1>2. CallerTypes' /\ ProgressInv'
    BY DeclinesKeeps DEF ScriptInv
<1>3. FileTypes' /\ HalvesRead' /\ WindowInv'
    BY <1>1, EndsWell DEF ScriptInv, WindowInv
<1> QED
    BY <1>2, <1>3 DEF ScriptInv

LEMMA DiesWell ==
    ASSUME ScriptInv, Working, NEW left \in {Absent, tmp}, Fails(left),
           UNCHANGED disk, touched' = touched, intrusions' = intrusions, faults' \in Nat
    PROVE  ScriptInv'
<1>1. Ends({}, Unknown) /\ tmp' = left
    BY DEF Fails
<1>2. CallerTypes' /\ ProgressInv'
    BY DiesKeeps DEF ScriptInv
<1>3. tmp' \in Ids \cup {Absent}
    BY <1>1 DEF ScriptInv, FileTypes
<1>4. FileTypes' /\ HalvesRead' /\ WindowInv'
    BY <1>1, <1>3, EndsWell DEF ScriptInv, WindowInv
<1> QED
    BY <1>2, <1>4 DEF ScriptInv

LEMMA SucceedsWell ==
    ASSUME ScriptInv, Working, Succeeds, touched' = touched \cup {P},
           UNCHANGED disk, intrusions' = intrusions, faults' \in Nat
    PROVE  ScriptInv'
<1>1. CallerTypes' /\ ProgressInv'
    BY SucceedsKeeps DEF ScriptInv
<1>2. CASE Op.last /\ (at = Len(job.ops) \/ ~waiting)
    <2>1. Ends(prefix \cup {P}, {}) /\ tmp' = Absent
        BY <1>2 DEF Succeeds
    <2>2. FileTypes' /\ HalvesRead' /\ WindowInv'
        BY <2>1, EndsWell DEF ScriptInv, WindowInv
    <2> QED
        BY <1>1, <2>2 DEF ScriptInv
<1>3. CASE ~(Op.last /\ (at = Len(job.ops) \/ ~waiting))
    <2>1. /\ job' = job /\ snap' = snap /\ seen' = seen /\ handle' = Absent /\ tmp' = Absent
          /\ doing' \in {"launch", "stat"}
        BY <1>3 DEF Succeeds
    <2>2. FileTypes' /\ NamesApart'
        BY <2>1, SameDisk DEF FileTypes, ScriptInv, WindowInv
    <2>3. SameHasBase' /\ HalvesRead'
        BY <2>1, BasesAreKept DEF HalvesRead, ScriptInv, WindowInv
    <2>4. WindowInv'
        BY <2>1, <2>2, <2>3, NothingClaimed
    <2> QED
        BY <1>1, <2>2, <2>3, <2>4 DEF ScriptInv
<1> QED
    BY <1>2, <1>3

LEMMA ReadFailsWell ==
    ASSUME ScriptInv, stage = "reading", ReadFails, UNCHANGED disk, touched' = touched,
           intrusions' = intrusions, faults' \in Nat
    PROVE  ScriptInv'
<1>1. /\ doing' = "idle" /\ handle' = Absent /\ seen' = seen /\ tmp' = tmp
    BY DEF ReadFails
<1>2. CallerTypes' /\ ProgressInv'
    BY ReadFailsKeeps DEF ScriptInv
<1>3. FileTypes' /\ NamesApart'
    BY <1>1, SameDisk DEF FileTypes, ScriptInv, WindowInv
<1>4. SameHasBase' /\ HalvesRead'
    BY <1>1 DEF SameHasBase, HalvesRead
<1>5. WindowInv'
    BY <1>1, <1>3, <1>4, NothingClaimed
<1> QED
    BY <1>2, <1>3, <1>4, <1>5 DEF ScriptInv

LEMMA KeepWell ==
    ASSUME ScriptInv, stage = "reading", NEW base \in {Missing} \cup [data : Texts, mode : Nat],
           Keep(base), Untouched
    PROVE  ScriptInv'
<1>1. /\ handle' = Absent /\ seen' = seen /\ tmp' = tmp /\ doing' \in {"stat", "launch", "idle"}
    BY DEF Keep
<1>2. UNCHANGED disk /\ touched' = touched /\ intrusions' = intrusions /\ faults' = faults
    BY DEF Untouched
<1>3. CallerTypes' /\ ProgressInv' /\ SameHasBase'
    BY <1>2, KeepKeeps DEF ScriptInv, WindowInv
<1>4. FileTypes' /\ NamesApart'
    BY <1>1, <1>2, SameDisk DEF FileTypes, ScriptInv, WindowInv
<1>5. HalvesRead'
    BY <1>1 DEF HalvesRead
<1>6. WindowInv'
    BY <1>1, <1>3, <1>4, NothingClaimed
<1> QED
    BY <1>3, <1>4, <1>5, <1>6 DEF ScriptInv

-----------------------------------------------------------------------------
(* Reading.                                                                *)

LEMMA TwoHalves ==
    ASSUME NEW d \in Texts, NEW s, s = <<d[1]>>
    PROVE  Append(s, d[2]) = d
<1>1. d = <<d[1], d[2]>>
    BY DEF Texts
<1> QED
    BY <1>1

(* A reading program that goes on, whatever it has read.                   *)
LEMMA ReadsWell ==
    ASSUME ScriptInv, stage = "reading", UNCHANGED caller, doing' \in Reading, Untouched,
           seen' \in [id : Ids \cup {Absent}, mode : Nat],
           handle' \in Ids \cup {Absent}, tmp' = tmp, HalvesRead'
    PROVE  ScriptInv'
<1>1. /\ UNCHANGED disk /\ touched' = touched /\ intrusions' = intrusions /\ faults' = faults
      /\ stage' = "reading"
    BY DEF Untouched, caller
<1>2. CallerTypes' /\ ProgressInv'
    BY <1>1, ReadsOn DEF ScriptInv
<1>3. FileTypes' /\ NamesApart'
    BY <1>1, SameDisk DEF FileTypes, ScriptInv, WindowInv
<1>4. SameHasBase'
    BY <1>1 DEF SameHasBase
<1>5. WindowInv'
    BY <1>1, <1>3, <1>4, NothingClaimed
<1> QED
    BY <1>2, <1>3, <1>5 DEF ScriptInv

LEMMA SnapshotStatKeeps ==
    ASSUME ScriptInv, SnapshotStat PROVE ScriptInv'
<1>1. stage = "reading" /\ Untouched /\ P \in Files
    BY ReadAPath DEF SnapshotStat, ScriptInv
<1>2. CASE names[P] = Absent
    <2>1. Keep(Missing)
        BY <1>2 DEF SnapshotStat
    <2> QED
        BY <1>1, <2>1, KeepWell
<1>3. CASE names[P] # Absent
    <2>1. /\ seen' = Look(P) /\ UNCHANGED caller /\ doing' = "read1"
          /\ handle' = handle /\ tmp' = tmp
        BY <1>3 DEF SnapshotStat, DoesNext
    <2>2. FileTypes /\ seen' \in [id : Ids \cup {Absent}, mode : Nat]
        BY <1>1, <2>1, LookIsTyped DEF ScriptInv
    <2>3. HalvesRead' /\ doing' \in Reading
        BY <2>1 DEF HalvesRead, Reading
    <2> QED
        BY <1>1, <2>1, <2>2, <2>3, ReadsWell DEF FileTypes
<1> QED
    BY <1>2, <1>3

LEMMA SnapshotRestatKeeps ==
    ASSUME ScriptInv, SnapshotRestat PROVE ScriptInv'
<1>1. stage = "reading" /\ Untouched /\ doing = "restat"
    BY DEF SnapshotRestat
<1>2. CASE Look(P) = seen
    <2>1. Keep([data |-> acc, mode |-> seen.mode])
        BY <1>2 DEF SnapshotRestat
    <2>2. [data |-> acc, mode |-> seen.mode] \in {Missing} \cup [data : Texts, mode : Nat]
        BY <1>1 DEF ScriptInv, HalvesRead, FileTypes
    <2> QED
        BY <1>1, <2>1, <2>2, KeepWell
<1>3. CASE Look(P) # seen
    <2>1. ReadFails
        BY <1>3 DEF SnapshotRestat
    <2> QED
        BY <1>1, <2>1, ReadFailsWell DEF Untouched, ScriptInv, FileTypes
<1> QED
    BY <1>2, <1>3

(* A step of the program that leaves the files and the window alone or     *)
(* makes the window new, and goes on.                                      *)
LEMMA GoesWell ==
    ASSUME ScriptInv, Working, UNCHANGED caller, Untouched, doing # "verify",
           doing' \in Places \ {"idle", "verify"},
           seen' \in [id : Ids \cup {Absent}, mode : Nat],
           handle' \in Ids \cup {Absent}, tmp' \in Ids \cup {Absent}
    PROVE  /\ CallerTypes' /\ ProgressInv' /\ FileTypes' /\ NamesApart' /\ SameHasBase'
           /\ names' = names /\ inode' = inode
<1>1. UNCHANGED disk /\ touched' = touched /\ intrusions' = intrusions /\ faults' = faults
    BY DEF Untouched
<1>2. CallerTypes' /\ ProgressInv'
    BY <1>1, GoesKeeps DEF ScriptInv
<1>3. FileTypes' /\ NamesApart' /\ names' = names /\ inode' = inode
    BY <1>1, SameDisk DEF FileTypes, ScriptInv, WindowInv
<1>4. SameHasBase'
    BY BasesAreKept DEF caller, ScriptInv, WindowInv
<1> QED
    BY <1>2, <1>3, <1>4

LEMMA OpenKeeps ==
    ASSUME ScriptInv, Open PROVE ScriptInv'
<1>1. doing = "read1" /\ Untouched
    BY DEF Open
<1>2. /\ UNCHANGED disk /\ touched' = touched /\ intrusions' = intrusions
      /\ faults' = faults /\ faults' \in Nat
    BY <1>1 DEF Untouched, ScriptInv, FileTypes
<1>3. CASE names[P] = Absent
    <2>1. CASE stage = "reading"
        <3>1. ReadFails
            BY <1>3, <2>1 DEF Open
        <3> QED
            BY <1>2, <2>1, <3>1, ReadFailsWell
    <2>2. CASE stage # "reading"
        <3>1. Working /\ doing # "verify"
            BY <1>1, <2>2 DEF Working
        <3>2. Declines \/ Fails(Absent)
            BY <1>3, <2>2 DEF Open
        <3> QED
            BY <1>2, <3>1, <3>2, DeclinesWell, DiesWell
    <2> QED
        BY <2>1, <2>2
<1>4. CASE names[P] # Absent
    <2>1. /\ handle' = names[P] /\ acc' = <<inode[names[P]].data[1]>> /\ window' = {}
          /\ doing' = "read2" /\ UNCHANGED caller /\ seen' = seen /\ tmp' = tmp
        BY <1>4 DEF Open, DoesNext
    <2>2. P \in Files /\ FileTypes
        BY <1>1, ReadAPath, WorkedOn DEF ScriptInv, Working
    <2>3. /\ names[P] \in Ids /\ inode[names[P]].data \in Texts
          /\ inode[names[P]].data[1] \in {"old", "new", Theirs}
        BY <1>4, <2>2 DEF FileTypes, Texts
    <2>4. HalvesRead' /\ handle' \in Ids
        BY <2>1, <2>3 DEF HalvesRead
    <2>5. doing' \in Reading /\ doing' \in Places \ {"idle", "verify"}
        BY <2>1 DEF Reading, Places
    <2>6. CASE stage = "reading"
        BY <1>1, <2>1, <2>2, <2>4, <2>5, <2>6, ReadsWell DEF FileTypes
    <2>7. CASE stage # "reading"
        <3>1. Working
            BY <1>1, <2>7 DEF Working
        <3>2. /\ CallerTypes' /\ ProgressInv' /\ FileTypes' /\ NamesApart' /\ SameHasBase'
              /\ names' = names /\ inode' = inode
            BY <1>1, <2>1, <2>2, <2>4, <2>5, <3>1, GoesWell DEF FileTypes
        <3>3. /\ P' = P /\ Op' = Op /\ Base' = Base /\ Batch' = Batch /\ stage' = stage
              /\ Creates' = Creates /\ Guarded' = Guarded
            BY <2>1, SameCaller
        <3>4. StagedApart'
            BY <1>1, <2>1, <2>7, <3>2, <3>3 DEF ScriptInv, WindowInv, StagedApart, Staged
        <3>5. LookedAt'
            BY <1>1, <2>1, <3>3 DEF ScriptInv, WindowInv, LookedAt
        <3>6. HalfKnown' /\ WholeKnown' /\ AboutToChange'
            BY <2>1, <3>2, <3>3 DEF HalfKnown, WholeKnown, AboutToChange
        <3>7. BatchKnows'
            BY <2>1, <3>2, <3>3 DEF BatchKnows
        <3> QED
            BY <2>4, <3>2, <3>4, <3>5, <3>6, <3>7 DEF ScriptInv, WindowInv
    <2> QED
        BY <2>6, <2>7
<1> QED
    BY <1>3, <1>4

LEMMA ReadOnKeeps ==
    ASSUME ScriptInv, ReadOn PROVE ScriptInv'
<1>1. /\ doing = "read2" /\ Untouched /\ window' = window /\ seen' = seen /\ tmp' = tmp
      /\ acc' = Append(acc, inode[handle].data[2]) /\ handle' = Absent
      /\ doing' = "restat" /\ UNCHANGED caller
    BY DEF ReadOn, DoesNext
<1>2. PICK x \in {"old", "new", Theirs} : acc = <<x>>
    BY <1>1 DEF ScriptInv, HalvesRead
<1>3. handle \in Ids /\ FileTypes
    BY <1>1 DEF ScriptInv, HalvesRead
<1>4. inode[handle].data \in Texts /\ inode[handle].data[2] \in {"old", "new", Theirs}
    BY <1>3 DEF FileTypes, Texts
<1>5. acc' \in Texts
    <2>1. PICK y : y = inode[handle].data[2]
        OBVIOUS
    <2>2. PICK d : d = <<x, y>>
        OBVIOUS
    <2>3. d \in Texts /\ acc = <<d[1]>> /\ d[2] = y
        BY <1>2, <1>4, <2>1, <2>2 DEF Texts
    <2> QED
        BY <1>1, <2>1, <2>3, TwoHalves
<1>6. HalvesRead'
    BY <1>1, <1>5 DEF HalvesRead
<1>7. doing' \in Reading /\ doing' \in Places \ {"idle", "verify"}
    BY <1>1 DEF Reading, Places
<1>8. CASE stage = "reading"
    BY <1>1, <1>3, <1>6, <1>7, <1>8, ReadsWell DEF FileTypes
<1>9. CASE stage # "reading"
    <2>1. Working
        BY <1>1, <1>9 DEF Working
    <2>2. /\ CallerTypes' /\ ProgressInv' /\ FileTypes' /\ NamesApart' /\ SameHasBase'
          /\ names' = names /\ inode' = inode
        BY <1>1, <1>3, <1>7, <2>1, GoesWell DEF FileTypes
    <2>3. /\ P' = P /\ Op' = Op /\ Base' = Base /\ Batch' = Batch /\ stage' = stage
          /\ Creates' = Creates /\ Guarded' = Guarded
        BY <1>1, SameCaller
    <2>4. StagedApart'
        BY <1>1, <1>9, <2>2, <2>3, WorkedOn DEF ScriptInv, WindowInv, StagedApart, Staged
    <2>5. LookedAt'
        BY <1>1, <2>3 DEF ScriptInv, WindowInv, LookedAt
    <2>6. ASSUME acc = <<inode[handle].data[1]>> PROVE acc' = inode[handle].data
        BY <1>1, <1>4, <2>6, TwoHalves
    <2>7. HalfKnown' /\ AboutToChange'
        BY <1>1 DEF HalfKnown, AboutToChange
    <2>8. WholeKnown'
        BY <1>1, <1>9, <2>2, <2>3, <2>6 DEF ScriptInv, WindowInv, WholeKnown, HalfKnown
    <2>9. BatchKnows'
        <3>1. Batch /\ window = {} => names[P] = handle /\ acc = <<inode[handle].data[1]>>
            BY <1>1, <1>9 DEF ScriptInv, WindowInv, BatchKnows
        <3>2. Batch /\ window = {} => names[P] # Absent /\ acc' = inode[names[P]].data
            BY <1>3, <2>6, <3>1, FilesAssumption DEF FilesAssumption
        <3> QED
            BY <1>1, <2>2, <2>3, <3>2 DEF BatchKnows
    <2> QED
        BY <1>6, <2>2, <2>4, <2>5, <2>7, <2>8, <2>9 DEF ScriptInv, WindowInv
<1> QED
    BY <1>8, <1>9

-----------------------------------------------------------------------------
(* The programs for one path.                                              *)

LEMMA LaunchKeeps ==
    ASSUME ScriptInv, Launch PROVE ScriptInv'
<1>1. /\ doing = "launch" /\ doing' = "stat" /\ Untouched /\ UNCHANGED caller /\ Working
      /\ seen' = seen /\ handle' = handle /\ tmp' = tmp
    BY DEF Launch, At, DoesNext, Working
<1>2. /\ CallerTypes' /\ ProgressInv' /\ FileTypes' /\ NamesApart' /\ SameHasBase'
    BY <1>1, GoesWell DEF ScriptInv, FileTypes, Places, Reading
<1>3. WindowInv' /\ HalvesRead'
    BY <1>1, <1>2, NothingClaimed DEF HalvesRead
<1> QED
    BY <1>2, <1>3 DEF ScriptInv

(* The faults that end a program.                                          *)
LEMMA FaultsKeep ==
    ASSUME ScriptInv, Refuse \/ NoParent \/ ProgramFails \/ SnapshotFails
    PROVE  ScriptInv'
<1>1. faults + 1 \in Nat
    BY DEF ScriptInv, FileTypes
<1>2. CASE Refuse
    BY <1>1, <1>2, DeclinesWell DEF Refuse, At, Working
<1>3. CASE NoParent
    BY <1>1, <1>3, DeclinesWell DEF NoParent, At, Working
<1>4. CASE ProgramFails
    BY <1>1, <1>4, DiesWell DEF ProgramFails, Working
<1>5. CASE SnapshotFails
    BY <1>1, <1>5, ReadFailsWell DEF SnapshotFails
<1> QED
    BY <1>2, <1>3, <1>4, <1>5

LEMMA FirstStatKeeps ==
    ASSUME ScriptInv, FirstStat PROVE ScriptInv'
<1>1. /\ doing = "stat" /\ Working /\ ~Batch /\ Untouched /\ window' = {}
    BY DEF FirstStat, At, Working
<1>2. CASE Creates # (names[P] = Absent)
    BY <1>1, <1>2, DeclinesWell DEF FirstStat, Untouched, ScriptInv, FileTypes
<1>3. CASE ~(Creates # (names[P] = Absent))
    <2>1. /\ seen' = Look(P) /\ handle' = handle /\ acc' = acc /\ tmp' = tmp
          /\ UNCHANGED caller /\ doing' = IF Op.op = "delete" THEN "read1" ELSE "stage"
        BY <1>3 DEF FirstStat, DoesNext
    <2>2. P \in Files /\ FileTypes
        BY <1>1, WorkedOn DEF ScriptInv
    <2>3. /\ Look(P) \in [id : Ids \cup {Absent}, mode : Nat] /\ Look(P).id = names[P]
        BY <2>2, LookIsTyped
    <2>4. doing' \in Places \ {"idle", "verify"}
        BY <2>1 DEF Places, Reading
    <2>5. /\ CallerTypes' /\ ProgressInv' /\ FileTypes' /\ NamesApart' /\ SameHasBase'
          /\ names' = names /\ inode' = inode
        BY <1>1, <2>1, <2>2, <2>3, <2>4, GoesWell DEF FileTypes
    <2>6. /\ P' = P /\ Op' = Op /\ Base' = Base /\ Batch' = Batch /\ stage' = stage
          /\ Creates' = Creates
        BY <2>1, SameCaller
    <2>7. HalvesRead' /\ StagedApart'
        BY <1>1, <2>1, <2>6 DEF HalvesRead, StagedApart, Staged
    <2>8. LookedAt'
        <3>1. doing' = "read1" => ~Creates
            BY <2>1 DEF Creates
        <3>2. ~Creates => seen'.id # Absent
            BY <1>3, <2>1, <2>3
        <3> QED
            BY <2>1, <2>6, <3>1, <3>2 DEF LookedAt
    <2>9. HalfKnown' /\ WholeKnown' /\ AboutToChange' /\ BatchKnows'
        BY <1>1, <2>1, <2>6 DEF HalfKnown, WholeKnown, AboutToChange, BatchKnows
    <2> QED
        BY <2>5, <2>7, <2>8, <2>9 DEF ScriptInv, WindowInv
<1> QED
    BY <1>2, <1>3

(* What is put into the staged file is text, and nobody's file.            *)
LEMMA DesiredIsText ==
    ASSUME ScriptInv, Working
    PROVE  Desired \in Texts /\ DesiredMode \in Nat
<1>1. Op = job.ops[at] /\ at \in DOMAIN job.ops /\ Op.path \in Files
    BY WorkedOn DEF Op, ScriptInv
<1>2. Base \in {Missing} \cup [data : Texts, mode : Nat]
    BY <1>1 DEF Base, ScriptInv, CallerTypes
<1>3. Op.op = "same" => Base # Missing
    BY <1>1 DEF Base, ScriptInv, WindowInv, SameHasBase, Working
<1>4. Desired \in Texts
    BY <1>2, <1>3 DEF Desired, New, Texts
<1>5. DesiredMode \in Nat
    BY <1>2 DEF DesiredMode, Missing, Private, ScriptInv, FileTypes
<1> QED
    BY <1>4, <1>5

LEMMA StageKeeps ==
    ASSUME ScriptInv, Stage PROVE ScriptInv'
<1>1. /\ doing = "stage" /\ Working /\ names' = names /\ touched' = touched /\ window' = window
      /\ intrusions' = intrusions /\ faults' = faults /\ seen' = seen /\ handle' = handle
      /\ acc' = acc /\ UNCHANGED caller
      /\ doing' = IF Creates THEN "link" ELSE IF Batch THEN "settle" ELSE "compare"
    BY DEF Stage, At, Working, DoesNext
<1>2. PICK i \in Ids :
        /\ Fresh(i) /\ tmp' = i
        /\ inode' = [inode EXCEPT ![i] =
                [data |-> Desired, mode |-> IF Batch THEN DesiredMode ELSE Private]]
    BY DEF Stage
<1>3. \A p \in Files : names[p] # i
    BY <1>2 DEF Fresh, InUse
<1>4. [data |-> Desired, mode |-> IF Batch THEN DesiredMode ELSE Private]
          \in [data : Texts, mode : Nat]
    BY <1>1, DesiredIsText DEF Private
<1>5. FileTypes'
    BY <1>1, <1>2, <1>4 DEF FileTypes, ScriptInv
<1>6. doing' \in Places \ {"idle", "verify"}
    BY <1>1 DEF Places
<1>7. CallerTypes' /\ ProgressInv'
    BY <1>1, <1>6, GoesKeeps DEF ScriptInv
<1>8. NamesApart' /\ SameHasBase'
    BY <1>1, BasesAreKept DEF caller, ScriptInv, WindowInv, NamesApart
<1>9. /\ P' = P /\ Op' = Op /\ Base' = Base /\ Batch' = Batch /\ stage' = stage
      /\ Creates' = Creates /\ Guarded' = Guarded /\ P \in Files
    BY <1>1, SameCaller, WorkedOn DEF ScriptInv
<1>10. inode'[names[P]] = inode[names[P]] \/ names[P] = Absent
    BY <1>2, <1>3, <1>9 DEF ScriptInv, FileTypes
<1>11. HalvesRead' /\ StagedApart'
    BY <1>1, <1>2, <1>3 DEF HalvesRead, StagedApart
<1>12. LookedAt'
    BY <1>1, <1>9 DEF LookedAt, ScriptInv, WindowInv
<1>13. HalfKnown' /\ WholeKnown' /\ AboutToChange'
    BY <1>1 DEF HalfKnown, WholeKnown, AboutToChange
<1>14. BatchKnows'
    BY <1>1, <1>9, <1>10 DEF BatchKnows, ScriptInv, WindowInv, Working
<1> QED
    BY <1>5, <1>7, <1>8, <1>11, <1>12, <1>13, <1>14 DEF ScriptInv, WindowInv

(* A step that gives the path the staged file, or takes its name away.     *)
LEMMA ChangesWell ==
    ASSUME ScriptInv, Working, doing # "verify", UNCHANGED caller, doing' = "verify",
           inode' = inode, intrusions' = intrusions, faults' = faults,
           seen' = seen, handle' = handle, tmp' = tmp,
           NEW i \in Ids \cup {Absent}, i # Absent => \A p \in Files : names[p] # i,
           names' = [names EXCEPT ![P] = i], touched' = touched \cup {P}
    PROVE  ScriptInv'
<1>1. CallerTypes' /\ ProgressInv'
    BY GoesKeeps DEF ScriptInv, Places
<1>2. FileTypes'
    BY DEF FileTypes, ScriptInv
<1>3. NamesApart'
    BY DEF FileTypes, ScriptInv, NamesApart, WindowInv
<1>4. SameHasBase' /\ HalvesRead'
    BY BasesAreKept DEF caller, ScriptInv, WindowInv, HalvesRead
<1>5. WindowInv'
    BY <1>3, <1>4, NothingClaimed
<1> QED
    BY <1>1, <1>2, <1>4, <1>5 DEF ScriptInv

LEMMA LinkKeeps ==
    ASSUME ScriptInv, Link PROVE ScriptInv'
<1>1. doing = "link" /\ Working /\ inode' = inode /\ intrusions' = intrusions /\ faults' = faults
    BY DEF Link, At, Working
<1>2. CASE names[P] # Absent
    BY <1>1, <1>2, DeclinesWell DEF Link, disk, ScriptInv, FileTypes
<1>3. CASE names[P] = Absent
    <2>1. /\ names' = [names EXCEPT ![P] = tmp] /\ touched' = touched \cup {P}
          /\ doing' = "verify" /\ UNCHANGED caller /\ seen' = seen /\ handle' = handle /\ tmp' = tmp
        BY <1>3 DEF Link, DoesNext
    <2>2. tmp \in Ids /\ \A p \in Files : names[p] # tmp
        BY <1>1 DEF ScriptInv, WindowInv, StagedApart, Staged
    <2> QED
        BY <1>1, <2>1, <2>2, ChangesWell
<1> QED
    BY <1>2, <1>3

LEMMA SwapKeeps ==
    ASSUME ScriptInv, Swap PROVE ScriptInv'
<1>1. /\ doing = "swap" /\ Working /\ inode' = inode /\ intrusions' = intrusions
      /\ faults' = faults /\ names' = [names EXCEPT ![P] = tmp] /\ touched' = touched \cup {P}
      /\ doing' = "verify" /\ UNCHANGED caller /\ seen' = seen /\ handle' = handle /\ tmp' = tmp
    BY DEF Swap, At, Working, DoesNext
<1>2. tmp \in Ids /\ \A p \in Files : names[p] # tmp
    BY <1>1 DEF ScriptInv, WindowInv, StagedApart, Staged
<1> QED
    BY <1>1, <1>2, ChangesWell

LEMMA RemoveKeeps ==
    ASSUME ScriptInv, Remove PROVE ScriptInv'
<1>1. /\ doing = "remove" /\ Working /\ inode' = inode /\ intrusions' = intrusions
      /\ faults' = faults /\ names' = [names EXCEPT ![P] = Absent] /\ touched' = touched \cup {P}
      /\ doing' = "verify" /\ UNCHANGED caller /\ seen' = seen /\ handle' = handle /\ tmp' = tmp
    BY DEF Remove, At, Working, DoesNext
<1> QED
    BY <1>1, ChangesWell

LEMMA CompareKeeps ==
    ASSUME ScriptInv, Compare PROVE ScriptInv'
<1>1. /\ doing = "compare" /\ Working /\ Untouched /\ window' = {}
    BY DEF Compare, At, Working
<1>2. CASE Look(P) # seen
    BY <1>1, <1>2, DeclinesWell DEF Compare, Untouched, ScriptInv, FileTypes
<1>3. CASE Look(P) = seen
    <2>1. /\ UNCHANGED caller /\ seen' = seen /\ handle' = handle /\ acc' = acc /\ tmp' = tmp
          /\ doing' = IF Guarded THEN "read1" ELSE "chmod"
        BY <1>3 DEF Compare, DoesNext
    <2>2. doing' \in Places \ {"idle", "verify"}
        BY <2>1 DEF Places, Reading
    <2>3. /\ CallerTypes' /\ ProgressInv' /\ FileTypes' /\ NamesApart' /\ SameHasBase'
          /\ names' = names /\ inode' = inode
        BY <1>1, <2>1, <2>2, GoesWell DEF FileTypes, ScriptInv
    <2>4. /\ P' = P /\ Op' = Op /\ Base' = Base /\ Batch' = Batch /\ stage' = stage
          /\ Creates' = Creates /\ Guarded' = Guarded /\ P \in Files
        BY <2>1, SameCaller, WorkedOn, <1>1 DEF ScriptInv
    <2>5. HalvesRead' /\ StagedApart'
        BY <1>1, <2>1, <2>3, <2>4 DEF HalvesRead, StagedApart, Staged, ScriptInv, WindowInv
    <2>6. LookedAt'
        BY <1>1, <2>1, <2>4 DEF LookedAt, ScriptInv, WindowInv
    <2>7. Look(P)' = Look(P) /\ names[P] = seen.id
        BY <1>1, <1>3, <2>3, <2>4, LookIsTyped DEF Look, ScriptInv
    <2>8. HalfKnown' /\ WholeKnown'
        BY <2>1 DEF HalfKnown, WholeKnown
    <2>9. AboutToChange'
        BY <1>3, <2>1, <2>3, <2>4, <2>7 DEF AboutToChange
    <2>10. BatchKnows'
        BY <1>1, <2>1, <2>4 DEF BatchKnows, ScriptInv, WindowInv, Working
    <2> QED
        BY <2>3, <2>5, <2>6, <2>8, <2>9, <2>10 DEF ScriptInv, WindowInv
<1> QED
    BY <1>2, <1>3

LEMMA RestatKeeps ==
    ASSUME ScriptInv, Restat PROVE ScriptInv'
<1>1. /\ doing = "restat" /\ Working /\ ~Batch /\ Untouched
      /\ window' = window \ {"entry", "mode"}
    BY DEF Restat, At, Working
<1>2. CASE \/ names[P] = Absent /\ Op.op # "delete"
           \/ ~Matches
    <2>1. Declines \/ Fails(Absent)
        BY <1>2 DEF Restat
    <2> QED
        BY <1>1, <2>1, DeclinesWell, DiesWell DEF Untouched, ScriptInv, FileTypes
<1>3. CASE ~(names[P] = Absent /\ Op.op # "delete") /\ Matches
    <2>1. /\ UNCHANGED caller /\ seen' = seen /\ handle' = handle /\ acc' = acc /\ tmp' = tmp
          /\ doing' = IF Op.op = "delete" THEN "remove" ELSE "chmod"
        BY <1>3 DEF Restat, DoesNext
    <2>2. doing' \in Places \ {"idle", "verify"}
        BY <2>1 DEF Places
    <2>3. /\ CallerTypes' /\ ProgressInv' /\ FileTypes' /\ NamesApart' /\ SameHasBase'
          /\ names' = names /\ inode' = inode
        BY <1>1, <2>1, <2>2, GoesWell DEF FileTypes, ScriptInv
    <2>4. /\ P' = P /\ Op' = Op /\ Base' = Base /\ Batch' = Batch /\ stage' = stage
          /\ Creates' = Creates /\ Guarded' = Guarded /\ P \in Files
        BY <2>1, SameCaller, WorkedOn, <1>1 DEF ScriptInv
    <2>5. HalvesRead' /\ StagedApart'
        BY <1>1, <2>1, <2>3, <2>4
           DEF HalvesRead, StagedApart, Staged, ScriptInv, WindowInv, Working
    <2>6. LookedAt'
        BY <1>1, <2>1, <2>4 DEF LookedAt, ScriptInv, WindowInv
    <2>7. /\ Look(P)' = Look(P) /\ names[P] = seen.id /\ acc = Base.data
          /\ Op.op = "delete" \/ Look(P) = seen
        BY <1>1, <1>3, <2>3, <2>4, LookIsTyped DEF Look, ScriptInv, Matches
    <2>8. HalfKnown' /\ WholeKnown'
        BY <2>1 DEF HalfKnown, WholeKnown
    <2>9. window' = {} => inode[names[P]].data = Base.data
        BY <1>1, <2>7 DEF ScriptInv, WindowInv, WholeKnown, Working
    <2>10. AboutToChange'
        BY <2>1, <2>3, <2>4, <2>7, <2>9 DEF AboutToChange
    <2>11. BatchKnows'
        BY <1>1, <2>4 DEF BatchKnows
    <2> QED
        BY <2>3, <2>5, <2>6, <2>8, <2>10, <2>11 DEF ScriptInv, WindowInv
<1> QED
    BY <1>2, <1>3

LEMMA ChmodKeeps ==
    ASSUME ScriptInv, Chmod PROVE ScriptInv'
<1>1. /\ doing = "chmod" /\ Working /\ names' = names /\ touched' = touched /\ window' = window
      /\ intrusions' = intrusions /\ faults' = faults /\ seen' = seen /\ handle' = handle
      /\ acc' = acc /\ tmp' = tmp /\ UNCHANGED caller /\ doing' = "swap"
      /\ inode' = [inode EXCEPT ![tmp].mode = DesiredMode]
    BY DEF Chmod, At, Working, DoesNext
<1>2. tmp \in Ids /\ \A p \in Files : names[p] # tmp
    BY <1>1 DEF ScriptInv, WindowInv, StagedApart, Staged
<1>3. DesiredMode \in Nat
    BY <1>1, DesiredIsText
<1>4. FileTypes'
    BY <1>1, <1>2, <1>3 DEF FileTypes, ScriptInv
<1>5. CallerTypes' /\ ProgressInv'
    BY <1>1, GoesKeeps DEF ScriptInv, Places
<1>6. NamesApart' /\ SameHasBase'
    BY <1>1, BasesAreKept DEF caller, ScriptInv, WindowInv, NamesApart
<1>7. /\ P' = P /\ Op' = Op /\ Base' = Base /\ Batch' = Batch /\ stage' = stage
      /\ Creates' = Creates /\ Guarded' = Guarded /\ P \in Files
    BY <1>1, SameCaller, WorkedOn DEF ScriptInv
<1>8. HalvesRead' /\ StagedApart'
    BY <1>1, <1>2 DEF HalvesRead, StagedApart
<1>9. LookedAt'
    BY <1>1, <1>7 DEF LookedAt, ScriptInv, WindowInv
<1>10. HalfKnown' /\ WholeKnown'
    BY <1>1 DEF HalfKnown, WholeKnown
<1>11. ASSUME stage # "reading", ~Batch PROVE AboutToChange'
    <2>1. /\ names[P] # seen.id => "entry" \in window
          /\ window = {} /\ Guarded => inode[names[P]].data = Base.data
          /\ Op.op # "delete" /\ window \cap {"entry", "reused", "mode"} = {} => Look(P) = seen
          /\ ~Creates /\ seen.id # Absent
        BY <1>1, <1>11 DEF ScriptInv, WindowInv, AboutToChange, LookedAt
    <2>2. names[P] # Absent => inode'[names[P]] = inode[names[P]]
        BY <1>1, <1>2, <1>7 DEF ScriptInv, FileTypes
    <2>3. Look(P)' = Look(P)
        BY <1>1, <1>7, <2>2 DEF Look
    <2>4. window = {} /\ Guarded => inode'[names[P]].data = Base.data
        BY <2>1, <2>2
    <2>5. inode'[tmp].mode = seen.mode
        BY <1>1, <1>2, <1>11, <2>1 DEF ScriptInv, FileTypes, DesiredMode
    <2> QED
        BY <1>1, <1>7, <2>1, <2>3, <2>4, <2>5 DEF AboutToChange
<1>12. Batch => AboutToChange'
    BY <1>7 DEF AboutToChange
<1>13. AboutToChange'
    BY <1>1, <1>11, <1>12 DEF Working
<1>14. BatchKnows'
    <2>1. ~Batch
        BY <1>1 DEF BatchKnows, ScriptInv, WindowInv, Working
    <2> QED
        BY <1>7, <2>1 DEF BatchKnows
<1> QED
    BY <1>4, <1>5, <1>6, <1>8, <1>9, <1>10, <1>13, <1>14 DEF ScriptInv, WindowInv

LEMMA VerifyKeeps ==
    ASSUME ScriptInv, Verify PROVE ScriptInv'
<1>1. /\ doing = "verify" /\ Working /\ UNCHANGED disk /\ touched' = touched
      /\ intrusions' = intrusions /\ faults' = faults /\ faults \in Nat
    BY DEF Verify, At, Working, Untouched, ScriptInv, FileTypes
<1>2. touched' = touched \cup {P}
    BY <1>1 DEF ScriptInv, ProgressInv, VerifiesAChange
<1>3. Succeeds \/ Fails(Absent)
    BY DEF Verify
<1> QED
    BY <1>1, <1>2, <1>3, SucceedsWell, DiesWell

-----------------------------------------------------------------------------
(* The batch program.                                                      *)

LEMMA BatchCheckKeeps ==
    ASSUME ScriptInv, BatchCheck PROVE ScriptInv'
<1>1. /\ doing = "stat" /\ Working /\ Batch /\ UNCHANGED disk /\ intrusions' = intrusions
      /\ faults' = faults /\ window' = {} /\ faults \in Nat
    BY DEF BatchCheck, At, Working, ScriptInv, FileTypes
<1>2. CASE (Base = Missing) # (names[P] = Absent)
    BY <1>1, <1>2, DeclinesWell DEF BatchCheck
<1>3. CASE /\ ~((Base = Missing) # (names[P] = Absent))
           /\ Base = Missing /\ Op.op = "delete"
    BY <1>1, <1>3, SucceedsWell DEF BatchCheck
<1>4. CASE /\ ~((Base = Missing) # (names[P] = Absent))
           /\ ~(Base = Missing /\ Op.op = "delete")
    <2>1. /\ UNCHANGED caller /\ seen' = seen /\ handle' = handle /\ acc' = acc /\ tmp' = tmp
          /\ touched' = touched /\ Untouched
          /\ doing' = IF Base = Missing THEN "stage" ELSE "read1"
        BY <1>1, <1>4 DEF BatchCheck, DoesNext, Untouched
    <2>2. doing' \in Places \ {"idle", "verify"}
        BY <2>1 DEF Places, Reading
    <2>3. /\ CallerTypes' /\ ProgressInv' /\ FileTypes' /\ NamesApart' /\ SameHasBase'
          /\ names' = names /\ inode' = inode
        BY <1>1, <2>1, <2>2, GoesWell DEF FileTypes, ScriptInv
    <2>4. /\ P' = P /\ Op' = Op /\ Base' = Base /\ Batch' = Batch /\ stage' = stage
          /\ Creates' = Creates /\ Guarded' = Guarded
        BY <2>1, SameCaller
    <2>5. HalvesRead' /\ StagedApart'
        BY <1>1, <2>1, <2>4 DEF HalvesRead, StagedApart, Staged
    <2>6. LookedAt' /\ HalfKnown' /\ WholeKnown' /\ AboutToChange'
        BY <1>1, <2>4 DEF LookedAt, HalfKnown, WholeKnown, AboutToChange
    <2>7. BatchKnows'
        <3>1. doing' = "stage" => Creates \/ ~Guarded
            BY <1>4, <2>1 DEF Creates, Guarded
        <3> QED
            BY <2>1, <2>4, <3>1 DEF BatchKnows
    <2> QED
        BY <2>3, <2>5, <2>6, <2>7 DEF ScriptInv, WindowInv
<1> QED
    BY <1>2, <1>3, <1>4

LEMMA BatchCompareKeeps ==
    ASSUME ScriptInv, BatchCompare PROVE ScriptInv'
<1>1. /\ doing = "restat" /\ Working /\ Batch /\ Untouched /\ window' = window
    BY DEF BatchCompare, At, Working
<1>2. CASE acc # Base.data \/ names[P] = Absent
    <2>1. Declines \/ Fails(Absent)
        BY <1>2 DEF BatchCompare
    <2> QED
        BY <1>1, <2>1, DeclinesWell, DiesWell DEF Untouched, ScriptInv, FileTypes
<1>3. CASE acc = Base.data /\ names[P] # Absent
    <2>1. /\ UNCHANGED caller /\ seen' = Look(P) /\ handle' = handle /\ acc' = acc
          /\ tmp' = tmp /\ doing' = IF Op.op = "delete" THEN "remove" ELSE "stage"
        BY <1>3 DEF BatchCompare, DoesNext
    <2>2. doing' \in Places \ {"idle", "verify"} /\ P \in Files
        BY <1>1, <2>1, WorkedOn DEF Places, ScriptInv
    <2>3. Look(P).id = names[P] /\ Look(P) \in [id : Ids \cup {Absent}, mode : Nat]
        BY <2>2, LookIsTyped DEF ScriptInv
    <2>4. /\ CallerTypes' /\ ProgressInv' /\ FileTypes' /\ NamesApart' /\ SameHasBase'
          /\ names' = names /\ inode' = inode
        BY <1>1, <2>1, <2>2, <2>3, GoesWell DEF FileTypes, ScriptInv
    <2>5. /\ P' = P /\ Op' = Op /\ Base' = Base /\ Batch' = Batch /\ stage' = stage
          /\ Creates' = Creates /\ Guarded' = Guarded
        BY <2>1, SameCaller
    <2>6. HalvesRead' /\ StagedApart'
        BY <1>1, <2>1, <2>5 DEF HalvesRead, StagedApart, Staged
    <2>7. LookedAt' /\ HalfKnown' /\ WholeKnown' /\ AboutToChange'
        BY <1>1, <2>5 DEF LookedAt, HalfKnown, WholeKnown, AboutToChange
    <2>8. window = {} => acc = inode[names[P]].data
        BY <1>1 DEF ScriptInv, WindowInv, BatchKnows, Working
    <2>9. doing' = "remove" => ~Creates
        BY <2>1 DEF Creates
    <2>10. BatchKnows'
        BY <1>1, <1>3, <2>1, <2>3, <2>4, <2>5, <2>8, <2>9 DEF BatchKnows
    <2> QED
        BY <2>4, <2>6, <2>7, <2>10 DEF ScriptInv, WindowInv
<1> QED
    BY <1>2, <1>3

LEMMA BatchSettleKeeps ==
    ASSUME ScriptInv, BatchSettle PROVE ScriptInv'
<1>1. /\ doing = "settle" /\ Working /\ UNCHANGED disk /\ intrusions' = intrusions
      /\ faults' = faults /\ window' = window /\ faults \in Nat
    BY DEF BatchSettle, At, Working, ScriptInv, FileTypes
<1>2. CASE acc = Desired /\ seen.mode = DesiredMode
    BY <1>1, <1>2, SucceedsWell DEF BatchSettle
<1>3. CASE ~(acc = Desired /\ seen.mode = DesiredMode)
    <2>1. /\ UNCHANGED caller /\ seen' = seen /\ handle' = handle /\ acc' = acc /\ tmp' = tmp
          /\ touched' = touched /\ Untouched /\ doing' = "swap"
        BY <1>1, <1>3 DEF BatchSettle, DoesNext, Untouched
    <2>2. doing' \in Places \ {"idle", "verify"}
        BY <2>1 DEF Places
    <2>3. /\ CallerTypes' /\ ProgressInv' /\ FileTypes' /\ NamesApart' /\ SameHasBase'
          /\ names' = names /\ inode' = inode
        BY <1>1, <2>1, <2>2, GoesWell DEF FileTypes, ScriptInv
    <2>4. /\ P' = P /\ Op' = Op /\ Base' = Base /\ Batch' = Batch /\ stage' = stage
          /\ Creates' = Creates /\ Guarded' = Guarded
        BY <2>1, SameCaller
    <2>5. HalvesRead' /\ StagedApart'
        BY <1>1, <2>1, <2>3, <2>4 DEF HalvesRead, StagedApart, Staged, ScriptInv, WindowInv
    <2>6. Batch
        BY <1>1 DEF ScriptInv, WindowInv, LookedAt, Working
    <2>7. LookedAt' /\ HalfKnown' /\ WholeKnown' /\ AboutToChange'
        BY <2>4, <2>6 DEF LookedAt, HalfKnown, WholeKnown, AboutToChange
    <2>8. BatchKnows'
        BY <1>1, <2>1, <2>3, <2>4, <2>6 DEF BatchKnows, ScriptInv, WindowInv, Working
    <2> QED
        BY <2>3, <2>5, <2>7, <2>8 DEF ScriptInv, WindowInv
<1> QED
    BY <1>2, <1>3

-----------------------------------------------------------------------------
(* The host that gives up, and the foreign program.                        *)

LEMMA HostGivesUpKeeps ==
    ASSUME ScriptInv, HostGivesUp PROVE ScriptInv'
<1>1. /\ names' = names /\ inode' = inode /\ doing' = doing /\ seen' = seen /\ handle' = handle
      /\ acc' = acc /\ tmp' = tmp /\ window' = window /\ intrusions' = intrusions
      /\ faults' = faults + 1 /\ job' = job /\ at' = at /\ snap' = snap
      /\ stage = "mutating" /\ stage' = "done"
    BY DEF HostGivesUp, disk, program
<1>2. CallerTypes' /\ ProgressInv'
    BY GivingUpKeeps DEF ScriptInv
<1>3. FileTypes' /\ HalvesRead' /\ NamesApart'
    BY <1>1 DEF FileTypes, HalvesRead, NamesApart, ScriptInv, WindowInv
<1>4. P' = P /\ Op' = Op /\ Batch' = Batch
    BY <1>1 DEF P, Op, Batch
<1>5. Base' = Base
    BY <1>1, <1>4 DEF Base
<1>6. Creates' = Creates /\ Guarded' = Guarded /\ Look(P)' = Look(P)
    BY <1>1, <1>4, <1>5 DEF Creates, Guarded, Look
<1>7. SameHasBase' /\ StagedApart'
    BY <1>1, <1>4 DEF SameHasBase, StagedApart, Staged, ScriptInv, WindowInv
<1>8. LookedAt' /\ HalfKnown' /\ WholeKnown'
    BY <1>1, <1>4, <1>6 DEF LookedAt, HalfKnown, WholeKnown, ScriptInv, WindowInv
<1>9. AboutToChange'
    BY <1>1, <1>4, <1>5, <1>6 DEF AboutToChange, ScriptInv, WindowInv
<1>10. BatchKnows'
    BY <1>1, <1>4, <1>5, <1>6 DEF BatchKnows, ScriptInv, WindowInv
<1> QED
    BY <1>2, <1>3, <1>7, <1>8, <1>9, <1>10 DEF ScriptInv, WindowInv

(* What a foreign step does to the path that is worked on is noted; what   *)
(* it does elsewhere leaves the path, and the staged file, alone.          *)
ForeignOn(p) ==
    /\ names'[p] # names[p] =>
          IF names'[p] = seen.id /\ names'[p] # Absent
          THEN "reused" \in window' ELSE "entry" \in window'
    /\ names'[p] = names[p] /\ names[p] # Absent =>
          /\ inode'[names[p]].data # inode[names[p]].data => "data" \in window'
          /\ inode'[names[p]].mode # inode[names[p]].mode => "mode" \in window'

LEMMA ForeignWell ==
    ASSUME ScriptInv, Foreign, P \in Files
    PROVE  /\ ForeignOn(P) /\ window \subseteq window' /\ FileTypes' /\ NamesApart'
           /\ UNCHANGED program /\ UNCHANGED caller /\ touched' = touched
           /\ Staged => /\ tmp \in Ids /\ inode'[tmp] = inode[tmp]
                        /\ \A q \in Files : names'[q] # tmp
<1>0. FileTypes /\ NamesApart /\ (Staged => tmp \in Ids /\ \A q \in Files : names[q] # tmp)
    BY DEF ScriptInv, WindowInv, StagedApart
<1>1. CASE ForeignSave
    <2>1. PICK p \in Files, i \in Ids, m \in Modes :
            /\ Fresh(i) /\ Notice(p, IF i = seen.id THEN "reused" ELSE "entry")
            /\ names' = [names EXCEPT ![p] = i]
            /\ inode' = [inode EXCEPT ![i] = [data |-> <<Theirs, Theirs>>, mode |-> m]]
        BY <1>1 DEF ForeignSave
    <2>2. /\ UNCHANGED program /\ UNCHANGED caller /\ touched' = touched /\ faults' = faults
          /\ intrusions' = intrusions + 1
          /\ window' = IF p = P THEN window \cup {IF i = seen.id THEN "reused" ELSE "entry"}
                       ELSE window
        BY <2>1 DEF Notice
    <2>3. /\ seen' = seen /\ handle' = handle /\ tmp' = tmp
        BY <2>2 DEF program
    <2>4. i # Absent /\ i # tmp /\ \A q \in Files : names[q] # i
        BY <2>1, FilesAssumption DEF Fresh, InUse, FilesAssumption
    <2>5. [data |-> <<Theirs, Theirs>>, mode |-> m] \in [data : Texts, mode : Nat]
        BY DEF Texts, Modes, Private
    <2>6. FileTypes'
        BY <1>0, <2>1, <2>2, <2>3, <2>5 DEF FileTypes
    <2>7. NamesApart'
        BY <1>0, <2>1, <2>4 DEF NamesApart, FileTypes
    <2>8. \A q \in Files : names'[q] = IF q = p THEN i ELSE names[q]
        BY <1>0, <2>1 DEF FileTypes
    <2>9. \A j \in Ids : j # i => inode'[j] = inode[j]
        BY <1>0, <2>1 DEF FileTypes
    <2>10. ForeignOn(P)
        <3>1. CASE p = P
            BY <2>2, <2>4, <2>8, <3>1 DEF ForeignOn
        <3>2. CASE p # P
            <4>1. names'[P] = names[P] /\ names[P] \in Ids \cup {Absent} /\ names[P] # i
                BY <1>0, <2>4, <2>8, <3>2 DEF FileTypes
            <4> QED
                BY <2>9, <4>1 DEF ForeignOn
        <3> QED
            BY <3>1, <3>2
    <2>11. Staged => /\ tmp \in Ids /\ inode'[tmp] = inode[tmp]
                     /\ \A q \in Files : names'[q] # tmp
        BY <1>0, <2>4, <2>8, <2>9
    <2> QED
        BY <2>2, <2>6, <2>7, <2>10, <2>11
<1>2. ASSUME NEW p \in Files, names[p] # Absent,
             NEW rec \in [data : Texts, mode : Nat], NEW what, Notice(p, what),
             names' = names, inode' = [inode EXCEPT ![names[p]] = rec],
             rec.data # inode[names[p]].data => what = "data",
             rec.mode # inode[names[p]].mode => what = "mode"
      PROVE  /\ ForeignOn(P) /\ window \subseteq window' /\ FileTypes' /\ NamesApart'
             /\ UNCHANGED program /\ UNCHANGED caller /\ touched' = touched
             /\ Staged => /\ tmp \in Ids /\ inode'[tmp] = inode[tmp]
                          /\ \A q \in Files : names'[q] # tmp
    <2>1. /\ UNCHANGED program /\ UNCHANGED caller /\ touched' = touched /\ faults' = faults
          /\ intrusions' = intrusions + 1
          /\ window' = IF p = P THEN window \cup {what} ELSE window
        BY <1>2 DEF Notice
    <2>2. /\ seen' = seen /\ handle' = handle /\ tmp' = tmp
        BY <2>1 DEF program
    <2>3. names[p] \in Ids
        BY <1>0, <1>2 DEF FileTypes
    <2>4. FileTypes'
        BY <1>0, <1>2, <2>1, <2>2, <2>3 DEF FileTypes
    <2>5. NamesApart'
        BY <1>0, <1>2 DEF NamesApart
    <2>6. \A j \in Ids : inode'[j] = IF j = names[p] THEN rec ELSE inode[j]
        BY <1>0, <1>2 DEF FileTypes
    <2>7. names[P] \in Ids \cup {Absent} /\ (p # P => names[P] # names[p] \/ names[P] = Absent)
        BY <1>0 DEF FileTypes, NamesApart
    <2>8. ForeignOn(P)
        BY <1>2, <2>1, <2>6, <2>7 DEF ForeignOn
    <2>9. Staged => /\ tmp \in Ids /\ inode'[tmp] = inode[tmp]
                    /\ \A q \in Files : names'[q] # tmp
        BY <1>0, <1>2, <2>6
    <2> QED
        BY <2>1, <2>4, <2>5, <2>8, <2>9
<1>3. CASE ForeignOverwrite
    <2>1. PICK p \in Files, half \in 1 .. 2 :
            /\ names[p] # Absent /\ Notice(p, "data") /\ names' = names
            /\ inode' = [inode EXCEPT ![names[p]].data[half] = Theirs]
        BY <1>3 DEF ForeignOverwrite
    <2>2. inode[names[p]] \in [data : Texts, mode : Nat]
        BY <1>0, <2>1 DEF FileTypes
    <2>3. PICK rec : rec = [inode[names[p]] EXCEPT !.data[half] = Theirs]
        OBVIOUS
    <2>4. /\ rec \in [data : Texts, mode : Nat] /\ rec.mode = inode[names[p]].mode
        <3>1. PICK x \in {"old", "new", Theirs}, y \in {"old", "new", Theirs} :
                 inode[names[p]].data = <<x, y>>
            BY <2>2 DEF Texts
        <3>2. half = 1 \/ half = 2
            OBVIOUS
        <3>3. [<<x, y>> EXCEPT ![half] = Theirs] \in Texts
            BY <3>2 DEF Texts
        <3> QED
            BY <2>2, <2>3, <3>1, <3>3
    <2>5. inode' = [inode EXCEPT ![names[p]] = rec]
        BY <2>1, <2>3
    <2> QED
        BY <1>2, <2>1, <2>4, <2>5
<1>4. CASE ForeignRemove
    <2>1. PICK p \in Files :
            /\ names[p] # Absent /\ Notice(p, "entry")
            /\ names' = [names EXCEPT ![p] = Absent] /\ inode' = inode
        BY <1>4 DEF ForeignRemove
    <2>2. /\ UNCHANGED program /\ UNCHANGED caller /\ touched' = touched /\ faults' = faults
          /\ intrusions' = intrusions + 1
          /\ window' = IF p = P THEN window \cup {"entry"} ELSE window
        BY <2>1 DEF Notice
    <2>3. /\ seen' = seen /\ handle' = handle /\ tmp' = tmp
        BY <2>2 DEF program
    <2>4. FileTypes'
        BY <1>0, <2>1, <2>2, <2>3 DEF FileTypes
    <2>5. \A q \in Files : names'[q] = IF q = p THEN Absent ELSE names[q]
        BY <1>0, <2>1 DEF FileTypes
    <2>6. NamesApart'
        BY <1>0, <2>5 DEF NamesApart
    <2>7. ForeignOn(P)
        BY <2>1, <2>2, <2>5 DEF ForeignOn
    <2>8. Staged => /\ tmp \in Ids /\ inode'[tmp] = inode[tmp]
                    /\ \A q \in Files : names'[q] # tmp
        BY <1>0, <2>1, <2>5, FilesAssumption DEF FilesAssumption
    <2> QED
        BY <2>2, <2>4, <2>6, <2>7, <2>8
<1>5. CASE ForeignChmod
    <2>1. PICK p \in Files, m \in Modes :
            /\ names[p] # Absent /\ Notice(p, "mode") /\ names' = names
            /\ inode' = [inode EXCEPT ![names[p]].mode = m]
        BY <1>5 DEF ForeignChmod
    <2>2. inode[names[p]] \in [data : Texts, mode : Nat] /\ m \in Nat
        BY <1>0, <2>1 DEF FileTypes, Modes, Private
    <2>3. PICK rec : rec = [inode[names[p]] EXCEPT !.mode = m]
        OBVIOUS
    <2>4. rec \in [data : Texts, mode : Nat] /\ rec.data = inode[names[p]].data
        BY <2>2, <2>3
    <2>5. inode' = [inode EXCEPT ![names[p]] = rec]
        BY <2>1, <2>3
    <2> QED
        BY <1>2, <2>1, <2>4, <2>5
<1> QED
    BY <1>1, <1>3, <1>4, <1>5 DEF Foreign

LEMMA ForeignKeeps ==
    ASSUME ScriptInv, Foreign PROVE ScriptInv'
<1>0. doing # "idle" /\ P \in Files
    <2>1. doing # "idle"
        BY DEF Foreign, ForeignSave, ForeignOverwrite, ForeignRemove, ForeignChmod, Notice
    <2> QED
        BY <2>1, ReadAPath, WorkedOn DEF Working, ScriptInv
<1>1. /\ ForeignOn(P) /\ window \subseteq window' /\ FileTypes' /\ NamesApart'
      /\ UNCHANGED program /\ UNCHANGED caller /\ touched' = touched
      /\ Staged => /\ tmp \in Ids /\ inode'[tmp] = inode[tmp]
                   /\ \A q \in Files : names'[q] # tmp
    BY <1>0, ForeignWell
<1>2. /\ doing' = doing /\ seen' = seen /\ handle' = handle /\ acc' = acc /\ tmp' = tmp
    BY <1>1 DEF program
<1>3. /\ job' = job /\ stage' = stage /\ at' = at /\ snap' = snap /\ waiting' = waiting
      /\ report' = report /\ prefix' = prefix
      /\ P' = P /\ Op' = Op /\ Base' = Base /\ Batch' = Batch
      /\ Creates' = Creates /\ Guarded' = Guarded
    BY <1>1, SameCaller
<1>4. Paths' = Paths /\ Past' = Past /\ Rest' = Rest
    BY <1>3, SameEnd
<1>5. CallerTypes'
    BY <1>2, <1>3, <1>4 DEF CallerTypes, ScriptInv
<1>6. ReadingChangesNothing' /\ ProgressSoFar' /\ VerifiesAChange'
    BY <1>1, <1>2, <1>3, <1>4
       DEF ReadingChangesNothing, ProgressSoFar, VerifiesAChange, ScriptInv, ProgressInv
<1>7. AnswerIsTrue'
    BY <1>1, <1>2, <1>3, <1>4 DEF AnswerIsTrue, Partition, ScriptInv, ProgressInv
<1>8. HalvesRead' /\ StagedApart' /\ SameHasBase'
    BY <1>1, <1>2, <1>3
       DEF HalvesRead, StagedApart, Staged, SameHasBase, ScriptInv, WindowInv
<1>9. LookedAt'
    BY <1>2, <1>3 DEF LookedAt, ScriptInv, WindowInv
<1>10. names[P] \in Ids \cup {Absent} /\ seen.id \in Ids \cup {Absent}
    BY <1>0 DEF ScriptInv, FileTypes
<1>11. ASSUME names[P] # Absent, names'[P] = names[P], window' \cap {"data"} = {}
       PROVE  inode'[names[P]].data = inode[names[P]].data
    BY <1>1, <1>11 DEF ForeignOn
<1>12. ASSUME stage # "reading", ~Batch PROVE HalfKnown' /\ WholeKnown'
    <2>1. ASSUME doing \in {"read2", "restat"}, "reused" \notin window', names'[P] = seen.id
          PROVE  /\ names[P] = seen.id /\ names[P] # Absent /\ "reused" \notin window
                 /\ "data" \notin window' =>
                       inode'[seen.id].data = inode[seen.id].data /\ "data" \notin window
        <3>1. seen.id # Absent
            BY <1>12, <2>1 DEF LookedAt, ScriptInv, WindowInv
        <3>2. names[P] = seen.id
            BY <1>1, <2>1, <3>1 DEF ForeignOn
        <3> QED
            BY <1>1, <1>11, <2>1, <3>1, <3>2
    <2>2. HalfKnown'
        <3>1. SUFFICES ASSUME doing = "read2", "reused" \notin window', names'[P] = seen.id
              PROVE  /\ handle = seen.id
                     /\ "data" \notin window' => acc = <<inode'[seen.id].data[1]>>
            BY <1>2, <1>3 DEF HalfKnown
        <3> QED
            BY <1>12, <2>1, <3>1 DEF HalfKnown, ScriptInv, WindowInv
    <2>3. WholeKnown'
        <3>1. SUFFICES ASSUME doing = "restat", "reused" \notin window', "data" \notin window',
                              names'[P] = seen.id
              PROVE  acc = inode'[seen.id].data
            BY <1>2, <1>3 DEF WholeKnown
        <3> QED
            BY <1>12, <2>1, <3>1 DEF WholeKnown, ScriptInv, WindowInv
    <2> QED
        BY <2>2, <2>3
<1>13. ASSUME stage # "reading", ~Batch, doing \in {"chmod", "swap", "remove"} PROVE AboutToChange'
    <2>1. seen.id # Absent
        BY <1>13 DEF LookedAt, ScriptInv, WindowInv
    <2>2. names'[P] # seen.id => "entry" \in window'
        BY <1>1, <1>13 DEF ForeignOn, AboutToChange, ScriptInv, WindowInv
    <2>3. ASSUME window' = {}
          PROVE  window = {} /\ names'[P] = names[P] /\ names[P] # Absent
                 /\ inode'[names[P]].data = inode[names[P]].data
        <3>1. window = {} /\ names'[P] = names[P]
            BY <1>1, <2>3 DEF ForeignOn
        <3>2. names[P] = seen.id
            BY <1>13, <3>1 DEF AboutToChange, ScriptInv, WindowInv
        <3> QED
            BY <1>11, <2>1, <2>3, <3>1, <3>2
    <2>4. window' = {} /\ Guarded => inode'[names'[P]].data = Base.data
        BY <1>13, <2>3 DEF AboutToChange, ScriptInv, WindowInv
    <2>5. ASSUME Op.op # "delete", window' \cap {"entry", "reused", "mode"} = {}
          PROVE  Look(P)' = seen
        <3>1. Look(P) = seen
            BY <1>1, <1>13, <2>5 DEF AboutToChange, ScriptInv, WindowInv
        <3>2. names'[P] = names[P]
            BY <1>1, <2>5 DEF ForeignOn
        <3>3. names[P] # Absent /\ inode'[names[P]].mode = inode[names[P]].mode
            BY <1>0, <1>1, <2>1, <2>5, <3>1, <3>2, LookIsTyped DEF ForeignOn, ScriptInv
        <3> QED
            BY <1>3, <3>1, <3>2, <3>3 DEF Look
    <2>6. doing = "swap" => inode'[tmp].mode = seen.mode
        BY <1>1, <1>13 DEF Staged, AboutToChange, ScriptInv, WindowInv
    <2>7. doing = "remove" => Op.op = "delete"
        BY <1>13 DEF AboutToChange, ScriptInv, WindowInv
    <2> QED
        BY <1>2, <1>3, <2>2, <2>4, <2>5, <2>6, <2>7 DEF AboutToChange
<1>14. ASSUME stage # "reading", Batch PROVE BatchKnows'
    <2>1. doing \notin {"compare", "chmod"} /\ (doing \in {"settle", "swap", "remove"} => ~Creates)
        BY <1>14 DEF BatchKnows, ScriptInv, WindowInv
    <2>2. ASSUME window' = {}, names[P] # Absent
          PROVE  window = {} /\ names'[P] = names[P] /\ inode'[names[P]].data = inode[names[P]].data
        <3>1. window = {} /\ names'[P] = names[P]
            BY <1>1, <2>2 DEF ForeignOn
        <3> QED
            BY <1>11, <2>2, <3>1
    <2>3. ASSUME doing = "read2", window' = {}
          PROVE  names'[P] = handle /\ acc = <<inode'[handle].data[1]>>
        <3>1. window = {}
            BY <1>1, <2>3
        <3>2. names[P] = handle /\ acc = <<inode[handle].data[1]>> /\ handle \in Ids
            BY <1>14, <2>3, <3>1 DEF BatchKnows, ScriptInv, WindowInv, HalvesRead
        <3> QED
            BY <2>2, <2>3, <3>2, FilesAssumption DEF FilesAssumption
    <2>4. ASSUME doing = "restat", window' = {}
          PROVE  names'[P] # Absent /\ acc = inode'[names'[P]].data
        <3>1. window = {}
            BY <1>1, <2>4
        <3>2. names[P] # Absent /\ acc = inode[names[P]].data
            BY <1>14, <2>4, <3>1 DEF BatchKnows, ScriptInv, WindowInv
        <3> QED
            BY <2>2, <2>4, <3>2
    <2>5. ASSUME doing \in {"stage", "settle", "swap", "remove"}, ~Creates, Guarded
          PROVE  /\ names'[P] # seen.id => "entry" \in window'
                 /\ window' = {} => names'[P] # Absent /\ inode'[names'[P]].data = Base.data
        <3>1. /\ names[P] # seen.id => "entry" \in window
              /\ window = {} => names[P] # Absent /\ inode[names[P]].data = Base.data
            BY <1>14, <2>5 DEF BatchKnows, ScriptInv, WindowInv
        <3>2. names'[P] # seen.id => "entry" \in window'
            BY <1>1, <3>1 DEF ForeignOn
        <3>3. window' = {} => window = {}
            BY <1>1
        <3> QED
            BY <2>2, <3>1, <3>2, <3>3
    <2> QED
        BY <1>2, <1>3, <2>1, <2>3, <2>4, <2>5 DEF BatchKnows
<1>15. HalfKnown' /\ WholeKnown' /\ AboutToChange' /\ BatchKnows'
    <2>1. (stage = "reading" \/ Batch) => HalfKnown' /\ WholeKnown' /\ AboutToChange'
        BY <1>3 DEF HalfKnown, WholeKnown, AboutToChange
    <2>2. doing \notin {"chmod", "swap", "remove"} => AboutToChange'
        BY <1>2 DEF AboutToChange
    <2>3. (stage = "reading" \/ ~Batch) => BatchKnows'
        BY <1>3 DEF BatchKnows
    <2> QED
        BY <1>12, <1>13, <1>14, <2>1, <2>2, <2>3
<1> QED
    BY <1>1, <1>5, <1>6, <1>7, <1>8, <1>9, <1>15 DEF ScriptInv, ProgressInv, WindowInv

-----------------------------------------------------------------------------
(* The theorems.                                                           *)

LEMMA ScriptsStart == ScriptsInit => ScriptInv
<1> SUFFICES ASSUME ScriptsInit PROVE ScriptInv
    OBVIOUS
<1>1. /\ names \in Trees /\ job \in Jobs /\ at = 1 /\ handle = Absent /\ tmp = Absent
      /\ inode = [i \in Ids |-> [data |-> <<"old", "old">>, mode |-> 644]]
      /\ stage = (IF job.reads = <<>> THEN "mutating" ELSE "reading")
      /\ doing = (IF job.reads = <<>> THEN "launch" ELSE "stat")
      /\ seen = [id |-> Absent, mode |-> 0] /\ acc = <<>>
      /\ snap = [p \in Files |-> Missing] /\ prefix = {} /\ waiting = TRUE
      /\ report = [changed |-> {}, unknown |-> {}, same |-> {}]
      /\ touched = {} /\ window = {} /\ intrusions = 0 /\ faults = 0
    BY DEF ScriptsInit
<1>2. /\ job.reads \in Seq(Files) /\ job.ops # <<>>
      /\ job.ops \in Seq([path : Files, op : OpKind, last : BOOLEAN])
      /\ job.reads = <<>> => \A i \in DOMAIN job.ops : job.ops[i].op = "overwrite"
    BY <1>1, JobsAreJobs
<1>3. 1 <= Len(job.ops) /\ (job.reads # <<>> => 1 <= Len(job.reads))
    BY <1>2
<1>4. CallerTypes
    BY <1>1, <1>3 DEF CallerTypes, Places, Reading
<1>5. FileTypes /\ NamesApart
    BY <1>1, FilesAssumption DEF FilesAssumption, FileTypes, NamesApart, Texts
<1>6. HalvesRead
    BY <1>1 DEF HalvesRead
<1>7. ProgressInv
    BY <1>1 DEF ProgressInv, ReadingChangesNothing, ProgressSoFar, VerifiesAChange, AnswerIsTrue
<1>8. SameHasBase
    BY <1>1, <1>2 DEF SameHasBase
<1>9. StagedApart /\ LookedAt /\ HalfKnown /\ WholeKnown /\ AboutToChange /\ BatchKnows
    BY <1>1 DEF StagedApart, Staged, LookedAt, HalfKnown, WholeKnown, AboutToChange, BatchKnows
<1> QED
    BY <1>4, <1>5, <1>6, <1>7, <1>8, <1>9 DEF ScriptInv, WindowInv

LEMMA ScriptsStep ==
    ASSUME ScriptInv, [ScriptsNext]_scriptVars PROVE ScriptInv'
<1>1. ASSUME ScriptsNext PROVE ScriptInv'
    BY <1>1, SnapshotStatKeeps, SnapshotRestatKeeps, OpenKeeps, ReadOnKeeps, LaunchKeeps,
       FaultsKeep, FirstStatKeeps, StageKeeps, LinkKeeps, CompareKeeps, RestatKeeps,
       ChmodKeeps, SwapKeeps, RemoveKeeps, VerifyKeeps, BatchCheckKeeps, BatchCompareKeeps,
       BatchSettleKeeps, HostGivesUpKeeps, ForeignKeeps
       DEF ScriptsNext
<1>2. ASSUME UNCHANGED scriptVars PROVE ScriptInv'
    <2>1. /\ names' = names /\ inode' = inode /\ doing' = doing /\ seen' = seen
          /\ handle' = handle /\ acc' = acc /\ tmp' = tmp /\ UNCHANGED caller
          /\ touched' = touched /\ window' = window /\ intrusions' = intrusions
          /\ faults' = faults
        BY <1>2 DEF scriptVars, disk, program
    <2>2. /\ job' = job /\ stage' = stage /\ at' = at /\ snap' = snap /\ waiting' = waiting
          /\ report' = report /\ prefix' = prefix
          /\ P' = P /\ Op' = Op /\ Base' = Base /\ Batch' = Batch
          /\ Creates' = Creates /\ Guarded' = Guarded
        BY <2>1, SameCaller
    <2>3. Paths' = Paths /\ Past' = Past /\ Rest' = Rest
        BY <2>2, SameEnd
    <2>4. CallerTypes' /\ FileTypes' /\ HalvesRead'
        BY <2>1, <2>2, <2>3 DEF CallerTypes, FileTypes, HalvesRead, ScriptInv
    <2>5. ProgressInv'
        BY <2>1, <2>2, <2>3
           DEF ProgressInv, ReadingChangesNothing, ProgressSoFar, VerifiesAChange,
               AnswerIsTrue, Partition, ScriptInv
    <2>6. NamesApart' /\ StagedApart' /\ SameHasBase' /\ LookedAt' /\ HalfKnown' /\ WholeKnown'
        BY <2>1, <2>2
           DEF NamesApart, StagedApart, Staged, SameHasBase, LookedAt, HalfKnown, WholeKnown,
               ScriptInv, WindowInv
    <2>7. AboutToChange' /\ BatchKnows'
        BY <2>1, <2>2 DEF AboutToChange, BatchKnows, Look, ScriptInv, WindowInv
    <2> QED
        BY <2>4, <2>5, <2>6, <2>7 DEF ScriptInv, WindowInv
<1> QED
    BY <1>1, <1>2

(* The inductive invariant of the scripts: what the caller may say of the  *)
(* paths that are settled and of those that are left, and what a program   *)
(* still knows, at each of its places, of the path it has looked at.       *)
(* (WRITE_SCRIPT, GUARDED_DELETE_SCRIPT, BATCH_EDIT_SCRIPT, attach_mutation_progress) *)
THEOREM ScriptInvariant == ScriptsSpec => []ScriptInv
<1>1. ScriptInv /\ [ScriptsNext]_scriptVars => ScriptInv'
    BY ScriptsStep
<1> QED
    BY <1>1, ScriptsStart, PTL DEF ScriptsSpec

(* The caller's list is true: what it reports as changed its programs have *)
(* changed, what it reports as unchanged they have not, and every path of  *)
(* the job is in one list, for jobs of any length on any directory, and    *)
(* whatever fails or interferes. (attach_mutation_progress, parse_batch_result) *)
THEOREM ReportsAreTrue == ScriptsSpec => []ProgressIsTrue
<1>1. ScriptInv => ProgressIsTrue
    BY DEF ScriptInv, ProgressInv, AnswerIsTrue, Partition, ProgressIsTrue
<1> QED
    BY <1>1, ScriptInvariant, PTL

(* A write, a delete or an item of a batch takes the place of content      *)
(* other than its base, of another inode or of another mode only if the    *)
(* foreign program came in the window that is left after the last look.    *)
(* (WRITE_SCRIPT, GUARDED_DELETE_SCRIPT, BATCH_EDIT_SCRIPT)                *)
THEOREM OnlyTheWindowIsLeft == ScriptsSpec => NoStaleOverwrite
<1> DEFINE lost == inode[names[P]]
           Bounded == names' # names /\ intrusions' = intrusions /\ names[P] # Absent =>
              /\ Guarded /\ lost.data # Base.data => window # {}
              /\ Guarded /\ names[P] # seen.id => "entry" \in window
              /\ ~Batch /\ Op.op # "delete" /\ inode[tmp].mode # lost.mode =>
                     window \cap {"entry", "reused", "mode"} # {}
<1>1. ASSUME ScriptInv, Swap \/ Remove, names[P] # Absent PROVE Bounded
    <2>1. stage # "reading" /\ doing \in {"swap", "remove"}
        BY <1>1 DEF Swap, Remove, At
    <2>2. CASE Batch
        <3>1. ~Creates
            BY <1>1, <2>1, <2>2 DEF ScriptInv, WindowInv, BatchKnows
        <3> QED
            BY <1>1, <2>1, <2>2, <3>1 DEF ScriptInv, WindowInv, BatchKnows
    <2>3. CASE ~Batch
        BY <1>1, <2>1, <2>3 DEF ScriptInv, WindowInv, AboutToChange, Look
    <2> QED
        BY <2>2, <2>3
<1>2. ASSUME ScriptInv, ScriptsNext, names' # names, intrusions' = intrusions,
             names[P] # Absent
      PROVE  Swap \/ Remove
    <2>1. intrusions + 1 # intrusions
        BY <1>2 DEF ScriptInv, FileTypes
    <2>2. ~Foreign
        BY <1>2, <2>1
           DEF Foreign, ForeignSave, ForeignOverwrite, ForeignRemove, ForeignChmod, Notice
    <2> QED
        BY <1>2, <2>2
           DEF ScriptsNext, SnapshotStat, SnapshotRestat, Open, ReadOn, Launch, Refuse,
               NoParent, FirstStat, Stage, Link, Compare, Restat, Chmod, Verify, BatchCheck,
               BatchCompare, BatchSettle, ProgramFails, HostGivesUp, SnapshotFails, Untouched,
               disk
<1>3. ScriptInv /\ [ScriptsNext]_scriptVars => [Bounded]_scriptVars
    <2>1. ASSUME ScriptInv, ScriptsNext PROVE Bounded
        BY <1>1, <1>2, <2>1
    <2> QED
        BY <2>1
<1> QED
    BY <1>3, ScriptInvariant, PTL DEF ScriptsSpec, NoStaleOverwrite

=============================================================================
