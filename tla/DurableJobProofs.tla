-------------------------- MODULE DurableJobProofs --------------------------
(***************************************************************************)
(* Proofs about durable jobs (DurableJob): for any number of jobs, helpers *)
(* and boots, a terminal record is final, tells the truth about the        *)
(* command, and no job is deleted under its runner.                        *)
(*                                                                         *)
(* No two processes agree on anything but through the files of the job, so *)
(* the invariant says for each place a helper can be at what it may rely   *)
(* on there: that a job it takes for lost will never be started any more,  *)
(* that nobody else makes the job it makes.                                *)
(*                                                                         *)
(* And about the logs of a job (JobLogs), for any amount of output, any    *)
(* budget, buffer and sizes of pages: a client that has read to the end    *)
(* has everything that was kept, and knows whether that is all.            *)
(***************************************************************************)
EXTENDS DurableJob, JobLogs, TLAPS

-----------------------------------------------------------------------------
(* The inductive invariant *)

(* The runner holds its lock. *)
Holding == {"locked", "feeding", "staged", "recorded", "watching", "killing", "draining",
            "ending", "endstaged", "leaving"}

(* The runner, before it has recorded that the job runs, and from then on  *)
(* until it has recorded its end.                                          *)
Unrecorded == {"spawned", "locked", "feeding", "staged"}
Recorded == {"recorded", "watching", "killing", "draining", "ending", "endstaged"}

(* The runner has waited for its command. *)
Reaped == {"draining", "ending", "endstaged", "leaving"}

(* A helper that makes a job's directory; one that holds a job's lock; one *)
(* that deals with the job it is at.                                       *)
Building == {"mkdir", "files", "create", "fill", "spawn"}
Locked == {"settle", "install", "dscan", "unlink", "rmdir"}
AtJob == {"read", "match", "lock", "ask", "dopen", "dwait"} \cup Locked

(* A start that has not spawned its runner yet. *)
Making(c) == c.op = "start" /\ (c.pc \in Building \/ c.phase \in {"collect", "expire"})
Unmade(j) == \A h \in Helper : Making(ctl[h]) => ctl[h].job # j

(* The job has no runner and will never have one again; or its runner has  *)
(* nothing left to do but to end.                                          *)
Over(j) == ~Alive(j) /\ Unmade(j)
Ended(j) == (runner[j].pc = "leaving" \/ ~Alive(j)) /\ Unmade(j)

HasRun(j) == runner[j].pc \notin {"none"} \cup Unrecorded

(* What a control request looks like at each of its places. *)
Shape(c) ==
  /\ c.pc = "idle" => c = Idle
  /\ c.pc # "idle" => c.job \in Job
  /\ c.pc \in AtJob => c.at \in Job
  /\ c.pc \in Building \cup {"ready"} => c.op = "start" /\ c.phase = "op"
  /\ c.pc \in {"match", "lock"} => c.seen.state \in {"starting", "running"}
  /\ c.pc = "walk" => c.phase = "collect"
  /\ c.pc = "unlink" => c.left # 0

(* The directory of a job that is being made, and nobody but its maker has *)
(* put anything there that matters.                                        *)
Makes(c) ==
  Making(c) =>
    /\ runner[c.job].pc = "none"
    /\ c.pc \in {"files", "create", "fill", "spawn"} => "dir" \in files[c.job]
    /\ c.pc \in {"create", "fill", "spawn"} => {"request", "lock"} \subseteq files[c.job]
    /\ c.pc \notin {"fill", "spawn"} => "state" \notin files[c.job]
    /\ c.pc = "fill" => record[c.job].state = "partial"
    /\ c.pc = "spawn" => record[c.job] = [state |-> "starting", boot |-> boot]

Alone ==
  \A g, h \in Helper :
    g # h /\ Making(ctl[g]) /\ Making(ctl[h]) => ctl[g].job # ctl[h].job

(* A record that was read a while ago still says this much. *)
Looks(c) ==
  c.pc = "match" =>
    /\ c.seen.boot # boot => Over(c.at)
    /\ c.seen.state = "running" => HasRun(c.at)

(* A job that is about to be recorded as lost is lost, and one that is     *)
(* about to be deleted has come to its end.                                *)
Condemned(c) ==
  /\ c.pc \in {"lock"} \cup Locked => Over(c.at)
  /\ c.pc \in {"dopen", "dwait"} => Ended(c.at)

Holds(h) ==
  /\ ctl[h].pc \in Locked => lock[ctl[h].at] = h
  /\ ctl[h].pc = "install" => record[ctl[h].at].state \in {"starting", "running"}

(* The runner's files, lock and record. *)
Supervised(j) ==
  /\ Alive(j) => {"dir", "request", "lock", "state"} \subseteq files[j]
  /\ runner[j].pc \in Holding => lock[j] = "runner"
  /\ runner[j].pc \in Unrecorded => record[j] = [state |-> "starting", boot |-> boot]
  /\ runner[j].pc \in Recorded => record[j] = [state |-> "running", boot |-> boot]

Reaps(j) ==
  /\ runner[j].pc \in Reaped => command[j] = "gone" /\ runner[j].outcome # "none"
  /\ record[j].state \in {"ended", "cancelled", "timedout"} => command[j] = "gone"

Settles(j) ==
  /\ record[j].state \in Terminal => Ended(j)
  /\ record[j].state \in {"starting", "running"} /\ record[j].boot # boot => Over(j)
  /\ record[j].state = "running" => HasRun(j)

DurableInv ==
  /\ TypeOK /\ Alone
  /\ \A h \in Helper :
       Shape(ctl[h]) /\ Makes(ctl[h]) /\ Looks(ctl[h]) /\ Condemned(ctl[h]) /\ Holds(h)
  /\ \A j \in Job : Supervised(j) /\ Reaps(j) /\ Settles(j)

-----------------------------------------------------------------------------
(* How a control request goes on                                           *)

(* The same request, or none; one that makes a job made it before. *)
Follows(c, n) ==
  /\ n.pc # "idle" => n.op = c.op /\ n.job = c.job
  /\ n.pc \in AtJob => n.at = c.at \/ c.pc \in {"walk", "ready"}
  /\ Making(n) => Making(c)

(* What `status' may lead to. *)
Answered(c, n, s) ==
  /\ n.pc \in {"idle", "walk", "read", "ask", "dopen"}
  /\ n.pc = "dopen" => s \in Terminal
  /\ n.pc \in {"read", "ask", "dopen"} => n.at = c.at

LEMMA NoRecordIsOne == NoRecord \in Record
  BY DurableJobAssumption DEF DurableJobAssumption, NoRecord, Record, JobState

LEMMA OnwardGoes ==
  ASSUME NEW c \in Request, c.job \in Job
  PROVE  /\ Onward(c) \in Request /\ Shape(Onward(c)) /\ Onward(c).pc = "walk"
         /\ c.phase \in {"collect", "expire"} => Follows(c, Onward(c))
<1>1. Onward(c) \in Request
  BY NoRecordIsOne DEF Onward, Request, CtlPC
<1>2. /\ Onward(c).pc = "walk" /\ Onward(c).op = c.op /\ Onward(c).job = c.job
      /\ Onward(c).phase = "collect"
  BY DEF Onward, Request
<1> QED
  BY <1>1, <1>2 DEF Shape, Follows, Making, AtJob, Locked, Building

LEMMA IdleGoes ==
  ASSUME NEW c \in Request
  PROVE  Idle \in Request /\ Shape(Idle) /\ Idle.pc = "idle" /\ Follows(c, Idle)
<1>1. Idle \in Request /\ Idle.pc = "idle" /\ ~Making(Idle)
  BY NoRecordIsOne DEF Idle, Request, CtlPC, AllOps, Making, Building
<1> QED
  BY <1>1 DEF Shape, Follows, AtJob, Locked, Building

LEMMA AnswerGoes ==
  ASSUME NEW c \in Request, c.pc \in AtJob, Shape(c), NEW s, NEW n \in AfterStatus(c, s)
  PROVE  n \in Request /\ Shape(n) /\ Follows(c, n) /\ Answered(c, n, s)
<1>t. /\ c.job \in Job /\ c.at \in Job /\ c.pc \notin Building
  BY DEF Shape, AtJob, Locked, Building
<1>1. CASE n = Idle
  BY <1>1, IdleGoes DEF Answered
<1>2. CASE n = [c EXCEPT !.pc = "dopen"] /\ s \in Terminal
  <2>1. n \in Request /\ n.pc = "dopen" /\ n.at = c.at /\ n.op = c.op /\ n.job = c.job
        /\ n.phase = c.phase
    BY <1>2 DEF Request, CtlPC
  <2> QED
    BY <1>2, <2>1, <1>t DEF Shape, Follows, Answered, Making, AtJob, Locked, Building
<1>3. CASE n = Onward(c) /\ c.phase = "collect"
  BY <1>3, <1>t, OnwardGoes DEF Answered
<1>4. CASE n = [c EXCEPT !.pc = "read", !.phase = "expire"] /\ c.phase = "collect"
  <2>1. n \in Request /\ n.pc = "read" /\ n.at = c.at /\ n.op = c.op /\ n.job = c.job
        /\ n.phase = "expire"
    BY <1>4 DEF Request, CtlPC
  <2> QED
    BY <1>4, <2>1, <1>t DEF Shape, Follows, Answered, Making, AtJob, Locked, Building
<1>5. CASE n = [c EXCEPT !.pc = "ask"]
  <2>1. n \in Request /\ n.pc = "ask" /\ n.at = c.at /\ n.op = c.op /\ n.job = c.job
        /\ n.phase = c.phase
    BY <1>5 DEF Request, CtlPC
  <2> QED
    BY <2>1, <1>t DEF Shape, Follows, Answered, Making, AtJob, Locked, Building
<1>6. CASE n = [c EXCEPT !.pc = "read"]
  <2>1. n \in Request /\ n.pc = "read" /\ n.at = c.at /\ n.op = c.op /\ n.job = c.job
        /\ n.phase = c.phase
    BY <1>6 DEF Request, CtlPC
  <2> QED
    BY <2>1, <1>t DEF Shape, Follows, Answered, Making, AtJob, Locked, Building
<1> QED
  BY <1>1, <1>2, <1>3, <1>4, <1>5, <1>6 DEF AfterStatus

(* The next place in the same request. *)
LEMMA PlaceGoes ==
  ASSUME NEW c \in Request, Shape(c), c.pc # "idle", NEW pc \in CtlPC \ {"idle", "walk", "unlink"},
         pc \in AtJob => c.pc \in AtJob,
         pc \in Building \cup {"ready"} => c.pc \in Building,
         pc \in {"match", "lock"} => c.seen.state \in {"starting", "running"}
  PROVE  LET n == [c EXCEPT !.pc = pc]
         IN  n \in Request /\ Shape(n) /\ Follows(c, n) /\ n.pc = pc
<1> DEFINE n == [c EXCEPT !.pc = pc]
<1>1. /\ n \in Request /\ n.pc = pc /\ n.at = c.at /\ n.op = c.op /\ n.job = c.job
      /\ n.phase = c.phase /\ n.seen = c.seen
  BY DEF Request
<1> QED
  BY <1>1 DEF Shape, Follows, Making, Building

LEMMA NotFoundGoes ==
  ASSUME NEW h \in Helper, ctl \in [Helper -> Request], Shape(ctl[h]), ctl[h].pc # "idle",
         NotFound(h)
  PROVE  \E n \in Request : /\ Become(h, n) /\ Shape(n) /\ Follows(ctl[h], n)
                            /\ n.pc \in {"idle", "walk"}
<1>1. ctl[h] \in Request /\ ctl[h].job \in Job
  BY DEF Shape
<1>2. CASE ctl[h].phase = "expire"
  BY <1>1, <1>2, OnwardGoes DEF NotFound
<1>3. CASE ctl[h].phase # "expire"
  BY <1>1, <1>3, IdleGoes DEF NotFound
<1> QED
  BY <1>2, <1>3

(* A helper's step leaves the other requests alone. *)
Moves(h) ==
  /\ ctl' \in [Helper -> Request]
  /\ \A g \in Helper \ {h} : ctl'[g] = ctl[g]
  /\ Shape(ctl'[h]) /\ Follows(ctl[h], ctl'[h])

LEMMA ControlMoves ==
  ASSUME DurableInv, NEW h \in Helper, ControlStep(h) \/ ControlFault(h)
  PROVE  Moves(h)
<1>t. ctl \in [Helper -> Request] /\ Shape(ctl[h]) /\ record \in [Job -> Record]
  BY DEF DurableInv, TypeOK
<1>c. ctl[h] \in Request
  BY <1>t
<1>b. ASSUME NEW n \in Request, Become(h, n), Shape(n), Follows(ctl[h], n)
      PROVE  Moves(h)
  BY <1>t, <1>b DEF Become, Moves
<1>r. Return(h) => Moves(h)
  BY <1>b, <1>c, IdleGoes DEF Return
<1>a. ASSUME NEW s, Answer(h, s), ctl[h].pc \in AtJob PROVE Moves(h)
  BY <1>a, <1>b, <1>c, <1>t, AnswerGoes DEF Answer
<1>n. NotFound(h) /\ ctl[h].pc # "idle" => Moves(h)
  BY <1>b, <1>t, NotFoundGoes
<1>g. ASSUME NEW pc \in CtlPC \ {"idle", "walk", "unlink"}, Goto(h, pc), ctl[h].pc # "idle",
             pc \in AtJob => ctl[h].pc \in AtJob,
             pc \in Building \cup {"ready"} => ctl[h].pc \in Building,
             pc \in {"match", "lock"} => ctl[h].seen.state \in {"starting", "running"}
      PROVE  Moves(h)
  <2>1. Become(h, [ctl[h] EXCEPT !.pc = pc])
    BY <1>t, <1>g DEF Goto, Become
  <2> QED
    BY <2>1, <1>g, <1>b, <1>c, <1>t, PlaceGoes
<1>1. CASE Walk(h)
  <2>t. /\ ctl[h].pc = "walk" /\ ctl[h].job \in Job /\ ctl[h].walk \subseteq Job
        /\ ctl[h].phase = "collect"
    BY <1>1, <1>c, <1>t DEF Walk, Shape, Request
  <2>1. ASSUME NEW j \in ctl[h].walk, Become(h, [ctl[h] EXCEPT !.at = j, !.pc = "read"])
        PROVE  Moves(h)
    <3> DEFINE n == [ctl[h] EXCEPT !.at = j, !.pc = "read"]
    <3>1. /\ n \in Request /\ n.pc = "read" /\ n.at = j /\ n.op = ctl[h].op
          /\ n.job = ctl[h].job /\ n.phase = ctl[h].phase
      BY <2>1, <2>t, <1>c DEF Request, CtlPC
    <3> QED
      BY <3>1, <2>1, <2>t, <1>b DEF Shape, Follows, Making, Building, AtJob, Locked
  <2>2. ASSUME NEW first \in {"mkdir", "read"}, first = "mkdir" <=> ctl[h].op = "start",
               ctl[h].walk = {},
               Become(h, [ctl[h] EXCEPT !.phase = "op", !.at = ctl[h].job, !.pc = first])
        PROVE  Moves(h)
    <3> DEFINE n == [ctl[h] EXCEPT !.phase = "op", !.at = ctl[h].job, !.pc = first]
    <3>1. /\ n \in Request /\ n.pc = first /\ n.at = ctl[h].job /\ n.op = ctl[h].op
          /\ n.job = ctl[h].job /\ n.phase = "op"
      BY <2>2, <2>t, <1>c DEF Request, CtlPC
    <3>2. Shape(n)
      BY <3>1, <2>2, <2>t DEF Shape, Building, AtJob, Locked
    <3>3. Making(n) => Making(ctl[h])
      BY <3>1, <2>2, <2>t DEF Making, Building
    <3> QED
      BY <3>1, <3>2, <3>3, <2>2, <2>t, <1>b DEF Follows
  <2> QED
    BY <1>1, <2>1, <2>2 DEF Walk
<1>2. CASE read_state(h)
  <2>t. ctl[h].pc = "read" /\ ctl[h].pc \in AtJob /\ ctl[h].at \in Job
    BY <1>2, <1>t DEF read_state, Shape, AtJob
  <2>1. CASE Readable(ctl[h].at) /\ record[ctl[h].at].state \in Terminal
    BY <1>2, <2>1, <2>t, <1>a DEF read_state
  <2>2. CASE Readable(ctl[h].at) /\ record[ctl[h].at].state \notin Terminal
    <3> DEFINE n == [ctl[h] EXCEPT !.pc = "match", !.seen = record[ctl[h].at]]
    <3>1. Become(h, n)
      BY <1>2, <2>2 DEF read_state
    <3>2. record[ctl[h].at] \in Record /\ record[ctl[h].at].state \in {"starting", "running"}
      BY <2>2, <2>t, <1>t DEF Readable, Record, JobState, DurableInv, TypeOK
    <3>3. /\ n \in Request /\ n.pc = "match" /\ n.at = ctl[h].at /\ n.op = ctl[h].op
          /\ n.job = ctl[h].job /\ n.phase = ctl[h].phase /\ n.seen = record[ctl[h].at]
      BY <3>2, <1>c DEF Request, CtlPC
    <3> QED
      BY <3>1, <3>2, <3>3, <2>t, <1>b, <1>t
      DEF Shape, Follows, Making, Building, AtJob, Locked
  <2>3. CASE ~Readable(ctl[h].at)
    BY <1>2, <2>3, <2>t, <1>n, <1>r DEF read_state
  <2> QED
    BY <2>1, <2>2, <2>3
<1>3. CASE reconcile_state(h)
  BY <1>3, <1>a, <1>g, <1>t DEF reconcile_state, AtJob, CtlPC, Shape, Building
<1>4. CASE ReconcileLock(h)
  BY <1>4, <1>a, <1>n, <1>g DEF ReconcileLock, AtJob, Locked, CtlPC, Building
<1>5. CASE ReconcileAgain(h)
  BY <1>5, <1>a, <1>n, <1>g DEF ReconcileAgain, AtJob, Locked, CtlPC, Building
<1>6. CASE ReconcileLost(h)
  BY <1>6, <1>a DEF ReconcileLost, AtJob, Locked
<1>7. CASE cancel(h)
  <2>t. ctl[h].pc = "ask" /\ ctl[h].job \in Job /\ ctl[h].at \in Job
    BY <1>7, <1>t DEF cancel, Shape, AtJob
  <2>1. CASE Become(h, [ctl[h] EXCEPT !.pc = "read", !.phase = "poll"])
    <3> DEFINE n == [ctl[h] EXCEPT !.pc = "read", !.phase = "poll"]
    <3>1. /\ n \in Request /\ n.pc = "read" /\ n.at = ctl[h].at /\ n.op = ctl[h].op
          /\ n.job = ctl[h].job /\ n.phase = "poll"
      BY <1>c DEF Request, CtlPC
    <3> QED
      BY <3>1, <2>1, <2>t, <1>b DEF Shape, Follows, Making, Building, AtJob, Locked
  <2> QED
    BY <1>7, <2>1, <1>r DEF cancel
<1>8. CASE DeleteOpen(h)
  BY <1>8, <1>g, <1>r DEF DeleteOpen, AtJob, CtlPC, Building
<1>9. CASE DeleteLock(h)
  BY <1>9, <1>g DEF DeleteLock, AtJob, Locked, CtlPC, Building
<1>10. CASE DeleteScan(h)
  <2>t. ctl[h].pc = "dscan" /\ ctl[h].job \in Job /\ ctl[h].at \in Job
    BY <1>10, <1>t DEF DeleteScan, Shape, AtJob, Locked
  <2>1. CASE Become(h, [ctl[h] EXCEPT !.pc = "unlink", !.left = 4])
    <3> DEFINE n == [ctl[h] EXCEPT !.pc = "unlink", !.left = 4]
    <3>1. /\ n \in Request /\ n.pc = "unlink" /\ n.at = ctl[h].at /\ n.op = ctl[h].op
          /\ n.job = ctl[h].job /\ n.phase = ctl[h].phase /\ n.left = 4
      <4>1. 4 \in 0 .. 4
        OBVIOUS
      <4> QED
        BY <1>c, <4>1 DEF Request, CtlPC
    <3>2. n.left # 0 /\ Become(h, n)
      BY <3>1, <2>1
    <3> HIDE DEF n
    <3> QED
      BY <3>1, <3>2, <2>1, <2>t, <1>b DEF Shape, Follows, Making, Building, AtJob, Locked
  <2> QED
    BY <1>10, <2>1, <1>r DEF DeleteScan
<1>11. CASE DeleteFile(h)
  <2>t. /\ ctl[h].pc = "unlink" /\ ctl[h].job \in Job /\ ctl[h].at \in Job
        /\ ctl[h].left \in 1 .. 4
    BY <1>11, <1>t, <1>c DEF DeleteFile, Shape, AtJob, Locked, Request
  <2> DEFINE pc == IF ctl[h].left = 1 THEN "rmdir" ELSE "unlink"
             n == [ctl[h] EXCEPT !.left = @ - 1, !.pc = pc]
  <2>1. Become(h, n)
    BY <1>11 DEF DeleteFile
  <2>2. ctl[h].left - 1 \in 0 .. 4 /\ (pc = "unlink" => ctl[h].left - 1 # 0)
    BY <2>t
  <2>3. /\ n \in Request /\ n.pc = pc /\ n.at = ctl[h].at /\ n.op = ctl[h].op
        /\ n.job = ctl[h].job /\ n.phase = ctl[h].phase /\ n.left = ctl[h].left - 1
    BY <2>2, <1>c DEF Request, CtlPC
  <2>4. pc \in {"unlink", "rmdir"} /\ (pc = "unlink" => n.left # 0)
    BY <2>2, <2>3
  <2>5. ctl[h].pc = "unlink" /\ ctl[h].job \in Job /\ ctl[h].at \in Job
    BY <2>t
  <2> HIDE DEF n, pc
  <2> QED
    BY <2>1, <2>3, <2>4, <2>5, <1>b DEF Shape, Follows, Making, Building, AtJob, Locked
<1>12. CASE DeleteDirectory(h)
  <2>1. CASE Become(h, Onward(ctl[h])) /\ ctl[h].phase = "expire"
    BY <1>12, <2>1, <1>b, <1>c, <1>t, OnwardGoes DEF DeleteDirectory, Shape
  <2> QED
    BY <1>12, <2>1, <1>r DEF DeleteDirectory, Return
<1>13. CASE create(h)
  BY <1>13, <1>g DEF create, AtJob, Locked, CtlPC, Building
<1>14. CASE SpawnRunner(h)
  BY <1>14, <1>g DEF SpawnRunner, AtJob, Locked, CtlPC, Building
<1>15. CASE ControlFault(h)
  BY <1>15, <1>r DEF ControlFault, CreateFails, SpawnFails, ReadyFails, HelperEnds
<1> QED
  BY <1>1, <1>2, <1>3, <1>4, <1>5, <1>6, <1>7, <1>8, <1>9, <1>10, <1>11, <1>12, <1>13,
     <1>14, <1>15 DEF ControlStep

LEMMA ExecuteMoves ==
  ASSUME DurableInv, NEW h \in Helper, NEW op \in AllOps, NEW j \in Job,
         execute_control(h, op, j)
  PROVE  /\ ctl' \in [Helper -> Request]
         /\ \A g \in Helper \ {h} : ctl'[g] = ctl[g]
         /\ Shape(ctl'[h]) /\ ctl'[h].job = j /\ ctl'[h].pc = "walk"
         /\ ctl'[h].walk = Directories
         /\ Making(ctl'[h]) => Fresh(j)
<1> DEFINE n == [Idle EXCEPT !.op = op, !.job = j, !.pc = "walk", !.walk = Directories]
<1>1. ctl' = [ctl EXCEPT ![h] = n] /\ (op = "start" => Fresh(j))
  BY DEF execute_control, Become
<1>2. ctl \in [Helper -> Request]
  BY DEF DurableInv, TypeOK
<1>3. Idle \in Request /\ Idle.phase = "collect"
  BY IdleGoes, NoRecordIsOne DEF Idle, Request, CtlPC, AllOps
<1>4. /\ n \in Request /\ n.op = op /\ n.job = j /\ n.pc = "walk" /\ n.phase = "collect"
      /\ n.walk = Directories
  BY <1>3 DEF Request, CtlPC, Directories
<1>5. Shape(n)
  BY <1>4 DEF Shape, AtJob, Locked, Building
<1> HIDE DEF n
<1> QED
  BY <1>1, <1>2, <1>4, <1>5 DEF Making

(* The runner's READY takes the helper that waits for it to the job. *)
LEMMA ReadyMoves ==
  ASSUME DurableInv, NEW j \in Job, RunnerReady(j), ctl' # ctl
  PROVE  \E h \in Helper : /\ Moves(h) /\ ctl[h].pc = "ready" /\ ctl[h].job = j
                           /\ ctl'[h].pc = "read" /\ ctl'[h].at = j
<1>t. ctl \in [Helper -> Request] /\ \A h \in Helper : Shape(ctl[h])
  BY DEF DurableInv, TypeOK
<1>1. PICK h \in Helper : /\ ctl[h].pc = "ready" /\ ctl[h].job = j
                          /\ Become(h, [ctl[h] EXCEPT !.pc = "read", !.at = j])
  BY DEF RunnerReady
<1> DEFINE n == [ctl[h] EXCEPT !.pc = "read", !.at = j]
<1>2. ctl[h] \in Request /\ ctl[h].phase = "op"
  BY <1>t, <1>1 DEF Shape, Building
<1>3. /\ n \in Request /\ n.pc = "read" /\ n.at = j /\ n.op = ctl[h].op
      /\ n.job = ctl[h].job /\ n.phase = "op"
  BY <1>2 DEF Request, CtlPC
<1>4. Shape(n) /\ Follows(ctl[h], n)
  BY <1>1, <1>3 DEF Shape, Follows, Making, AtJob, Locked, Building
<1>5. ctl' = [ctl EXCEPT ![h] = n]
  BY <1>1 DEF Become
<1> HIDE DEF n
<1> QED
  BY <1>1, <1>t, <1>3, <1>4, <1>5 DEF Moves

LEMMA RebootMoves ==
  ASSUME Reboot
  PROVE  /\ ctl' \in [Helper -> Request]
         /\ \A h \in Helper : ctl'[h] = Idle /\ Shape(Idle) /\ ~Making(Idle)
<1>1. Idle \in Request /\ Shape(Idle) /\ ~Making(Idle)
  BY IdleGoes, NoRecordIsOne DEF Idle, Request, CtlPC, AllOps, Making, Building
<1> QED
  BY <1>1 DEF Reboot

(* Who makes a step. *)
Somebody ==
  \/ \E h \in Helper : ControlStep(h) \/ ControlFault(h)
  \/ \E h \in Helper, op \in AllOps, j \in Job : execute_control(h, op, j)
  \/ \E j \in Job : RunnerStep(j) \/ Environment(j)

LEMMA RunnersLeaveControl ==
  ASSUME DurableInv, NEW j \in Job, RunnerStep(j) \/ Environment(j)
  PROVE  ctl' = ctl \/ RunnerReady(j)
  BY DEF RunnerStep, Environment, RunnerLock, RunnerSpawns, RunnerStages, RunnerRecords,
     RunnerReaps, RunnerTerminates, RunnerKills, RunnerDrains, RunnerExits, RunnerFails,
     RunnerCrash, CommandExits, MembersEnd, CommandForks

(* The requests after a step, and who makes a job: nobody begins with one  *)
(* that is not fresh.                                                      *)
LEMMA MakersStep ==
  ASSUME DurableInv, Somebody
  PROVE  /\ ctl' \in [Helper -> Request]
         /\ \A h \in Helper :
              /\ Shape(ctl'[h])
              /\ Making(ctl'[h]) =>
                   \/ Making(ctl[h]) /\ ctl'[h].job = ctl[h].job
                   \/ Fresh(ctl'[h].job) /\ \A g \in Helper \ {h} : ctl'[g] = ctl[g]
<1>t. ctl \in [Helper -> Request] /\ \A h \in Helper : Shape(ctl[h])
  BY DEF DurableInv, TypeOK
<1>m. \A h \in Helper : Making(ctl'[h]) /\ Shape(ctl'[h]) => ctl'[h].pc # "idle"
  BY DEF Making, Shape, Idle
<1>a. ASSUME NEW h \in Helper, Moves(h)
      PROVE  /\ ctl' \in [Helper -> Request]
             /\ \A g \in Helper :
                  /\ Shape(ctl'[g])
                  /\ Making(ctl'[g]) => Making(ctl[g]) /\ ctl'[g].job = ctl[g].job
  BY <1>a, <1>t, <1>m DEF Moves, Follows
<1>1. CASE \E h \in Helper : ControlStep(h) \/ ControlFault(h)
  BY <1>1, <1>a, ControlMoves
<1>2. ASSUME NEW h \in Helper, NEW op \in AllOps, NEW j \in Job, execute_control(h, op, j)
      PROVE  /\ ctl' \in [Helper -> Request]
             /\ \A g \in Helper :
                  /\ Shape(ctl'[g])
                  /\ Making(ctl'[g]) =>
                       \/ Making(ctl[g]) /\ ctl'[g].job = ctl[g].job
                       \/ Fresh(ctl'[g].job) /\ \A f \in Helper \ {g} : ctl'[f] = ctl[f]
  BY <1>2, <1>t, ExecuteMoves
<1>3. ASSUME NEW j \in Job, RunnerStep(j) \/ Environment(j)
      PROVE  /\ ctl' \in [Helper -> Request]
             /\ \A g \in Helper :
                  /\ Shape(ctl'[g])
                  /\ Making(ctl'[g]) => Making(ctl[g]) /\ ctl'[g].job = ctl[g].job
  BY <1>3, <1>a, <1>t, RunnersLeaveControl, ReadyMoves
<1> QED
  BY <1>1, <1>2, <1>3, <1>a, ControlMoves DEF Somebody

LEMMA AloneStep ==
  ASSUME DurableInv, Somebody
  PROVE  Alone'
<1>1. ASSUME NEW g \in Helper, NEW h \in Helper, g # h, Making(ctl'[g]), Making(ctl'[h]),
             ctl'[g].job = ctl'[h].job
      PROVE  FALSE
  <2>1. CASE Making(ctl[g]) /\ Making(ctl[h]) /\ ctl[g].job = ctl[h].job
    BY <1>1, <2>1 DEF DurableInv, Alone
  <2>2. ASSUME NEW f \in {g, h}, Fresh(ctl'[f].job), \A e \in Helper \ {f} : ctl'[e] = ctl[e]
        PROVE  FALSE
    BY <1>1, <2>2 DEF Fresh
  <2> QED
    BY <1>1, <2>1, <2>2, MakersStep
<1> QED
  BY <1>1 DEF Alone

(* Whoever has been left alone by all makers stays so, unless fresh. *)
LEMMA UnmadeStep ==
  ASSUME DurableInv, Somebody, NEW j \in Job, Unmade(j), ~Fresh(j)
  PROVE  Unmade(j)'
  BY MakersStep DEF Unmade

-----------------------------------------------------------------------------
(* The types                                                               *)

Runner == [pc : RunnerPC, parent : Helper \cup {None},
           outcome : {"none", "ended", "cancelled", "timedout"}]

LEMMA ControlsJob ==
  ASSUME DurableInv, NEW h \in Helper
  PROVE  /\ ctl[h] \in Request
         /\ ctl[h].pc \in AtJob => ctl[h].at \in Job
         /\ ctl[h].pc # "idle" => ctl[h].job \in Job
  BY DEF DurableInv, TypeOK, Shape

LEMMA FileTypesStep ==
  ASSUME DurableInv, [Next]_vars
  PROVE  /\ files' \in [Job -> SUBSET File] /\ record' \in [Job -> Record]
         /\ \A j \in Job : record'[j].state = "none" <=> "state" \notin files'[j]
<1>t. /\ files \in [Job -> SUBSET File] /\ record \in [Job -> Record] /\ boot \in 0 .. MaxBoot
      /\ \A j \in Job : record[j].state = "none" <=> "state" \notin files[j]
  BY DurableJobAssumption DEF DurableInv, TypeOK, DurableJobAssumption
<1>r. /\ NoRecord \in Record /\ NoRecord.state = "none"
      /\ \A s \in JobState : /\ [state |-> s, boot |-> boot] \in Record
                            /\ \A x \in Record : /\ [x EXCEPT !.state = s] \in Record
                                                 /\ [x EXCEPT !.state = s].state = s
  BY NoRecordIsOne, <1>t DEF NoRecord, Record
<1>s. {"lost", "partial", "starting", "running", "ended", "cancelled", "timedout"} \subseteq JobState
  BY DEF JobState, Terminal
<1> DEFINE Good == /\ files' \in [Job -> SUBSET File] /\ record' \in [Job -> Record]
                   /\ \A j \in Job : record'[j].state = "none" <=> "state" \notin files'[j]
<1>u. UNCHANGED <<files, record>> => Good
  BY <1>t
(* A change of one job's files and record. *)
<1>c. ASSUME NEW j \in Job, NEW f \in SUBSET File, NEW x \in Record,
             files' = [files EXCEPT ![j] = f], record' = [record EXCEPT ![j] = x],
             x.state = "none" <=> "state" \notin f
      PROVE  Good
  BY <1>c, <1>t
<1>k. ASSUME NEW j \in Job, NEW f \in SUBSET File,
             files' = [files EXCEPT ![j] = f], record' = record,
             "state" \in f <=> "state" \in files[j]
      PROVE  Good
  BY <1>k, <1>t
<1>1. ASSUME NEW h \in Helper, ControlStep(h) \/ ControlFault(h) PROVE Good
  <2>t. /\ ctl[h].pc \in AtJob => ctl[h].at \in Job
        /\ ctl[h].pc # "idle" => ctl[h].job \in Job
    BY ControlsJob
  <2>1. CASE ReconcileAgain(h)
    BY <2>1, <2>t, <1>u, <1>k, <1>t DEF ReconcileAgain, AtJob, Locked, File
  <2>2. CASE ReconcileLost(h)
    BY <2>2, <2>t, <1>c, <1>t, <1>r, <1>s DEF ReconcileLost, AtJob, Locked, File
  <2>3. CASE cancel(h)
    BY <2>3, <2>t, <1>u, <1>k, <1>t DEF cancel, AtJob, File
  <2>4. CASE DeleteFile(h)
    <3> DEFINE j == ctl[h].at
               name == UnlinkOrder[ctl[h].left]
    <3>1. /\ j \in Job /\ files' = [files EXCEPT ![j] = files[j] \ {name}]
          /\ record' = IF name = "state" THEN [record EXCEPT ![j] = NoRecord] ELSE record
      BY <2>4, <2>t, <1>t DEF DeleteFile, AtJob, Locked
    <3> HIDE DEF j, name
    <3> QED
      BY <3>1, <1>c, <1>k, <1>r, <1>t
  <2>5. CASE DeleteDirectory(h)
    BY <2>5, <2>t, <1>u, <1>k, <1>t DEF DeleteDirectory, AtJob, Locked
  <2>6. CASE create(h)
    <3> DEFINE j == ctl[h].job
    <3>1. j \in Job
      BY <2>6, <2>t DEF create
    <3>2. \/ \E names \in {{"dir"}, {"request", "lock"}} :
                 files' = [files EXCEPT ![j] = @ \cup names] /\ record' = record
          \/ /\ files' = [files EXCEPT ![j] = @ \cup {"state"}]
             /\ record' = [record EXCEPT ![j].state = "partial"]
          \/ /\ ctl[h].pc = "fill" /\ files' = [files EXCEPT ![j] = @ \cup {}]
             /\ record' = [record EXCEPT ![j] = [state |-> "starting", boot |-> boot]]
      BY <2>6 DEF create
    <3>3. ctl[h].pc = "fill" => "state" \in files[j]
      <4>1. Shape(ctl[h]) /\ Makes(ctl[h])
        BY DEF DurableInv
      <4> QED
        BY <4>1, <1>t, <3>1 DEF Shape, Makes, Making, Building
    <3>4. CASE \E names \in {{"dir"}, {"request", "lock"}} :
                 files' = [files EXCEPT ![j] = @ \cup names] /\ record' = record
      BY <3>1, <3>4, <1>k, <1>t DEF File
    <3>5. CASE /\ files' = [files EXCEPT ![j] = @ \cup {"state"}]
               /\ record' = [record EXCEPT ![j].state = "partial"]
      BY <3>1, <3>5, <1>c, <1>t, <1>r, <1>s DEF File
    <3>6. CASE /\ ctl[h].pc = "fill" /\ files' = [files EXCEPT ![j] = @ \cup {}]
               /\ record' = [record EXCEPT ![j] = [state |-> "starting", boot |-> boot]]
      BY <3>1, <3>3, <3>6, <1>c, <1>t, <1>r, <1>s
    <3> QED
      BY <3>2, <3>4, <3>5, <3>6
  <2>7. CASE CreateFails(h)
    BY <2>7, <2>t, <1>c, <1>r DEF CreateFails
  <2>8. CASE Walk(h) \/ read_state(h) \/ reconcile_state(h) \/ ReconcileLock(h)
             \/ DeleteOpen(h) \/ DeleteLock(h) \/ DeleteScan(h) \/
             SpawnRunner(h) \/ SpawnFails(h) \/ ReadyFails(h) \/ HelperEnds(h)
    BY <2>8, <1>u DEF Walk, read_state, reconcile_state, ReconcileLock,
       DeleteOpen, DeleteLock, DeleteScan, SpawnRunner, SpawnFails, ReadyFails,
       HelperEnds
  <2> QED
    BY <1>1, <2>1, <2>2, <2>3, <2>4, <2>5, <2>6, <2>7, <2>8 DEF ControlStep, ControlFault
<1>2. ASSUME NEW j \in Job, RunnerStep(j) \/ Environment(j) PROVE Good
  <2>1. CASE RunnerStages(j)
    BY <2>1, <1>k, <1>t DEF RunnerStages, File
  <2>2. CASE RunnerRecords(j)
    <3>1. PICK state \in {"running", runner[j].outcome} :
             Installs(j, state) /\ (state = "running" \/ runner[j].pc = "endstaged")
      BY <2>2 DEF RunnerRecords, Step
    <3>2. state \in {"running", "ended", "cancelled", "timedout"}
      BY <3>1 DEF DurableInv, TypeOK, Reaps, Reaped
    <3>3. /\ [state |-> state, boot |-> boot] \in Record /\ state # "none"
          /\ (files[j] \ {"temp"}) \cup {"state"} \in SUBSET File
      BY <3>2, <1>r, <1>s, <1>t DEF File
    <3> QED
      BY <3>1, <3>3, <1>c DEF Installs
  <2>3. CASE RunnerLock(j) \/ RunnerSpawns(j) \/ RunnerReady(j) \/
             RunnerReaps(j) \/ RunnerTerminates(j) \/ RunnerKills(j) \/
             RunnerDrains(j) \/ RunnerExits(j) \/ RunnerFails(j) \/
             RunnerCrash(j) \/ CommandExits(j) \/ MembersEnd(j)
    BY <2>3, <1>u DEF RunnerLock, RunnerSpawns, RunnerReady, RunnerReaps,
       RunnerTerminates, RunnerKills, RunnerDrains, RunnerExits, RunnerFails,
       RunnerCrash, CommandExits, MembersEnd
  <2>4. CASE \E kind \in {"holding", "silent"} : CommandForks(j, kind)
    BY <2>4, <1>u DEF CommandForks
  <2> QED
    BY <1>2, <2>1, <2>2, <2>3, <2>4 DEF RunnerStep, Environment
<1>3. CASE Reboot \/ UNCHANGED vars
  BY <1>3, <1>u DEF Reboot, vars
<1>4. CASE \E h \in Helper, op \in AllOps, j \in Job : execute_control(h, op, j)
  BY <1>4, <1>u DEF execute_control
<1> QED
  BY <1>1, <1>2, <1>3, <1>4 DEF Next

LEMMA ProcessTypesStep ==
  ASSUME DurableInv, [Next]_vars
  PROVE  /\ lock' \in [Job -> Helper \cup {"runner", None}] /\ runner' \in [Job -> Runner]
         /\ command' \in [Job -> {"none", "alive", "zombie", "gone"}]
         /\ members' \in [Job -> {"none", "holding", "silent"}] /\ boot' \in 1 .. MaxBoot
<1> DEFINE Lockers == Helper \cup {"runner", None}
           Good == /\ lock' \in [Job -> Lockers] /\ runner' \in [Job -> Runner]
                   /\ command' \in [Job -> {"none", "alive", "zombie", "gone"}]
                   /\ members' \in [Job -> {"none", "holding", "silent"}]
                   /\ boot' \in 1 .. MaxBoot
<1>t. /\ lock \in [Job -> Lockers] /\ runner \in [Job -> Runner]
      /\ command \in [Job -> {"none", "alive", "zombie", "gone"}]
      /\ members \in [Job -> {"none", "holding", "silent"}] /\ boot \in 1 .. MaxBoot
  BY DEF DurableInv, TypeOK, Runner
<1>p. ASSUME NEW j \in Job, NEW pc \in RunnerPC, runner' = [runner EXCEPT ![j].pc = pc]
      PROVE  runner' \in [Job -> Runner]
  BY <1>t, <1>p DEF Runner
<1>o. ASSUME NEW j \in Job, NEW pc \in RunnerPC, NEW outcome \in {"ended", "cancelled", "timedout"},
             runner' = [runner EXCEPT ![j].pc = pc, ![j].outcome = outcome]
      PROVE  runner' \in [Job -> Runner]
  <2>1. [runner[j] EXCEPT !.pc = pc, !.outcome = outcome] \in Runner
    BY <1>t DEF Runner
  <2>2. runner' = [runner EXCEPT ![j] = [runner[j] EXCEPT !.pc = pc, !.outcome = outcome]]
    BY <1>o, <1>t
  <2> QED
    BY <1>t, <2>1, <2>2
<1>1. ASSUME NEW h \in Helper, ControlStep(h) \/ ControlFault(h) PROVE Good
  <2>1. CASE SpawnRunner(h)
    <3>1. [pc |-> "spawned", outcome |-> "none", parent |-> h] \in Runner
      BY DEF Runner, RunnerPC
    <3> QED
      BY <2>1, <3>1, <1>t DEF SpawnRunner
  <2>2. CASE HelperEnds(h)
    <3>1. ASSUME NEW j \in Job
          PROVE  (IF runner[j].parent # h THEN runner[j]
                  ELSE [runner[j] EXCEPT !.parent = None, !.pc = IF @ = "zombie" THEN "gone" ELSE @])
                 \in Runner
      <4>1. runner[j] \in Runner
        BY <1>t
      <4>2. PICK p \in RunnerPC : p = IF runner[j].pc = "zombie" THEN "gone" ELSE runner[j].pc
        BY <4>1 DEF Runner, RunnerPC
      <4>3. [runner[j] EXCEPT !.parent = None, !.pc = p] \in Runner
        BY <4>1 DEF Runner
      <4> QED BY <4>1, <4>2, <4>3
    <3>2. runner' \in [Job -> Runner]
      BY <2>2, <3>1 DEF HelperEnds
    <3> QED
      BY <2>2, <3>2, <1>t DEF HelperEnds
  <2>3. CASE Walk(h) \/ read_state(h) \/ reconcile_state(h) \/ ReconcileLock(h)
             \/ ReconcileAgain(h) \/ ReconcileLost(h) \/ cancel(h) \/
             DeleteOpen(h) \/ DeleteLock(h) \/ DeleteScan(h) \/ DeleteFile(h)
             \/ DeleteDirectory(h) \/ create(h) \/ CreateFails(h) \/
             SpawnFails(h) \/ ReadyFails(h)
    <3>1. /\ UNCHANGED <<runner, command, members, boot>>
          /\ lock' = lock \/ \E j : lock' = [lock EXCEPT ![j] = None] \/ lock' = [lock EXCEPT ![j] = h]
             \/ lock' = [lock EXCEPT ![j] = IF @ = h THEN None ELSE @]
      BY <2>3 DEF Walk, read_state, reconcile_state, ReconcileLock,
         ReconcileAgain, ReconcileLost, cancel, DeleteOpen, DeleteLock, DeleteScan,
         DeleteFile, DeleteDirectory, create, CreateFails, SpawnFails, ReadyFails
    <3> QED
      BY <3>1, <1>t
  <2> QED
    BY <1>1, <2>1, <2>2, <2>3 DEF ControlStep, ControlFault
<1>2. ASSUME NEW j \in Job, RunnerStep(j) \/ Environment(j) PROVE Good
  <2>e. Ends(j) => /\ lock' \in [Job -> Lockers] /\ runner' \in [Job -> Runner]
                   /\ command' \in [Job -> {"none", "alive", "zombie", "gone"}]
    <3>1. (IF runner[j].parent = None THEN "gone" ELSE "zombie") \in RunnerPC
      BY DEF RunnerPC
    <3>2. Ends(j) => runner' \in [Job -> Runner]
      BY <3>1, <1>p DEF Ends
    <3> QED
      BY <3>2, <1>t DEF Ends
  <2>1. CASE RunnerLock(j) \/ RunnerReady(j) \/ RunnerExits(j) \/ RunnerFails(j) \/ RunnerCrash(j)
    <3>1. CASE Ends(j)
      BY <2>1, <3>1, <2>e, <1>t DEF RunnerLock, RunnerReady, RunnerExits, RunnerFails,
         RunnerCrash
    <3>2. CASE \E pc \in {"locked", "watching"} : runner' = [runner EXCEPT ![j].pc = pc]
      <4>1. runner' \in [Job -> Runner]
        BY <3>2, <1>p DEF RunnerPC
      <4>2. \/ /\ UNCHANGED <<command, members, boot>>
               /\ lock' \in {lock, [lock EXCEPT ![j] = "runner"]}
            \/ Ends(j)
        BY <2>1 DEF RunnerLock, RunnerReady, RunnerExits, RunnerFails, RunnerCrash
      <4> QED
        BY <3>1, <4>1, <4>2, <1>t
    <3> QED
      BY <2>1, <3>1, <3>2 DEF RunnerLock, RunnerReady, RunnerExits, RunnerFails,
         RunnerCrash, Step, Become
  <2>2. CASE RunnerSpawns(j) \/ RunnerStages(j) \/ RunnerRecords(j) \/ RunnerDrains(j)
    BY <2>2, <1>t, <1>p DEF RunnerSpawns, RunnerStages, RunnerRecords, RunnerDrains,
       Step, Installs, RunnerPC
  <2>3. CASE RunnerReaps(j) \/ RunnerTerminates(j)
    <3>1. runner' \in [Job -> Runner]
      <4> DEFINE outcome == IF runner[j].outcome = "none" THEN "ended" ELSE runner[j].outcome
      <4>1. outcome \in {"ended", "cancelled", "timedout"}
        BY <1>t DEF Runner
      <4>2. RunnerReaps(j) =>
              runner' = [runner EXCEPT ![j].pc = "draining", ![j].outcome = outcome]
        BY <1>t DEF RunnerReaps, Runner
      <4>3. RunnerTerminates(j) => \E o \in {"cancelled", "timedout"} :
              runner' = [runner EXCEPT ![j].pc = "killing", ![j].outcome = o]
        BY DEF RunnerTerminates
      <4>4. {"draining", "killing"} \subseteq RunnerPC
        BY DEF RunnerPC
      <4> HIDE DEF outcome
      <4> QED
        BY <2>3, <4>1, <4>2, <4>3, <4>4, <1>o
    <3> QED
      BY <2>3, <3>1, <1>t DEF RunnerReaps, RunnerTerminates
  <2>4. CASE RunnerKills(j) \/ CommandExits(j) \/ MembersEnd(j)
    BY <2>4, <1>t DEF RunnerKills, CommandExits, MembersEnd
  <2>5. CASE \E kind \in {"holding", "silent"} : CommandForks(j, kind)
    BY <2>5, <1>t DEF CommandForks
  <2> QED
    BY <1>2, <2>1, <2>2, <2>3, <2>4, <2>5 DEF RunnerStep, Environment
<1>3. CASE Reboot
  <2>1. ASSUME NEW j \in Job
        PROVE  (IF runner[j].pc = "none" THEN NoRunner
                ELSE [runner[j] EXCEPT !.pc = "gone", !.parent = None]) \in Runner
    BY <1>t DEF Runner, RunnerPC, NoRunner
  <2>2. runner' \in [Job -> Runner]
    BY <1>3, <2>1 DEF Reboot
  <2>3. boot' \in 1 .. MaxBoot
    <3>1. boot \in 1 .. MaxBoot /\ MaxBoot \in Nat /\ boot < MaxBoot /\ boot' = boot + 1
      BY <1>3, <1>t, DurableJobAssumption DEF Reboot, DurableJobAssumption
    <3> HIDE <1>t
    <3> QED
      BY <3>1
  <2> QED
    BY <1>3, <2>2, <2>3, <1>t DEF Reboot
<1>4. CASE (\E h \in Helper, op \in AllOps, j \in Job : execute_control(h, op, j)) \/ UNCHANGED vars
  BY <1>4, <1>t DEF execute_control, vars
<1> QED
  BY <1>1, <1>2, <1>3, <1>4 DEF Next

-----------------------------------------------------------------------------
(* What lasts                                                              *)

(* How the runner of a job may change. *)
RunnerChanges(k) ==
  \/ runner'[k].pc = runner[k].pc
  \/ /\ runner'[k].pc = "spawned"
     /\ \E h \in Helper : ctl[h].pc = "spawn" /\ ctl[h].job = k /\ ctl'[h].pc = "ready"
  \/ Alive(k) /\ runner'[k].pc \in {"zombie", "gone"}
  \/ /\ Alive(k) /\ runner[k].pc # "leaving" /\ runner'[k].pc \notin {"none", "spawned"}
     /\ HasRun(k) => runner'[k].pc \notin {"locked", "feeding", "staged"}
  \/ runner[k].pc = "zombie" /\ runner'[k].pc = "gone"

LEMMA RunnersStep ==
  ASSUME DurableInv, Somebody, NEW k \in Job
  PROVE  RunnerChanges(k)
<1>t. runner \in [Job -> Runner]
  BY DEF DurableInv, TypeOK, Runner
<1>u. UNCHANGED runner => RunnerChanges(k)
  BY DEF RunnerChanges
<1>1. ASSUME NEW h \in Helper, ControlStep(h) \/ ControlFault(h) PROVE RunnerChanges(k)
  <2>1. CASE SpawnRunner(h)
    <3>1. ctl'[h].pc = "ready"
      BY <2>1, ControlsJob DEF SpawnRunner, Goto, DurableInv, TypeOK, Request
    <3> QED
      BY <2>1, <3>1, <1>t DEF SpawnRunner, RunnerChanges
  <2>2. CASE HelperEnds(h)
    BY <2>2, <1>t DEF HelperEnds, RunnerChanges, Runner
  <2>3. CASE ~SpawnRunner(h) /\ ~HelperEnds(h)
    BY <1>1, <2>3, <1>u DEF ControlStep, ControlFault, Walk, read_state, reconcile_state,
       ReconcileLock, ReconcileAgain, ReconcileLost, cancel, DeleteOpen, DeleteLock,
       DeleteScan, DeleteFile, DeleteDirectory, create, CreateFails, SpawnFails,
       ReadyFails
  <2> QED
    BY <2>1, <2>2, <2>3
<1>2. ASSUME NEW j \in Job, RunnerStep(j) \/ Environment(j) PROVE RunnerChanges(k)
  <2>e. Ends(j) /\ Alive(j) => RunnerChanges(k)
    BY <1>t DEF Ends, RunnerChanges, Runner
  <2>s. ASSUME NEW to, runner'[j].pc = to, \A x \in Job \ {j} : runner'[x] = runner[x],
               Alive(j), runner[j].pc # "leaving", to \notin {"none", "spawned"},
               HasRun(j) => to \notin {"locked", "feeding", "staged"}
        PROVE  RunnerChanges(k)
    BY <2>s DEF RunnerChanges
  <2>1. CASE RunnerLock(j)
    BY <2>1, <2>e, <2>s, <1>t DEF RunnerLock, Step, Runner, Alive, HasRun, Unrecorded
  <2>2. CASE RunnerSpawns(j) \/ RunnerStages(j)
    BY <2>2, <2>s, <1>t DEF RunnerSpawns, RunnerStages, Step, Runner, Alive, HasRun, Unrecorded
  <2>3. CASE RunnerRecords(j) \/ RunnerDrains(j)
    <3>1. CASE RunnerRecords(j)
      BY <3>1, <2>s, <1>t DEF RunnerRecords, Step, Runner, Alive, HasRun, Unrecorded
    <3>2. CASE RunnerDrains(j)
      BY <3>2, <2>s, <1>t DEF RunnerDrains, Step, Runner, Alive, HasRun, Unrecorded
    <3> QED BY <2>3, <3>1, <3>2
  <2>4. CASE RunnerReady(j)
    BY <2>4, <2>e, <2>s, <1>t DEF RunnerReady, Step, Runner, Alive, HasRun, Unrecorded
  <2>5. CASE RunnerReaps(j) \/ RunnerTerminates(j)
    BY <2>5, <2>s, <1>t DEF RunnerReaps, RunnerTerminates, Runner, Alive, HasRun, Unrecorded
  <2>6. CASE RunnerExits(j) \/ RunnerFails(j) \/ RunnerCrash(j)
    BY <2>6, <2>e DEF RunnerExits, RunnerFails, RunnerCrash, Alive
  <2>7. CASE RunnerKills(j) \/ CommandExits(j) \/ MembersEnd(j)
             \/ \E kind \in {"holding", "silent"} : CommandForks(j, kind)
    BY <2>7, <1>u DEF RunnerKills, CommandExits, MembersEnd, CommandForks
  <2> QED
    BY <1>2, <2>1, <2>2, <2>3, <2>4, <2>5, <2>6, <2>7 DEF RunnerStep, Environment
<1>3. CASE \E h \in Helper, op \in AllOps, j \in Job : execute_control(h, op, j)
  BY <1>3, <1>u DEF execute_control
<1> QED
  BY <1>1, <1>2, <1>3 DEF Somebody

(* A job that nobody will run any more. *)
LEMMA OverStays ==
  ASSUME DurableInv, Somebody, NEW k \in Job, ~Fresh(k)
  PROVE  (Over(k) => Over(k)') /\ (Ended(k) => Ended(k)')
<1>1. \A h \in Helper : ctl[h].pc = "spawn" => Making(ctl[h])
  BY DEF DurableInv, Shape, Making, Building
<1>2. RunnerChanges(k)
  BY RunnersStep
<1> QED
  BY <1>1, <1>2, UnmadeStep DEF Over, Ended, Alive, Unmade, RunnerChanges

LEMMA RunIsUnmade ==
  ASSUME DurableInv, NEW k \in Job, runner[k].pc # "none"
  PROVE  Unmade(k) /\ ~Fresh(k)
  BY DEF DurableInv, Makes, Unmade, Fresh, NoRunner

LEMMA HasRunStays ==
  ASSUME DurableInv, Somebody, NEW k \in Job, HasRun(k)
  PROVE  HasRun(k)'
<1>1. \A h \in Helper : ctl[h].pc = "spawn" => ctl[h].job # k
  BY RunIsUnmade DEF DurableInv, Shape, Making, Building, Unmade, HasRun
<1>2. RunnerChanges(k)
  BY RunnersStep
<1> QED
  BY <1>1, <1>2 DEF HasRun, Unrecorded, RunnerChanges, Alive

(* A job a helper deals with does not become another one under its hands. *)
LEMMA AtIsNotFresh ==
  ASSUME NEW h \in Helper, NEW k, ctl[h].at = k \/ ctl[h].job = k \/ files[k] # {}
  PROVE  ~Fresh(k)
  BY DEF Fresh

(* What a helper relies on where its step takes it. *)
LEMMA CondemnedComes ==
  ASSUME DurableInv, NEW h \in Helper, ControlStep(h) \/ ControlFault(h)
  PROVE  /\ ctl'[h].pc \in {"lock"} \cup Locked => Over(ctl'[h].at) /\ ctl'[h].at = ctl[h].at
         /\ ctl'[h].pc \in {"dopen", "dwait"} => Ended(ctl'[h].at) /\ ctl'[h].at = ctl[h].at
<1>t. /\ ctl \in [Helper -> Request] /\ ctl[h] \in Request /\ Shape(ctl[h])
      /\ Condemned(ctl[h]) /\ Looks(ctl[h])
      /\ ctl[h].pc \in AtJob => ctl[h].at \in Job
      /\ \A j \in Job : Settles(j) /\ Supervised(j)
  BY ControlsJob DEF DurableInv, TypeOK
<1> DEFINE Good == /\ ctl'[h].pc \in {"lock"} \cup Locked => Over(ctl'[h].at) /\ ctl'[h].at = ctl[h].at
                   /\ ctl'[h].pc \in {"dopen", "dwait"} => Ended(ctl'[h].at) /\ ctl'[h].at = ctl[h].at
<1>p. ctl'[h].pc \notin {"lock", "dopen", "dwait"} \cup Locked => Good
  OBVIOUS
<1>o. Over(ctl[h].at) => Ended(ctl[h].at)
  BY DEF Over, Ended
<1>a. ASSUME NEW s, Answer(h, s), ctl[h].pc \in AtJob, s \in Terminal => Ended(ctl[h].at)
      PROVE  Good
  <2>1. PICK n \in AfterStatus(ctl[h], s) : ctl' = [ctl EXCEPT ![h] = n]
    BY <1>a DEF Answer, Become
  <2>2. Answered(ctl[h], n, s) /\ ctl'[h] = n
    BY <2>1, <1>a, <1>t, AnswerGoes
  <2> QED
    BY <2>2, <1>a DEF Answered, Locked
<1>r. Return(h) => Good
  BY <1>t, <1>p DEF Return, Become, Idle, Locked
<1>n. NotFound(h) /\ ctl[h].pc # "idle" => Good
  BY <1>t, <1>p, NotFoundGoes DEF Become, Locked
<1>g. ASSUME NEW pc, Goto(h, pc)
      PROVE  ctl'[h].pc = pc /\ ctl'[h].at = ctl[h].at
  BY <1>t, <1>g DEF Goto, Request
<1>1. CASE Walk(h)
  <2>1. ASSUME NEW j, ctl' = [ctl EXCEPT ![h] = [ctl[h] EXCEPT !.at = j, !.pc = "read"]]
        PROVE  ctl'[h].pc = "read"
    BY <2>1, <1>t DEF Request
  <2>2. ASSUME NEW pc,
               ctl' = [ctl EXCEPT ![h] = [ctl[h] EXCEPT !.phase = "op", !.at = ctl[h].job, !.pc = pc]]
        PROVE  ctl'[h].pc = pc
    BY <2>2, <1>t DEF Request
  <2>3. ctl'[h].pc \in {"read", "mkdir"}
    BY <1>1, <2>1, <2>2 DEF Walk, Become
  <2> QED
    BY <2>3, <1>p DEF Locked
<1>2. CASE read_state(h)
  <2>t. ctl[h].pc = "read" /\ ctl[h].pc \in AtJob /\ ctl[h].at \in Job
    BY <1>2, <1>t DEF read_state, AtJob
  <2>1. CASE Readable(ctl[h].at) /\ record[ctl[h].at].state \in Terminal
    <3>1. Answer(h, record[ctl[h].at].state)
      BY <1>2, <2>1 DEF read_state
    <3>2. Ended(ctl[h].at)
      BY <2>1, <2>t, <1>t DEF Settles
    <3> QED
      BY <3>1, <3>2, <2>t, <1>a
  <2>2. CASE Readable(ctl[h].at) /\ record[ctl[h].at].state \notin Terminal
    <3>1. ctl' = [ctl EXCEPT ![h] = [ctl[h] EXCEPT !.pc = "match", !.seen = record[ctl[h].at]]]
      BY <1>2, <2>2 DEF read_state, Become
    <3>2. ctl'[h].pc = "match"
      BY <3>1, <1>t DEF Request
    <3> QED
      BY <3>2, <1>p DEF Locked
  <2>3. CASE ~Readable(ctl[h].at)
    BY <1>2, <2>3, <2>t, <1>n, <1>r DEF read_state
  <2> QED
    BY <2>1, <2>2, <2>3
<1>3. CASE reconcile_state(h)
  <2>t. /\ ctl[h].pc = "match" /\ ctl[h].pc \in AtJob /\ ctl[h].at \in Job
        /\ ctl[h].seen.state \in {"starting", "running"}
    BY <1>3, <1>t DEF reconcile_state, AtJob, Shape
  <2>1. CASE Suspect(ctl[h].at, ctl[h].seen)
    <3>1. Over(ctl[h].at)
      BY <2>1, <2>t, <1>t, RunIsUnmade DEF Suspect, Looks, HasRun, Over, process_matches
    <3> QED
      BY <1>3, <2>1, <3>1, <1>g DEF reconcile_state, Locked
  <2>2. CASE ~Suspect(ctl[h].at, ctl[h].seen)
    BY <1>3, <2>2, <2>t, <1>a DEF reconcile_state, Terminal
  <2> QED
    BY <2>1, <2>2
<1>4. CASE ReconcileLock(h)
  <2>t. /\ ctl[h].pc = "lock" /\ ctl[h].pc \in AtJob /\ ctl[h].at \in Job
        /\ ctl[h].seen.state \in {"starting", "running"} /\ Over(ctl[h].at)
    BY <1>4, <1>t DEF ReconcileLock, AtJob, Shape, Condemned
  <2> QED
    BY <1>4, <2>t, <1>a, <1>n, <1>g DEF ReconcileLock, Terminal
<1>5. CASE ReconcileAgain(h) \/ ReconcileLost(h)
  <2>t. /\ ctl[h].pc # "idle" /\ ctl[h].pc \in AtJob /\ ctl[h].at \in Job
        /\ Over(ctl[h].at)
    BY <1>5, <1>t DEF ReconcileAgain, ReconcileLost, AtJob, Locked, Condemned
  <2>1. ASSUME NEW s, Answer(h, s) PROVE Good
    BY <2>1, <2>t, <1>o, <1>a
  <2>2. Goto(h, "install") => Good
    BY <2>t, <1>g
  <2>3. NotFound(h) \/ Goto(h, "install") \/ \E s : Answer(h, s)
    BY <1>5 DEF ReconcileAgain, ReconcileLost
  <2> QED
    BY <2>1, <2>2, <2>3, <2>t, <1>n
<1>6. CASE cancel(h)
  <2>1. CASE ctl' = [ctl EXCEPT ![h] = [ctl[h] EXCEPT !.pc = "read", !.phase = "poll"]]
    <3>1. ctl'[h].pc = "read"
      BY <2>1, <1>t DEF Request
    <3> QED
      BY <3>1, <1>p DEF Locked
  <2> QED
    BY <1>6, <2>1, <1>r DEF cancel, Become
<1>7. CASE DeleteOpen(h)
  BY <1>7, <1>r, <1>g, <1>t DEF DeleteOpen, Locked, Condemned
<1>8. CASE DeleteLock(h)
  <2>1. ctl[h].pc = "dwait" /\ ctl[h].at \in Job /\ lock[ctl[h].at] = None
    BY <1>8, <1>t DEF DeleteLock, AtJob
  <2>2. Ended(ctl[h].at) /\ runner[ctl[h].at].pc # "leaving"
    BY <1>8, <2>1, <1>t, DurableJobAssumption
    DEF DeleteLock, Condemned, Supervised, Holding, DurableJobAssumption
  <2>3. Over(ctl[h].at)
    BY <2>2 DEF Ended, Over
  <2> QED
    BY <1>8, <2>3, <1>g DEF DeleteLock, Locked
<1>9. CASE DeleteScan(h) \/ DeleteFile(h) \/ DeleteDirectory(h)
  <2>1. ctl[h].pc \in Locked /\ Over(ctl[h].at) /\ ctl[h].job \in Job
    <3>1. ctl[h].pc \in {"dscan", "unlink", "rmdir"}
      BY <1>9 DEF DeleteScan, DeleteFile, DeleteDirectory
    <3> QED
      BY <3>1, <1>t DEF Locked, Condemned, Shape
  <2>2. CASE DeleteScan(h)
    <3>1. CASE ctl' = [ctl EXCEPT ![h] = [ctl[h] EXCEPT !.pc = "unlink", !.left = 4]]
      <4>1. ctl'[h].pc = "unlink" /\ ctl'[h].at = ctl[h].at
        BY <3>1, <1>t DEF Request
      <4> QED
        BY <2>1, <4>1
    <3> QED
      BY <2>2, <3>1, <1>r DEF DeleteScan, Become
  <2>3. CASE DeleteFile(h)
    BY <2>1, <2>3, <1>t DEF DeleteFile, Become, Request, Locked
  <2>4. CASE DeleteDirectory(h)
    BY <2>1, <2>4, <1>r, <1>p, <1>t, OnwardGoes DEF DeleteDirectory, Return, Become, Locked
  <2> QED
    BY <1>9, <2>2, <2>3, <2>4
<1>10. CASE create(h) \/ SpawnRunner(h)
  BY <1>10, <1>g DEF create, SpawnRunner, Locked
<1>11. CASE ControlFault(h)
  BY <1>11, <1>r DEF ControlFault, CreateFails, SpawnFails, ReadyFails, HelperEnds
<1> QED
  BY <1>1, <1>2, <1>3, <1>4, <1>5, <1>6, <1>7, <1>8, <1>9, <1>10, <1>11 DEF ControlStep

LEMMA LooksComes ==
  ASSUME DurableInv, NEW h \in Helper, ControlStep(h) \/ ControlFault(h)
  PROVE  ctl'[h].pc = "match" => Looks(ctl'[h]) /\ ctl'[h].at = ctl[h].at
<1>t. /\ ctl \in [Helper -> Request] /\ ctl[h] \in Request /\ Shape(ctl[h])
      /\ ctl[h].pc \in AtJob => ctl[h].at \in Job
      /\ \A j \in Job : Settles(j)
  BY ControlsJob DEF DurableInv, TypeOK
<1> DEFINE Good == ctl'[h].pc = "match" => Looks(ctl'[h]) /\ ctl'[h].at = ctl[h].at
<1>p. ctl'[h].pc # "match" => Good
  OBVIOUS
<1>a. ASSUME NEW s, Answer(h, s), ctl[h].pc \in AtJob PROVE Good
  <2>1. PICK n \in AfterStatus(ctl[h], s) : ctl' = [ctl EXCEPT ![h] = n]
    BY <1>a DEF Answer, Become
  <2>2. Answered(ctl[h], n, s) /\ ctl'[h] = n
    BY <2>1, <1>a, <1>t, AnswerGoes
  <2> QED
    BY <2>2, <1>p DEF Answered
<1>r. Return(h) => Good
  BY <1>t, <1>p DEF Return, Become, Idle
<1>n. NotFound(h) /\ ctl[h].pc # "idle" => Good
  BY <1>t, <1>p, NotFoundGoes DEF Become
<1>g. ASSUME NEW pc, Goto(h, pc), pc # "match" PROVE Good
  BY <1>t, <1>g DEF Goto, Request
<1>1. CASE Walk(h)
  <2>1. ASSUME NEW j, ctl' = [ctl EXCEPT ![h] = [ctl[h] EXCEPT !.at = j, !.pc = "read"]]
        PROVE  ctl'[h].pc = "read"
    BY <2>1, <1>t DEF Request
  <2>2. ASSUME NEW pc,
               ctl' = [ctl EXCEPT ![h] = [ctl[h] EXCEPT !.phase = "op", !.at = ctl[h].job, !.pc = pc]]
        PROVE  ctl'[h].pc = pc
    BY <2>2, <1>t DEF Request
  <2>3. ctl'[h].pc \in {"read", "mkdir"}
    BY <1>1, <2>1, <2>2 DEF Walk, Become
  <2> QED
    BY <2>3, <1>p
<1>2. CASE read_state(h)
  <2>t. ctl[h].pc = "read" /\ ctl[h].pc \in AtJob /\ ctl[h].at \in Job
    BY <1>2, <1>t DEF read_state, AtJob
  <2>1. CASE Readable(ctl[h].at) /\ record[ctl[h].at].state \notin Terminal
    <3>1. ctl' = [ctl EXCEPT ![h] = [ctl[h] EXCEPT !.pc = "match", !.seen = record[ctl[h].at]]]
      BY <1>2, <2>1 DEF read_state, Become
    <3>2. ctl'[h].at = ctl[h].at /\ ctl'[h].seen = record[ctl[h].at]
      BY <3>1, <1>t DEF Request
    <3>3. record[ctl[h].at].state \in {"starting", "running"}
      BY <2>1, <2>t DEF Readable, Record, JobState, DurableInv, TypeOK
    <3> QED
      BY <3>2, <3>3, <2>t, <1>t DEF Looks, Settles
  <2> QED
    BY <1>2, <2>1, <2>t, <1>a, <1>n, <1>r DEF read_state
<1>3. CASE reconcile_state(h) \/ ReconcileLock(h) \/ ReconcileAgain(h) \/ ReconcileLost(h)
  <2>1. ctl[h].pc \in AtJob /\ ctl[h].pc # "idle"
    BY <1>3 DEF reconcile_state, ReconcileLock, ReconcileAgain, ReconcileLost, AtJob, Locked
  <2>2. \/ NotFound(h) \/ \E s : Answer(h, s)
        \/ \E pc \in {"lock", "settle", "install"} : Goto(h, pc)
    BY <1>3 DEF reconcile_state, ReconcileLock, ReconcileAgain, ReconcileLost
  <2> QED
    BY <2>1, <2>2, <1>a, <1>n, <1>g
<1>6. CASE cancel(h)
  <2>1. CASE ctl' = [ctl EXCEPT ![h] = [ctl[h] EXCEPT !.pc = "read", !.phase = "poll"]]
    <3>1. ctl'[h].pc = "read"
      BY <2>1, <1>t DEF Request
    <3> QED
      BY <3>1, <1>p
  <2> QED
    BY <1>6, <2>1, <1>r DEF cancel, Become
<1>7. CASE DeleteOpen(h) \/ DeleteLock(h) \/ create(h) \/ SpawnRunner(h)
  BY <1>7, <1>r, <1>g DEF DeleteOpen, DeleteLock, create, SpawnRunner
<1>9. CASE DeleteScan(h)
  <2>1. CASE ctl' = [ctl EXCEPT ![h] = [ctl[h] EXCEPT !.pc = "unlink", !.left = 4]]
    <3>1. ctl'[h].pc = "unlink"
      BY <2>1, <1>t DEF Request
    <3> QED
      BY <3>1, <1>p
  <2> QED
    BY <1>9, <2>1, <1>r DEF DeleteScan, Become
<1>10. CASE DeleteFile(h)
  <2>1. ctl'[h].pc \in {"unlink", "rmdir"}
    BY <1>10, <1>t DEF DeleteFile, Become, Request
  <2> QED
    BY <2>1, <1>p
<1>11. CASE DeleteDirectory(h)
  <2>1. ctl[h].job \in Job
    BY <1>11, <1>t DEF DeleteDirectory, Shape
  <2> QED
    BY <1>11, <2>1, <1>r, <1>p, <1>t, OnwardGoes DEF DeleteDirectory, Return, Become
<1>12. CASE ControlFault(h)
  BY <1>12, <1>r DEF ControlFault, CreateFails, SpawnFails, ReadyFails, HelperEnds
<1> QED
  BY <1>1, <1>2, <1>3, <1>6, <1>7, <1>9, <1>10, <1>11, <1>12 DEF ControlStep

(* Who changes a helper's request. *)
LEMMA WhoMoves ==
  ASSUME DurableInv, Somebody, NEW g \in Helper
  PROVE  \/ ctl'[g] = ctl[g]
         \/ ControlStep(g) \/ ControlFault(g)
         \/ ctl[g].pc \in {"idle", "ready"} /\ ctl'[g].pc \in {"walk", "read"}
<1>1. ASSUME NEW h \in Helper, ControlStep(h) \/ ControlFault(h), h # g
      PROVE  ctl'[g] = ctl[g]
  BY <1>1, ControlMoves DEF Moves
<1>2. ASSUME NEW h \in Helper, NEW op \in AllOps, NEW j \in Job, execute_control(h, op, j)
      PROVE  ctl'[g] = ctl[g] \/ (ctl[g].pc = "idle" /\ ctl'[g].pc = "walk")
  BY <1>2, ExecuteMoves DEF execute_control
<1>3. ASSUME NEW j \in Job, RunnerStep(j) \/ Environment(j)
      PROVE  ctl'[g] = ctl[g] \/ (ctl[g].pc = "ready" /\ ctl'[g].pc = "read")
  BY <1>3, RunnersLeaveControl, ReadyMoves DEF Moves
<1> QED
  BY <1>1, <1>2, <1>3 DEF Somebody

LEMMA BootStays == ASSUME Somebody PROVE boot' = boot
<1>1. ASSUME NEW h \in Helper, ControlStep(h) PROVE boot' = boot
  BY <1>1 DEF ControlStep, Walk, read_state, reconcile_state, ReconcileLock, ReconcileAgain,
     ReconcileLost, cancel, DeleteOpen, DeleteLock, DeleteScan, DeleteFile, DeleteDirectory,
     create, SpawnRunner
<1>2. ASSUME NEW h \in Helper, ControlFault(h) PROVE boot' = boot
  BY <1>2 DEF ControlFault, CreateFails, SpawnFails, ReadyFails, HelperEnds
<1>3. ASSUME NEW j \in Job, RunnerStep(j) PROVE boot' = boot
  BY <1>3 DEF RunnerStep, RunnerLock, RunnerSpawns, RunnerStages, RunnerRecords, RunnerReady,
     RunnerReaps, RunnerTerminates, RunnerKills, RunnerDrains, RunnerExits
<1>4. ASSUME NEW j \in Job, Environment(j) PROVE boot' = boot
  BY <1>4 DEF Environment, RunnerFails, RunnerCrash, CommandExits, MembersEnd, CommandForks
<1> QED
  BY <1>1, <1>2, <1>3, <1>4 DEF Somebody, execute_control

LEMMA LooksStep ==
  ASSUME DurableInv, Somebody, NEW g \in Helper
  PROVE  Looks(ctl[g])' /\ Condemned(ctl[g])'
<1>t. /\ Looks(ctl[g]) /\ Condemned(ctl[g]) /\ Shape(ctl[g])
      /\ ctl[g].pc \in AtJob => ctl[g].at \in Job
      /\ \A k \in Job : ctl[g].at = k => ~Fresh(k)
  BY AtIsNotFresh, ControlsJob DEF DurableInv
<1>b. boot' = boot
  BY BootStays
<1>s. ASSUME NEW k \in Job, ctl[g].at = k
      PROVE  /\ Over(k) => Over(k)'
             /\ Ended(k) => Ended(k)'
             /\ HasRun(k) => HasRun(k)'
  BY <1>s, <1>t, OverStays, HasRunStays
<1>1. CASE ctl'[g] = ctl[g]
  BY <1>1, <1>t, <1>b, <1>s DEF Looks, Condemned, AtJob
<1>2. CASE ControlStep(g) \/ ControlFault(g)
  <2>1. Shape(ctl'[g])
    BY MakersStep
  <2>2. ctl'[g].pc \in AtJob => ctl'[g].at \in Job
    BY <2>1 DEF Shape
  <2> QED
    BY <1>2, <2>2, <1>b, <1>s, CondemnedComes, LooksComes DEF Looks, Condemned, AtJob
<1>3. CASE ctl'[g].pc \in {"walk", "read"}
  BY <1>3 DEF Looks, Condemned, Locked
<1> QED
  BY <1>1, <1>2, <1>3, WhoMoves

-----------------------------------------------------------------------------
(* How the files, the record and the lock of a job may change              *)

RecordChanges(k) ==
  \/ record'[k] = record[k]
  \/ /\ \E h \in Helper : /\ ctl[h].pc \in {"files", "create", "fill"} /\ ctl[h].job = k
                          /\ ctl'[h].pc \in {"fill", "spawn", "idle"}
                          /\ ctl'[h].pc # ctl[h].pc
     /\ \/ record'[k].state \in {"none", "partial"}
        \/ record'[k] = [state |-> "starting", boot |-> boot]
  \/ /\ runner[k].pc = "staged" /\ runner'[k].pc = "recorded"
     /\ record'[k] = [state |-> "running", boot |-> boot]
  \/ /\ runner[k].pc = "endstaged" /\ runner'[k].pc = "leaving"
     /\ record'[k] = [state |-> runner[k].outcome, boot |-> boot]
  \/ /\ \E h \in Helper : ctl[h].pc = "install" /\ ctl[h].at = k /\ ctl'[h].pc # "install"
     /\ record'[k].state = "lost"
  \/ /\ \E h \in Helper : ctl[h].pc = "unlink" /\ ctl[h].at = k
     /\ record'[k] = NoRecord

LEMMA RecordsStep ==
  ASSUME DurableInv, Somebody, NEW k \in Job
  PROVE  RecordChanges(k)
<1>t. /\ record \in [Job -> Record] /\ ctl \in [Helper -> Request]
      /\ runner \in [Job -> Runner]
  BY DEF DurableInv, TypeOK, Runner
<1>u. record' = record => RecordChanges(k)
  BY DEF RecordChanges
<1>1. ASSUME NEW h \in Helper, ControlStep(h) \/ ControlFault(h) PROVE RecordChanges(k)
  <2>g. ASSUME NEW pc, Goto(h, pc) PROVE ctl'[h].pc = pc
    BY <1>t, <2>g DEF Goto, Request
  <2>r. Return(h) => ctl'[h].pc = "idle"
    BY <1>t DEF Return, Become, Idle
  <2>1. CASE ReconcileLost(h)
    <3>1. Shape(ctl[h]) /\ ctl[h].pc = "install" /\ ctl[h].pc \in AtJob
      BY <2>1 DEF DurableInv, ReconcileLost, AtJob, Locked
    <3>2. PICK n \in AfterStatus(ctl[h], "lost") : ctl' = [ctl EXCEPT ![h] = n]
      BY <2>1 DEF ReconcileLost, Answer, Become
    <3>3. ctl'[h].pc # "install"
      BY <3>1, <3>2, <1>t, AnswerGoes DEF Answered
    <3>4. record'[k] = record[k] \/ (ctl[h].at = k /\ record'[k].state = "lost")
      BY <2>1, <1>t DEF ReconcileLost, Record
    <3> QED
      BY <3>1, <3>3, <3>4 DEF RecordChanges
  <2>2. CASE DeleteFile(h)
    BY <2>2, <1>t DEF DeleteFile, RecordChanges
  <2>3. CASE create(h)
    <3>1. CASE record' = record
      BY <3>1, <1>u
    <3>2. CASE /\ ctl[h].pc = "create" /\ Goto(h, "fill")
               /\ record' = [record EXCEPT ![ctl[h].job].state = "partial"]
      <4>1. record'[k] = record[k] \/ (ctl[h].job = k /\ record'[k].state = "partial")
        BY <3>2, <1>t DEF Record
      <4> QED
        BY <3>2, <4>1, <2>g DEF RecordChanges
    <3>3. CASE /\ ctl[h].pc = "fill" /\ Goto(h, "spawn")
               /\ record' = [record EXCEPT ![ctl[h].job] = [state |-> "starting", boot |-> boot]]
      <4>1. \/ record'[k] = record[k]
            \/ ctl[h].job = k /\ record'[k] = [state |-> "starting", boot |-> boot]
        BY <3>3, <1>t
      <4> QED
        BY <3>3, <4>1, <2>g DEF RecordChanges
    <3> QED
      BY <2>3, <3>1, <3>2, <3>3 DEF create
  <2>4. CASE CreateFails(h)
    <3>1. record'[k] = record[k] \/ (ctl[h].job = k /\ record'[k].state = "none")
      BY <2>4, <1>t DEF CreateFails, NoRecord
    <3> QED
      BY <2>4, <3>1, <2>r DEF CreateFails, RecordChanges
  <2>5. CASE ~ReconcileLost(h) /\ ~DeleteFile(h) /\ ~create(h) /\ ~CreateFails(h)
    BY <1>1, <2>5, <1>u DEF ControlStep, ControlFault, Walk, read_state, reconcile_state,
       ReconcileLock, ReconcileAgain, cancel, DeleteOpen, DeleteLock, DeleteScan,
       DeleteDirectory, SpawnRunner, SpawnFails, ReadyFails, HelperEnds
  <2> QED
    BY <2>1, <2>2, <2>3, <2>4, <2>5
<1>2. ASSUME NEW j \in Job, RunnerStep(j) \/ Environment(j) PROVE RecordChanges(k)
  <2>1. CASE RunnerRecords(j)
    BY <2>1, <1>t DEF RunnerRecords, Step, Installs, RecordChanges, Runner
  <2>2. CASE ~RunnerRecords(j)
    BY <1>2, <2>2, <1>u DEF RunnerStep, Environment, RunnerLock, RunnerSpawns, RunnerStages,
       RunnerReady, RunnerReaps, RunnerTerminates, RunnerKills, RunnerDrains, RunnerExits,
       RunnerFails, RunnerCrash, CommandExits, MembersEnd, CommandForks
  <2> QED
    BY <2>1, <2>2
<1>3. CASE \E h \in Helper, op \in AllOps, j \in Job : execute_control(h, op, j)
  BY <1>3, <1>u DEF execute_control
<1> QED
  BY <1>1, <1>2, <1>3 DEF Somebody

FilesChange(k) ==
  \/ files[k] \ {"temp"} \subseteq files'[k]
  \/ \E h \in Helper : /\ ctl[h].pc \in {"files", "create", "fill"} /\ ctl[h].job = k
                       /\ ctl'[h].pc = "idle"
  \/ Over(k)

LEMMA FilesStep ==
  ASSUME DurableInv, Somebody, NEW k \in Job
  PROVE  FilesChange(k)
<1>t. files \in [Job -> SUBSET File] /\ ctl \in [Helper -> Request]
  BY DEF DurableInv, TypeOK
<1>u. files' = files => FilesChange(k)
  BY DEF FilesChange
<1>a. ASSUME NEW j, NEW f, files' = [files EXCEPT ![j] = f], j \in Job => files[j] \ {"temp"} \subseteq f
      PROVE  FilesChange(k)
  BY <1>a, <1>t DEF FilesChange
<1>1. ASSUME NEW h \in Helper, ControlStep(h) \/ ControlFault(h) PROVE FilesChange(k)
  <2>1. CASE DeleteFile(h) \/ DeleteDirectory(h)
    <3>1. ctl[h].pc \in Locked /\ Condemned(ctl[h])
      BY <2>1 DEF DeleteFile, DeleteDirectory, Locked, DurableInv
    <3>2. files'[k] = files[k] \/ ctl[h].at = k
      BY <2>1, <1>t DEF DeleteFile, DeleteDirectory
    <3> QED
      BY <3>1, <3>2 DEF Condemned, FilesChange
  <2>2. CASE CreateFails(h)
    <3>1. ctl'[h].pc = "idle" /\ (files'[k] = files[k] \/ ctl[h].job = k)
      BY <2>2, <1>t DEF CreateFails, Return, Become, Idle
    <3> QED
      BY <2>2, <3>1 DEF CreateFails, FilesChange
  <2>3. CASE create(h) \/ cancel(h)
    BY <2>3, <1>u, <1>a DEF create, cancel
  <2>4. CASE ReconcileAgain(h) \/ ReconcileLost(h)
    BY <2>4, <1>u, <1>a DEF ReconcileAgain, ReconcileLost
  <2>5. CASE ~DeleteFile(h) /\ ~DeleteDirectory(h) /\ ~CreateFails(h) /\ ~create(h)
             /\ ~cancel(h) /\ ~ReconcileAgain(h) /\ ~ReconcileLost(h)
    BY <1>1, <2>5, <1>u DEF ControlStep, ControlFault, Walk, read_state, reconcile_state,
       ReconcileLock, DeleteOpen, DeleteLock, DeleteScan, SpawnRunner, SpawnFails,
       ReadyFails, HelperEnds
  <2> QED
    BY <2>1, <2>2, <2>3, <2>4, <2>5
<1>2. ASSUME NEW j \in Job, RunnerStep(j) \/ Environment(j) PROVE FilesChange(k)
  <2>1. CASE RunnerStages(j) \/ RunnerRecords(j)
    BY <2>1, <1>a DEF RunnerStages, RunnerRecords, Installs
  <2>2. CASE ~RunnerStages(j) /\ ~RunnerRecords(j)
    BY <1>2, <2>2, <1>u DEF RunnerStep, Environment, RunnerLock, RunnerSpawns,
       RunnerReady, RunnerReaps, RunnerTerminates, RunnerKills, RunnerDrains, RunnerExits,
       RunnerFails, RunnerCrash, CommandExits, MembersEnd, CommandForks
  <2> QED
    BY <2>1, <2>2
<1>3. CASE \E h \in Helper, op \in AllOps, j \in Job : execute_control(h, op, j)
  BY <1>3, <1>u DEF execute_control
<1> QED
  BY <1>1, <1>2, <1>3 DEF Somebody

LockChanges(k) ==
  \/ lock'[k] = lock[k]
  \/ lock[k] = None
  \/ lock[k] = "runner" /\ ~Alive(k)'
  \/ \E h \in Helper : lock[k] = h /\ ctl'[h].pc \notin Locked

LEMMA LocksStep ==
  ASSUME DurableInv, Somebody, NEW k \in Job
  PROVE  LockChanges(k)
<1>t. /\ lock \in [Job -> Helper \cup {"runner", None}] /\ ctl \in [Helper -> Request]
      /\ runner \in [Job -> Runner]
  BY DEF DurableInv, TypeOK, Runner
<1>u. lock' = lock => LockChanges(k)
  BY DEF LockChanges
<1>1. ASSUME NEW h \in Helper, ControlStep(h) \/ ControlFault(h) PROVE LockChanges(k)
  <2>r. Return(h) => ctl'[h].pc \notin Locked
    BY <1>t DEF Return, Become, Idle, Locked
  <2>1. CASE HelperEnds(h)
    BY <2>1, <2>r, <1>t DEF HelperEnds, LockChanges
  <2>2. CASE ReconcileLock(h) \/ DeleteLock(h)
    BY <2>2, <1>t DEF ReconcileLock, DeleteLock, LockChanges
  <2>3. CASE /\ ReconcileAgain(h) \/ ReconcileLost(h) \/ DeleteScan(h) \/ DeleteDirectory(h)
             /\ lock' # lock
    <3>1. /\ ctl[h].pc \in {"settle", "install", "dscan", "rmdir"}
          /\ lock'[k] = lock[k] \/ ctl[h].at = k
      BY <2>3, <1>t DEF ReconcileAgain, ReconcileLost, DeleteScan, DeleteDirectory
    <3>2. Shape(ctl[h]) /\ ctl[h].pc \in AtJob /\ ctl[h].pc # "idle" /\ lock[ctl[h].at] = h
          /\ ctl[h].job \in Job
      BY <3>1 DEF DurableInv, AtJob, Locked, Holds, Shape
    <3>3. (\E s : Answer(h, s)) => ctl'[h].pc \notin Locked
      <4>1. ASSUME NEW s, NEW n \in AfterStatus(ctl[h], s), ctl' = [ctl EXCEPT ![h] = n]
            PROVE  ctl'[h].pc \notin Locked
        BY <4>1, <3>2, <1>t, AnswerGoes DEF Answered, Locked
      <4> QED
        BY <4>1 DEF Answer, Become
    <3>4. NotFound(h) => ctl'[h].pc \notin Locked
      BY <3>2, <1>t, NotFoundGoes DEF Become, Locked
    <3>5. Become(h, Onward(ctl[h])) => ctl'[h].pc \notin Locked
      BY <3>2, <1>t, OnwardGoes DEF Become, Locked
    <3>6. \/ NotFound(h) \/ Return(h) \/ Become(h, Onward(ctl[h]))
          \/ \E s : Answer(h, s)
      BY <2>3 DEF ReconcileAgain, ReconcileLost, DeleteScan, DeleteDirectory, Return
    <3> QED
      BY <3>1, <3>2, <3>3, <3>4, <3>5, <3>6, <2>r DEF LockChanges
  <2>4. CASE ~HelperEnds(h) /\ ~ReconcileLock(h) /\ ~DeleteLock(h) /\ ~ReconcileAgain(h)
             /\ ~ReconcileLost(h) /\ ~DeleteScan(h) /\ ~DeleteDirectory(h)
    BY <1>1, <2>4, <1>u DEF ControlStep, ControlFault, Walk, read_state, reconcile_state,
       cancel, DeleteOpen, DeleteFile, create, CreateFails, SpawnRunner, SpawnFails,
       ReadyFails
  <2> QED
    BY <2>1, <2>2, <2>3, <2>4, <1>u
<1>2. ASSUME NEW j \in Job, RunnerStep(j) \/ Environment(j) PROVE LockChanges(k)
  <2>e. Ends(j) => LockChanges(k)
    BY <1>t DEF Ends, LockChanges, Alive, Runner
  <2>1. CASE RunnerLock(j)
    BY <2>1, <2>e, <1>t DEF RunnerLock, LockChanges
  <2>2. CASE ~RunnerLock(j)
    BY <1>2, <2>2, <2>e, <1>u DEF RunnerStep, Environment, RunnerSpawns, RunnerStages,
       RunnerRecords, RunnerReady, RunnerReaps, RunnerTerminates, RunnerKills,
       RunnerDrains, RunnerExits, RunnerFails, RunnerCrash, CommandExits, MembersEnd,
       CommandForks
  <2> QED
    BY <2>1, <2>2
<1>3. CASE \E h \in Helper, op \in AllOps, j \in Job : execute_control(h, op, j)
  BY <1>3, <1>u DEF execute_control
<1> QED
  BY <1>1, <1>2, <1>3 DEF Somebody

(* Only a helper that takes the lock gets to a place that needs it. *)
LEMMA HoldsComes ==
  ASSUME DurableInv, NEW h \in Helper, ControlStep(h) \/ ControlFault(h)
  PROVE  Holds(h)'
<1>t. /\ ctl \in [Helper -> Request] /\ ctl[h] \in Request /\ Shape(ctl[h]) /\ Holds(h)
      /\ lock \in [Job -> Helper \cup {"runner", None}] /\ record \in [Job -> Record]
      /\ ctl[h].pc \in AtJob => ctl[h].at \in Job
      /\ ctl[h].pc # "idle" => ctl[h].job \in Job
      /\ \A j \in Job : record[j].state = "none" <=> "state" \notin files[j]
  BY ControlsJob DEF DurableInv, TypeOK
<1>p. ctl'[h].pc \notin Locked => Holds(h)'
  BY DEF Holds, Locked
<1>a. ASSUME NEW s, Answer(h, s), ctl[h].pc \in AtJob PROVE Holds(h)'
  <2>1. PICK n \in AfterStatus(ctl[h], s) : ctl' = [ctl EXCEPT ![h] = n]
    BY <1>a DEF Answer, Become
  <2>2. Answered(ctl[h], n, s) /\ ctl'[h] = n
    BY <2>1, <1>a, <1>t, AnswerGoes
  <2> QED
    BY <2>2, <1>p DEF Answered, Locked
<1>r. Return(h) => Holds(h)'
  BY <1>t, <1>p DEF Return, Become, Idle, Locked
<1>n. NotFound(h) /\ ctl[h].pc # "idle" => Holds(h)'
  BY <1>t, <1>p, NotFoundGoes DEF Become, Locked
<1>g. ASSUME NEW pc, Goto(h, pc)
      PROVE  ctl'[h].pc = pc /\ ctl'[h].at = ctl[h].at
  BY <1>t, <1>g DEF Goto, Request
<1>1. CASE Walk(h) \/ read_state(h) \/ cancel(h)
  <2>1. ASSUME NEW n, ctl' = [ctl EXCEPT ![h] = n], n.pc \notin Locked PROVE Holds(h)'
    BY <2>1, <1>t, <1>p
  <2>2. CASE Walk(h)
    <3>1. ASSUME NEW j
          PROVE  [ctl[h] EXCEPT !.at = j, !.pc = "read"].pc \notin Locked
      BY <1>t DEF Request, Locked
    <3>2. ASSUME NEW pc \in {"mkdir", "read"}
          PROVE  [ctl[h] EXCEPT !.phase = "op", !.at = ctl[h].job, !.pc = pc].pc \notin Locked
      BY <1>t DEF Request, Locked
    <3> QED
      BY <2>2, <2>1, <3>1, <3>2 DEF Walk, Become
  <2>3. CASE read_state(h)
    <3>1. [ctl[h] EXCEPT !.pc = "match", !.seen = record[ctl[h].at]].pc \notin Locked
      BY <1>t DEF Request, Locked
    <3> QED
      BY <2>3, <2>1, <3>1, <1>a, <1>n, <1>r DEF read_state, Become, AtJob
  <2>4. CASE cancel(h)
    <3>1. [ctl[h] EXCEPT !.pc = "read", !.phase = "poll"].pc \notin Locked
      BY <1>t DEF Request, Locked
    <3> QED
      BY <2>4, <2>1, <3>1, <1>r DEF cancel, Become
  <2> QED
    BY <1>1, <2>2, <2>3, <2>4
<1>2. CASE reconcile_state(h) \/ DeleteOpen(h) \/ create(h) \/ SpawnRunner(h)
  BY <1>2, <1>a, <1>r, <1>g, <1>p DEF reconcile_state, DeleteOpen, create, SpawnRunner,
     AtJob, Locked
<1>3. CASE ReconcileLock(h)
  <2>1. ctl[h].pc = "lock" /\ ctl[h].pc \in AtJob /\ ctl[h].at \in Job
    BY <1>3, <1>t DEF ReconcileLock, AtJob
  <2>2. CASE lock' = [lock EXCEPT ![ctl[h].at] = h] /\ Goto(h, "settle")
    BY <2>1, <2>2, <1>g, <1>t DEF Holds
  <2> QED
    BY <1>3, <2>1, <2>2, <1>a, <1>n DEF ReconcileLock
<1>4. CASE ReconcileAgain(h)
  <2>1. /\ ctl[h].pc = "settle" /\ ctl[h].pc \in AtJob /\ ctl[h].at \in Job
        /\ lock[ctl[h].at] = h
    BY <1>4, <1>t DEF ReconcileAgain, AtJob, Locked, Holds
  <2>2. CASE /\ Readable(ctl[h].at) /\ ~Settled(ctl[h].at) /\ Goto(h, "install")
             /\ lock' = lock /\ record' = record
    <3>1. record[ctl[h].at].state \in {"starting", "running"}
      BY <2>1, <2>2, <1>t DEF Readable, Settled, Record, JobState
    <3> QED
      BY <2>1, <2>2, <3>1, <1>g DEF Holds
  <2> QED
    BY <1>4, <2>1, <2>2, <1>a, <1>n DEF ReconcileAgain
<1>5. CASE ReconcileLost(h)
  BY <1>5, <1>a DEF ReconcileLost, AtJob, Locked
<1>6. CASE DeleteLock(h)
  <2>1. ctl[h].pc = "dwait" /\ ctl[h].at \in Job
    BY <1>6, <1>t DEF DeleteLock, AtJob
  <2> QED
    BY <1>6, <2>1, <1>g, <1>t DEF DeleteLock, Holds
<1>7. CASE DeleteScan(h) \/ DeleteFile(h)
  <2>1. ctl[h].pc \in {"dscan", "unlink"} /\ ctl[h].at \in Job /\ lock[ctl[h].at] = h
    BY <1>7, <1>t DEF DeleteScan, DeleteFile, AtJob, Locked, Holds
  <2>2. ASSUME NEW n, ctl' = [ctl EXCEPT ![h] = n], n.pc \in {"unlink", "rmdir"},
               n.at = ctl[h].at, lock' = lock
        PROVE  Holds(h)'
    BY <2>1, <2>2, <1>t DEF Holds
  <2>3. CASE DeleteScan(h)
    <3> DEFINE n == [ctl[h] EXCEPT !.pc = "unlink", !.left = 4]
    <3>1. n.pc \in {"unlink", "rmdir"} /\ n.at = ctl[h].at
      BY <1>t DEF Request
    <3>2. \/ Return(h)
          \/ lock' = lock /\ ctl' = [ctl EXCEPT ![h] = n]
      BY <2>3 DEF DeleteScan, Become
    <3> HIDE DEF n
    <3> QED
      BY <3>1, <3>2, <2>2, <1>r
  <2>4. CASE DeleteFile(h)
    <3> DEFINE n == [ctl[h] EXCEPT !.left = @ - 1,
                                   !.pc = IF ctl[h].left = 1 THEN "rmdir" ELSE "unlink"]
    <3>1. n.pc \in {"unlink", "rmdir"} /\ n.at = ctl[h].at
      BY <1>t DEF Request
    <3>2. lock' = lock /\ ctl' = [ctl EXCEPT ![h] = n]
      BY <2>4 DEF DeleteFile, Become
    <3> HIDE DEF n
    <3> QED
      BY <3>1, <3>2, <2>2
  <2> QED
    BY <1>7, <2>3, <2>4
<1>8. CASE DeleteDirectory(h)
  <2>1. ctl[h].job \in Job
    BY <1>8, <1>t DEF DeleteDirectory
  <2>2. Become(h, Onward(ctl[h])) => Holds(h)'
    BY <2>1, <1>t, <1>p, OnwardGoes DEF Become, Locked
  <2> QED
    BY <1>8, <2>2, <1>r DEF DeleteDirectory, Return
<1>9. CASE ControlFault(h)
  BY <1>9, <1>r DEF ControlFault, CreateFails, SpawnFails, ReadyFails, HelperEnds
<1> QED
  BY <1>1, <1>2, <1>3, <1>4, <1>5, <1>6, <1>7, <1>8, <1>9 DEF ControlStep

LEMMA HoldsStep ==
  ASSUME DurableInv, Somebody, NEW g \in Helper
  PROVE  Holds(g)'
<1>1. CASE ctl'[g] = ctl[g] /\ ctl[g].pc \in Locked
  <2> DEFINE k == ctl[g].at
  <2>t. k \in Job /\ lock[k] = g /\ Over(k) /\ g # None /\ g # "runner"
    BY <1>1, ControlsJob, DurableJobAssumption
    DEF DurableInv, Holds, Condemned, AtJob, DurableJobAssumption
  <2>1. lock'[k] = g
    BY <2>t, <1>1, LocksStep DEF LockChanges
  <2>2. ctl[g].pc = "install" => record'[k] = record[k]
    <3>1. \A h \in Helper : ctl[h].pc \in Locked /\ ctl[h].at = k => h = g
      BY <2>t DEF DurableInv, Holds
    <3>2. \A h \in Helper : ctl[h].pc \in Building => ctl[h].job # k
      BY <2>t DEF DurableInv, Shape, Over, Unmade, Making
    <3>3. RecordChanges(k)
      BY <2>t, RecordsStep
    <3> QED
      BY <3>1, <3>2, <3>3, <2>t, <1>1 DEF RecordChanges, Over, Alive, Building, Locked
  <2>3. Holds(g)
    BY DEF DurableInv
  <2> QED
    BY <1>1, <2>1, <2>2, <2>3 DEF Holds
<1>2. CASE ctl'[g].pc \notin Locked
  BY <1>2 DEF Holds, Locked
<1>3. CASE ControlStep(g) \/ ControlFault(g)
  BY <1>3, HoldsComes
<1> QED
  BY <1>1, <1>2, <1>3, WhoMoves DEF Locked

-----------------------------------------------------------------------------
(* The making of a job                                                     *)

(* Who makes a job does it alone. *)
LEMMA OneMaker ==
  ASSUME DurableInv, NEW g \in Helper, Making(ctl[g]), NEW h \in Helper,
         ctl[h].pc \in Building, ctl[h].job = ctl[g].job
  PROVE  h = g
<1>1. Making(ctl[h])
  BY DEF DurableInv, Shape, Making
<1> QED
  BY <1>1 DEF DurableInv, Alone

(* Nobody but a maker touches a record while it is made. *)
LEMMA MadeRecord ==
  ASSUME DurableInv, Somebody, NEW g \in Helper, Making(ctl[g]), NEW k \in Job,
         k = ctl[g].job,
         ctl'[g].pc = ctl[g].pc \/ ctl'[g].pc \notin {"fill", "spawn", "idle"}
  PROVE  record'[k] = record[k]
<1>1. \A h \in Helper : ctl[h].pc \in Building /\ ctl[h].job = k => h = g
  BY OneMaker
<1>2. \A h \in Helper : ctl[h].pc \in Locked => ctl[h].at # k
  BY DEF DurableInv, Condemned, Over, Unmade
<1>3. runner[k].pc = "none"
  BY DEF DurableInv, Makes
<1>4. RecordChanges(k)
  BY RecordsStep
<1> QED
  BY <1>1, <1>2, <1>3, <1>4 DEF RecordChanges, Building, Locked

LEMMA MadeRunner ==
  ASSUME DurableInv, Somebody, NEW g \in Helper, Making(ctl[g]), NEW k \in Job,
         k = ctl[g].job, ctl'[g].pc # "ready"
  PROVE  runner'[k].pc = "none"
<1>1. \A h \in Helper : ctl[h].pc \in Building /\ ctl[h].job = k => h = g
  BY OneMaker
<1>2. runner[k].pc = "none"
  BY DEF DurableInv, Makes
<1>3. RunnerChanges(k)
  BY RunnersStep
<1> QED
  BY <1>1, <1>2, <1>3 DEF RunnerChanges, Alive, Building

LEMMA MadeFiles ==
  ASSUME DurableInv, Somebody, NEW g \in Helper, Making(ctl[g]), NEW k \in Job,
         k = ctl[g].job, ctl'[g].pc # "idle"
  PROVE  files[k] \ {"temp"} \subseteq files'[k]
<1>1. \A h \in Helper : ctl[h].pc \in Building /\ ctl[h].job = k => h = g
  BY OneMaker
<1>2. ~Over(k)
  BY DEF Over, Unmade
<1>3. FilesChange(k)
  BY FilesStep
<1> QED
  BY <1>1, <1>2, <1>3 DEF FilesChange, Building

LEMMA BuildingComes ==
  ASSUME DurableInv, NEW h \in Helper, ControlStep(h) \/ ControlFault(h)
  PROVE  /\ ctl[h].pc \in Building =>
              \/ create(h)
              \/ ctl'[h].pc \in {"ready", "idle"}
         /\ ctl[h].pc \notin Building => ctl'[h].pc \notin Building \ {"mkdir"}
<1>t. /\ ctl \in [Helper -> Request] /\ ctl[h] \in Request /\ Shape(ctl[h])
      /\ ctl[h].pc # "idle" => ctl[h].job \in Job
  BY ControlsJob DEF DurableInv, TypeOK
<1> DEFINE Away == ctl'[h].pc \notin Building \ {"mkdir"}
<1>b. ASSUME NEW n, ctl' = [ctl EXCEPT ![h] = n], n.pc \notin Building \ {"mkdir"} PROVE Away
  BY <1>b, <1>t
<1>a. ASSUME NEW s, Answer(h, s), ctl[h].pc \in AtJob PROVE Away
  <2>1. PICK n \in AfterStatus(ctl[h], s) : ctl' = [ctl EXCEPT ![h] = n]
    BY <1>a DEF Answer, Become
  <2>2. Answered(ctl[h], n, s)
    BY <2>1, <1>a, <1>t, AnswerGoes
  <2>3. n.pc \notin Building \ {"mkdir"}
    BY <2>2 DEF Answered, Building
  <2> QED
    BY <2>1, <2>3, <1>b
<1>r. Return(h) => ctl'[h].pc = "idle" /\ Away
  BY <1>t DEF Return, Become, Idle, Building
<1>n. NotFound(h) /\ ctl[h].pc # "idle" => Away
  BY <1>t, NotFoundGoes DEF Become, Building
<1>g. ASSUME NEW pc, Goto(h, pc) PROVE ctl'[h].pc = pc
  BY <1>t, <1>g DEF Goto, Request
<1>1. CASE Walk(h)
  <2>1. ASSUME NEW j
        PROVE  [ctl[h] EXCEPT !.at = j, !.pc = "read"].pc \notin Building \ {"mkdir"}
    BY <1>t DEF Request, Building
  <2>2. ASSUME NEW pc \in {"mkdir", "read"}
        PROVE  [ctl[h] EXCEPT !.phase = "op", !.at = ctl[h].job, !.pc = pc].pc
                 \notin Building \ {"mkdir"}
    BY <1>t DEF Request, Building
  <2>3. Away /\ ctl[h].pc = "walk"
    BY <1>1, <2>1, <2>2, <1>b DEF Walk, Become
  <2> QED
    BY <2>3 DEF Building
<1>2. CASE read_state(h)
  <2>1. [ctl[h] EXCEPT !.pc = "match", !.seen = record[ctl[h].at]].pc \notin Building \ {"mkdir"}
    BY <1>t DEF Request, Building
  <2>2. Away /\ ctl[h].pc = "read"
    BY <1>2, <2>1, <1>b, <1>a, <1>n, <1>r DEF read_state, Become, AtJob
  <2> QED
    BY <2>2 DEF Building
<1>3. CASE reconcile_state(h) \/ ReconcileLock(h) \/ ReconcileAgain(h) \/ ReconcileLost(h)
  <2>1. ctl[h].pc \in {"match", "lock", "settle", "install"}
    BY <1>3 DEF reconcile_state, ReconcileLock, ReconcileAgain, ReconcileLost
  <2>2. ctl[h].pc \in AtJob /\ ctl[h].pc # "idle" /\ ctl[h].pc \notin Building
    BY <2>1 DEF AtJob, Locked, Building
  <2>3. \/ NotFound(h) \/ \E s : Answer(h, s)
        \/ \E pc \in {"lock", "settle", "install"} : Goto(h, pc)
    BY <1>3 DEF reconcile_state, ReconcileLock, ReconcileAgain, ReconcileLost
  <2>4. ASSUME NEW pc \in {"lock", "settle", "install"}, Goto(h, pc) PROVE Away
    BY <2>4, <1>g DEF Building
  <2> QED
    BY <2>2, <2>3, <2>4, <1>a, <1>n
<1>4. CASE cancel(h)
  <2>1. [ctl[h] EXCEPT !.pc = "read", !.phase = "poll"].pc \notin Building \ {"mkdir"}
    BY <1>t DEF Request, Building
  <2>2. Away /\ ctl[h].pc = "ask"
    BY <1>4, <2>1, <1>b, <1>r DEF cancel, Become
  <2> QED
    BY <2>2 DEF Building
<1>5. CASE DeleteOpen(h) \/ DeleteLock(h)
  <2>1. ctl[h].pc \in {"dopen", "dwait"} /\ ctl'[h].pc \in {"dwait", "dscan", "idle"}
    BY <1>5, <1>g, <1>r DEF DeleteOpen, DeleteLock
  <2> QED
    BY <2>1 DEF Building
<1>6. CASE DeleteScan(h)
  <2>1. [ctl[h] EXCEPT !.pc = "unlink", !.left = 4].pc \notin Building \ {"mkdir"}
    BY <1>t DEF Request, Building
  <2>2. Away /\ ctl[h].pc = "dscan"
    BY <1>6, <2>1, <1>b, <1>r DEF DeleteScan, Become
  <2> QED
    BY <2>2 DEF Building
<1>7. CASE DeleteFile(h)
  <2>1. ctl'[h].pc \in {"unlink", "rmdir"} /\ ctl[h].pc = "unlink"
    BY <1>7, <1>t DEF DeleteFile, Become, Request
  <2> QED
    BY <2>1 DEF Building
<1>8. CASE DeleteDirectory(h)
  <2>1. ctl[h].pc = "rmdir" /\ ctl[h].job \in Job
    BY <1>8, <1>t DEF DeleteDirectory
  <2>2. Onward(ctl[h]).pc = "walk"
    BY <2>1, <1>t, OnwardGoes
  <2>3. Away
    BY <1>8, <2>2, <1>b, <1>r DEF DeleteDirectory, Return, Become, Building
  <2> QED
    BY <2>1, <2>3 DEF Building
<1>9. CASE create(h)
  BY <1>9 DEF create, Building
<1>10. CASE SpawnRunner(h)
  BY <1>10, <1>g DEF SpawnRunner, Building
<1>11. CASE ControlFault(h)
  BY <1>11, <1>r DEF ControlFault, CreateFails, SpawnFails, ReadyFails, HelperEnds
<1> QED
  BY <1>1, <1>2, <1>3, <1>4, <1>5, <1>6, <1>7, <1>8, <1>9, <1>10, <1>11 DEF ControlStep

LEMMA CreateMakes ==
  ASSUME DurableInv, Somebody, NEW g \in Helper, create(g)
  PROVE  Makes(ctl[g])'
<1> DEFINE k == ctl[g].job
<1>t. /\ ctl \in [Helper -> Request] /\ ctl[g] \in Request /\ Shape(ctl[g]) /\ Makes(ctl[g])
      /\ files \in [Job -> SUBSET File] /\ record \in [Job -> Record] /\ k \in Job
      /\ boot' = boot /\ ctl[g].pc \in Building
      /\ record[k].state = "none" <=> "state" \notin files[k]
  BY ControlsJob, BootStays DEF DurableInv, TypeOK, create, Building
<1>m. ctl[g].op = "start" /\ ctl[g].phase = "op" /\ Making(ctl[g]) /\ runner'[k].pc = "none"
  BY <1>t DEF Shape, Makes, Making, create
<1>g. ASSUME NEW pc, Goto(g, pc)
      PROVE  ctl'[g].pc = pc /\ ctl'[g].job = k
  BY <1>t, <1>g DEF Goto, Request
<1>1. CASE ctl[g].pc = "mkdir" /\ Goto(g, "files") /\ files' = [files EXCEPT ![k] = @ \cup {"dir"}]
  <2>1. "dir" \in files'[k] /\ ("state" \in files'[k] => "state" \in files[k])
    BY <1>1, <1>t
  <2> QED
    BY <1>1, <2>1, <1>g, <1>m, <1>t DEF Makes
<1>2. CASE /\ ctl[g].pc = "files" /\ Goto(g, "create")
           /\ files' = [files EXCEPT ![k] = @ \cup {"request", "lock"}]
  <2>1. {"request", "lock"} \subseteq files'[k] /\ ("state" \in files'[k] => "state" \in files[k])
        /\ files[k] \subseteq files'[k]
    BY <1>2, <1>t
  <2> QED
    BY <1>2, <2>1, <1>g, <1>m, <1>t DEF Makes
<1>3. CASE /\ ctl[g].pc = "create" /\ Goto(g, "fill")
           /\ files' = [files EXCEPT ![k] = @ \cup {"state"}]
           /\ record' = [record EXCEPT ![k].state = "partial"]
  <2>1. files[k] \subseteq files'[k] /\ record'[k].state = "partial"
    BY <1>3, <1>t DEF Record
  <2> QED
    BY <1>3, <2>1, <1>g, <1>m, <1>t DEF Makes
<1>4. CASE /\ ctl[g].pc = "fill" /\ Goto(g, "spawn")
           /\ files' = [files EXCEPT ![k] = @ \cup {}]
           /\ record' = [record EXCEPT ![k] = [state |-> "starting", boot |-> boot]]
  <2>1. files[k] \subseteq files'[k] /\ record'[k] = [state |-> "starting", boot |-> boot']
    BY <1>4, <1>t
  <2> QED
    BY <1>4, <2>1, <1>g, <1>m, <1>t DEF Makes
<1> QED
  BY <1>1, <1>2, <1>3, <1>4 DEF create

LEMMA MakesStep ==
  ASSUME DurableInv, Somebody, NEW g \in Helper
  PROVE  Makes(ctl[g])'
<1> DEFINE k == ctl'[g].job
<1>1. SUFFICES ASSUME Making(ctl'[g]) PROVE Makes(ctl[g])'
  BY DEF Makes
<1>t. /\ Makes(ctl[g]) /\ Shape(ctl[g]) /\ Shape(ctl'[g])
      /\ record[k].state = "none" <=> "state" \notin files[k]
      /\ record'[k].state = "none" <=> "state" \notin files'[k]
      /\ k \in Job /\ boot' = boot
  <2>1. ctl'[g].pc # "idle" /\ Shape(ctl'[g])
    BY <1>1, MakersStep DEF Shape, Making, Idle
  <2> QED
    BY <2>1, FileTypesStep, BootStays DEF DurableInv, TypeOK, Shape, Next, Somebody
<1>i. ctl'[g].pc \notin {"idle", "ready"}
  BY <1>t, <1>1 DEF Shape, Making, Building, Idle
<1>2. CASE Making(ctl[g]) /\ ctl[g].job = k
  <2>1. runner'[k].pc = "none"
    BY <1>2, <1>t, <1>i, MadeRunner
  <2>2. files[k] \ {"temp"} \subseteq files'[k]
    BY <1>2, <1>t, <1>i, MadeFiles
  <2>3. CASE ctl'[g] = ctl[g]
    <3>1. record'[k] = record[k]
      BY <1>2, <1>t, <2>3, MadeRecord
    <3> QED
      BY <1>2, <1>t, <2>1, <2>2, <2>3, <3>1 DEF Makes
  <2>4. CASE (ControlStep(g) \/ ControlFault(g)) /\ ctl[g].pc \notin Building
    <3>1. ctl'[g].pc \notin Building \ {"mkdir"}
      BY <2>4, BuildingComes
    <3>2. record'[k] = record[k]
      BY <1>2, <1>t, <1>i, <3>1, MadeRecord DEF Building
    <3>3. "state" \notin files'[k]
      BY <1>2, <1>t, <2>4, <3>2 DEF Makes, Building
    <3> QED
      BY <1>t, <2>1, <3>1, <3>3 DEF Makes, Building
  <2>5. CASE (ControlStep(g) \/ ControlFault(g)) /\ ctl[g].pc \in Building
    BY <2>5, <1>i, BuildingComes, CreateMakes
  <2>6. ctl[g].pc \notin {"idle", "ready"}
    BY <1>2, <1>t DEF Shape, Making, Building, Idle
  <2> QED
    BY <2>3, <2>4, <2>5, <2>6, WhoMoves
<1>3. CASE Fresh(k)
  <2>1. ctl[g].job # k
    BY <1>3 DEF Fresh
  <2>2. ctl'[g].pc \in {"walk", "read"}
    BY <2>1, <1>i, WhoMoves, ControlMoves DEF Moves, Follows
  <2>3. \A h \in Helper : ctl[h].job # k /\ ctl[h].at # k
    BY <1>3 DEF Fresh
  <2>4. runner[k].pc = "none" /\ files[k] = {}
    BY <1>3 DEF Fresh, NoRunner
  <2>5. runner'[k].pc = "none"
    BY <2>3, <2>4, <1>t, RunnersStep DEF RunnerChanges, Alive
  <2>6. record'[k] = record[k]
    <3>1. RecordChanges(k)
      BY <1>t, RecordsStep
    <3> QED
      BY <2>3, <2>4, <3>1 DEF RecordChanges
  <2> QED
    BY <2>2, <2>4, <2>5, <2>6, <1>t DEF Makes
<1> QED
  BY <1>1, <1>2, <1>3, MakersStep

-----------------------------------------------------------------------------
(* The runner and its record                                               *)

(* A runner goes on by itself. *)
LEMMA RunnerActs ==
  ASSUME DurableInv, Somebody, NEW k \in Job, runner[k].pc # "none",
         Alive(k)', runner'[k].pc # runner[k].pc
  PROVE  RunnerStep(k)
<1>t. runner \in [Job -> Runner]
  BY DEF DurableInv, TypeOK, Runner
<1>u. runner' # runner
  OBVIOUS
<1>1. ASSUME NEW h \in Helper, ControlStep(h) \/ ControlFault(h) PROVE FALSE
  <2>1. CASE SpawnRunner(h)
    <3>1. Makes(ctl[h]) /\ Shape(ctl[h])
      BY DEF DurableInv
    <3>2. ctl[h].job # k
      BY <2>1, <3>1 DEF SpawnRunner, Makes, Making, Shape, Building
    <3> QED
      BY <2>1, <3>2, <1>t DEF SpawnRunner
  <2>2. CASE HelperEnds(h)
    BY <2>2, <1>t DEF HelperEnds, Runner, Alive
  <2> QED
    BY <1>1, <2>1, <2>2, <1>u DEF ControlStep, ControlFault, Walk, read_state, reconcile_state,
       ReconcileLock, ReconcileAgain, ReconcileLost, cancel, DeleteOpen, DeleteLock,
       DeleteScan, DeleteFile, DeleteDirectory, create, CreateFails, SpawnFails,
       ReadyFails
<1>2. ASSUME NEW j \in Job, j # k, RunnerStep(j) \/ Environment(j) PROVE FALSE
  <2>1. runner'[k] = runner[k]
    BY <1>2, <1>t DEF RunnerStep, Environment, RunnerLock, RunnerSpawns, RunnerStages,
       RunnerRecords, RunnerReady, RunnerReaps, RunnerTerminates, RunnerKills, RunnerDrains,
       RunnerExits, RunnerFails, RunnerCrash, CommandExits, MembersEnd, CommandForks, Step,
       Ends
  <2> QED
    BY <2>1
<1>3. CASE Environment(k)
  <2>1. ~Ends(k)
    BY <1>t DEF Ends, Alive, Runner
  <2> QED
    BY <1>3, <2>1, <1>u DEF Environment, RunnerFails, RunnerCrash, CommandExits, MembersEnd,
       CommandForks
<1>4. ~ \E h \in Helper, op \in AllOps, j \in Job : execute_control(h, op, j)
  BY <1>u DEF execute_control
<1> QED
  BY <1>1, <1>2, <1>3, <1>4 DEF Somebody

(* The places of a runner, in their order. *)
LEMMA RunnersPlace ==
  ASSUME DurableInv, NEW k \in Job, RunnerStep(k), Alive(k)', runner'[k].pc # runner[k].pc
  PROVE  \/ /\ runner[k].pc = "spawned" /\ runner'[k].pc = "locked" /\ lock'[k] = "runner"
            /\ UNCHANGED record
         \/ /\ runner[k].pc \in Unrecorded /\ runner'[k].pc \in Unrecorded \cap Holding
            /\ runner[k].pc \in Holding /\ UNCHANGED <<record, lock>>
         \/ /\ runner[k].pc = "staged" /\ runner'[k].pc = "recorded"
            /\ record'[k] = [state |-> "running", boot |-> boot] /\ UNCHANGED lock
         \/ /\ runner[k].pc \in Recorded /\ runner'[k].pc \in Recorded
            /\ UNCHANGED <<record, lock>>
         \/ runner[k].pc = "endstaged" /\ runner'[k].pc = "leaving" /\ UNCHANGED lock
<1>t. /\ runner \in [Job -> Runner] /\ record \in [Job -> Record]
      /\ lock \in [Job -> Helper \cup {"runner", None}]
  BY DEF DurableInv, TypeOK, Runner
<1>e. ~Ends(k)
  BY <1>t DEF Ends, Alive, Runner
<1>s. ASSUME NEW from, NEW to, Step(k, from, to)
      PROVE  runner[k].pc = from /\ runner'[k].pc = to
  BY <1>s, <1>t DEF Step, Runner
<1>1. CASE RunnerLock(k)
  BY <1>1, <1>e, <1>s, <1>t DEF RunnerLock
<1>2. CASE RunnerSpawns(k) \/ RunnerStages(k)
  BY <1>2, <1>s DEF RunnerSpawns, RunnerStages, Unrecorded, Holding, Recorded
<1>3. CASE RunnerRecords(k)
  BY <1>3, <1>s, <1>t DEF RunnerRecords, Installs
<1>4. CASE RunnerReady(k) \/ RunnerDrains(k)
  BY <1>4, <1>e, <1>s DEF RunnerReady, RunnerDrains, Recorded
<1>5. CASE RunnerReaps(k) \/ RunnerTerminates(k)
  BY <1>5, <1>t DEF RunnerReaps, RunnerTerminates, Runner, Recorded
<1>6. CASE RunnerKills(k) \/ RunnerExits(k)
  BY <1>6, <1>e DEF RunnerKills, RunnerExits
<1> QED
  BY <1>1, <1>2, <1>3, <1>4, <1>5, <1>6 DEF RunnerStep

(* A job with a runner is deleted by nobody. *)
LEMMA RunnerKeepsFiles ==
  ASSUME DurableInv, Somebody, NEW k \in Job, Alive(k)
  PROVE  files[k] \ {"temp"} \subseteq files'[k]
<1>1. \A h \in Helper : ctl[h].pc \in Building => ctl[h].job # k
  BY RunIsUnmade DEF Alive, DurableInv, Shape, Making, Unmade
<1>2. FilesChange(k)
  BY FilesStep
<1> QED
  BY <1>1, <1>2 DEF FilesChange, Over, Building

LEMMA RunnerKeepsRecord ==
  ASSUME DurableInv, Somebody, NEW k \in Job, Alive(k), runner'[k].pc = runner[k].pc
  PROVE  record'[k] = record[k]
<1>1. \A h \in Helper : ctl[h].pc \in Building => ctl[h].job # k
  BY RunIsUnmade DEF Alive, DurableInv, Shape, Making, Unmade
<1>2. \A h \in Helper : ctl[h].pc \in Locked => ctl[h].at # k
  BY DEF DurableInv, Condemned, Over
<1>3. RecordChanges(k)
  BY RecordsStep
<1> QED
  BY <1>1, <1>2, <1>3 DEF RecordChanges, Building, Locked

LEMMA SupervisedStep ==
  ASSUME DurableInv, Somebody, NEW k \in Job
  PROVE  Supervised(k)'
<1> DEFINE Kept == {"dir", "request", "lock", "state"}
<1>t. /\ Supervised(k) /\ boot' = boot /\ runner \in [Job -> Runner]
      /\ record[k].state = "none" <=> "state" \notin files[k]
      /\ record'[k].state = "none" <=> "state" \notin files'[k]
  BY FileTypesStep, BootStays DEF DurableInv, TypeOK, Runner, Next, Somebody
<1>l. Alive(k)' /\ lock[k] = "runner" => lock'[k] = "runner"
  BY LocksStep, DurableJobAssumption DEF LockChanges, DurableJobAssumption
<1>1. CASE ~Alive(k)'
  BY <1>1 DEF Supervised, Alive, Holding, Unrecorded, Recorded
<1>2. CASE Alive(k) /\ Alive(k)' /\ runner'[k].pc = runner[k].pc
  <2>1. Kept \subseteq files'[k]
    BY <1>2, <1>t, RunnerKeepsFiles DEF Supervised
  <2>2. record'[k] = record[k]
    BY <1>2, RunnerKeepsRecord
  <2> QED
    BY <1>2, <1>t, <1>l, <2>1, <2>2 DEF Supervised
<1>3. CASE Alive(k) /\ Alive(k)' /\ runner'[k].pc # runner[k].pc
  <2>1. Kept \subseteq files'[k]
    BY <1>3, <1>t, RunnerKeepsFiles DEF Supervised
  <2>2. RunnerStep(k)
    BY <1>3, RunnerActs DEF Alive
  <2> QED
    BY <1>3, <1>t, <1>l, <2>1, <2>2, RunnersPlace
    DEF Supervised, Holding, Unrecorded, Recorded
<1>4. CASE ~Alive(k) /\ Alive(k)'
  <2>1. /\ runner'[k].pc = "spawned"
        /\ \E h \in Helper : ctl[h].pc = "spawn" /\ ctl[h].job = k /\ ctl'[h].pc = "ready"
    BY <1>4, RunnersStep DEF RunnerChanges, Alive
  <2>2. PICK h \in Helper : ctl[h].pc = "spawn" /\ ctl[h].job = k /\ ctl'[h].pc = "ready"
    BY <2>1
  <2>3. Making(ctl[h]) /\ Makes(ctl[h])
    BY <2>2 DEF DurableInv, Shape, Making, Building
  <2>4. {"dir", "request", "lock"} \subseteq files'[k]
    BY <2>2, <2>3, MadeFiles DEF Makes
  <2>5. record'[k] = [state |-> "starting", boot |-> boot']
    BY <2>2, <2>3, <1>t, MadeRecord DEF Makes
  <2>6. "state" \in files'[k]
    BY <1>t, <2>5
  <2> QED
    BY <2>1, <2>4, <2>5, <2>6 DEF Supervised, Holding, Unrecorded, Recorded
<1> QED
  BY <1>1, <1>2, <1>3, <1>4

-----------------------------------------------------------------------------
(* The command and the outcome                                             *)

(* A command that has been reaped stays so, unless the runner spawns it; a *)
(* runner that has reaped its command keeps the outcome.                   *)
LEMMA ReapedStays ==
  ASSUME DurableInv, Somebody, NEW k \in Job
  PROVE  /\ command[k] = "gone" /\ runner[k].pc # "locked" => command'[k] = "gone"
         /\ runner[k].pc \in Reaped /\ runner'[k].pc \in Reaped =>
              runner'[k].outcome = runner[k].outcome
         /\ runner[k].pc \notin Reaped /\ runner'[k].pc \in Reaped =>
              command'[k] = "gone" /\ runner'[k].outcome # "none"
<1>t. /\ runner \in [Job -> Runner] /\ command \in [Job -> {"none", "alive", "zombie", "gone"}]
  BY DEF DurableInv, TypeOK, Runner
<1> DEFINE Good == /\ command[k] = "gone" /\ runner[k].pc # "locked" => command'[k] = "gone"
                   /\ runner[k].pc \in Reaped /\ runner'[k].pc \in Reaped =>
                        runner'[k].outcome = runner[k].outcome
                   /\ runner[k].pc \notin Reaped /\ runner'[k].pc \in Reaped =>
                        command'[k] = "gone" /\ runner'[k].outcome # "none"
<1>u. runner' = runner /\ command' = command => Good
  OBVIOUS
<1>1. ASSUME NEW h \in Helper, ControlStep(h) \/ ControlFault(h) PROVE Good
  <2>1. CASE SpawnRunner(h)
    <3>1. runner'[k] = runner[k] \/ runner'[k].pc = "spawned"
      BY <2>1, <1>t DEF SpawnRunner
    <3>2. command' = command
      BY <2>1 DEF SpawnRunner
    <3> QED
      BY <3>1, <3>2 DEF Reaped
  <2>2. CASE HelperEnds(h)
    <3>1. /\ command' = command /\ runner'[k].outcome = runner[k].outcome
          /\ runner'[k].pc \in Reaped => runner'[k].pc = runner[k].pc
      BY <2>2, <1>t DEF HelperEnds, Runner, Reaped
    <3> QED
      BY <3>1
  <2> QED
    BY <1>1, <2>1, <2>2, <1>u DEF ControlStep, ControlFault, Walk, read_state, reconcile_state,
       ReconcileLock, ReconcileAgain, ReconcileLost, cancel, DeleteOpen, DeleteLock,
       DeleteScan, DeleteFile, DeleteDirectory, create, CreateFails, SpawnFails,
       ReadyFails
<1>2. ASSUME NEW j \in Job, RunnerStep(j) \/ Environment(j) PROVE Good
  <2>e. Ends(j) => Good
    <3>1. Ends(j) => /\ runner'[k] = runner[k] \/ runner'[k].pc \in {"zombie", "gone"}
                     /\ command[k] = "gone" => command'[k] = "gone"
      BY <1>t DEF Ends, Runner
    <3>2. Ends(j) => \/ runner'[k].pc \notin Reaped
                     \/ runner'[k] = runner[k]
      BY <3>1 DEF Reaped
    <3> QED
      BY <3>1, <3>2
  <2>s. ASSUME NEW from, NEW to, Step(j, from, to), from \in Reaped <=> to \in Reaped,
               command' = command
        PROVE  Good
    <3>1. /\ runner'[k].outcome = runner[k].outcome
          /\ runner'[k].pc \in Reaped => runner[k].pc \in Reaped
      BY <2>s, <1>t DEF Step, Runner
    <3> QED
      BY <3>1, <2>s
  <2>1. CASE RunnerLock(j)
    <3>1. CASE Step(j, "spawned", "locked") /\ command' = command
      BY <3>1, <2>s DEF Reaped
    <3> QED
      BY <2>1, <3>1, <2>e DEF RunnerLock
  <2>2. CASE RunnerSpawns(j)
    <3>1. \/ runner'[k] = runner[k] /\ command'[k] = command[k]
          \/ runner[k].pc = "locked" /\ runner'[k].pc = "feeding"
      BY <2>2, <1>t DEF RunnerSpawns, Step, Runner
    <3> QED
      BY <3>1 DEF Reaped
  <2>3. CASE RunnerStages(j)
    BY <2>3, <2>s DEF RunnerStages, Reaped
  <2>4. CASE RunnerRecords(j)
    BY <2>4, <2>s DEF RunnerRecords, Reaped
  <2>5. CASE RunnerReady(j)
    <3>1. CASE Step(j, "recorded", "watching") /\ command' = command
      BY <3>1, <2>s DEF Reaped
    <3> QED
      BY <2>5, <3>1, <2>e DEF RunnerReady
  <2>6. CASE RunnerReaps(j)
    <3>1. \/ runner'[k] = runner[k] /\ command'[k] = command[k]
          \/ /\ runner[k].pc \in {"watching", "killing"} /\ command'[k] = "gone"
             /\ runner'[k].outcome # "none"
      BY <2>6, <1>t DEF RunnerReaps, Runner
    <3> QED
      BY <3>1 DEF Reaped
  <2>7. CASE RunnerTerminates(j)
    <3>1. /\ command' = command
          /\ \/ runner'[k] = runner[k]
             \/ runner[k].pc = "watching" /\ runner'[k].pc = "killing"
      BY <2>7, <1>t DEF RunnerTerminates, Runner
    <3> QED
      BY <3>1 DEF Reaped
  <2>8. CASE RunnerKills(j) \/ CommandExits(j)
    <3>1. runner' = runner /\ (command[k] = "gone" => command'[k] = "gone")
      BY <2>8, <1>t DEF RunnerKills, CommandExits
    <3> QED
      BY <3>1
  <2>9. CASE RunnerDrains(j)
    BY <2>9, <2>s DEF RunnerDrains, Reaped
  <2>10. CASE RunnerExits(j) \/ RunnerFails(j) \/ RunnerCrash(j)
    BY <2>10, <2>e DEF RunnerExits, RunnerFails, RunnerCrash
  <2>11. CASE MembersEnd(j) \/ \E kind \in {"holding", "silent"} : CommandForks(j, kind)
    BY <2>11, <1>u DEF MembersEnd, CommandForks
  <2> QED
    BY <1>2, <2>1, <2>2, <2>3, <2>4, <2>5, <2>6, <2>7, <2>8, <2>9, <2>10, <2>11
    DEF RunnerStep, Environment
<1>3. CASE \E h \in Helper, op \in AllOps, j \in Job : execute_control(h, op, j)
  BY <1>3, <1>u DEF execute_control
<1> QED
  BY <1>1, <1>2, <1>3 DEF Somebody

LEMMA ReapsStep ==
  ASSUME DurableInv, Somebody, NEW k \in Job
  PROVE  Reaps(k)'
<1>t. Reaps(k) /\ Supervised(k)
  BY DEF DurableInv
<1>1. runner'[k].pc \in Reaped => command'[k] = "gone" /\ runner'[k].outcome # "none"
  BY <1>t, ReapedStays DEF Reaps, Reaped
<1> DEFINE Told == {"ended", "cancelled", "timedout"}
<1>2. CASE record[k].state \in Told /\ record'[k] = record[k]
  <2>1. runner[k].pc # "locked"
    BY <1>2, <1>t DEF Supervised, Unrecorded
  <2> QED
    BY <1>1, <1>2, <1>t, <2>1, ReapedStays DEF Reaps
<1>3. CASE record'[k].state \in Told /\ record'[k] # record[k]
  <2>0. \/ record'[k] = record[k]
        \/ record'[k].state \in {"none", "partial", "lost"}
        \/ record'[k] = [state |-> "starting", boot |-> boot]
        \/ record'[k] = [state |-> "running", boot |-> boot]
        \/ runner[k].pc = "endstaged"
    <3>1. RecordChanges(k)
      BY RecordsStep
    <3> HIDE DEF Told
    <3> QED
      BY <3>1 DEF RecordChanges, NoRecord
  <2>1. \/ record'[k].state \in {"none", "partial", "lost", "starting", "running"}
        \/ runner[k].pc = "endstaged"
    BY <1>3, <2>0
  <2>2. command'[k] = "gone"
    BY <1>3, <1>t, <2>1, ReapedStays DEF Reaps, Reaped
  <2> QED
    BY <1>1, <2>2 DEF Reaps
<1> QED
  BY <1>1, <1>2, <1>3 DEF Reaps

(* Terminal, or about to be lost: nobody makes or runs the job any more.   *)
LEMMA SettlesStep ==
  ASSUME DurableInv, Somebody, NEW k \in Job
  PROVE  Settles(k)'
<1>t. /\ Settles(k) /\ Reaps(k) /\ boot' = boot
      /\ record[k].state = "none" <=> "state" \notin files[k]
  BY BootStays DEF DurableInv, TypeOK
<1>1. CASE record'[k] = record[k] /\ record[k].state \in Terminal \cup {"starting", "running"}
  <2>1. ~Fresh(k)
    BY <1>1, <1>t DEF Fresh, Terminal
  <2> QED
    BY <1>1, <1>t, <2>1, OverStays, HasRunStays DEF Settles
<1>2. CASE record'[k].state \notin Terminal \cup {"starting", "running"}
  BY <1>2 DEF Settles
<1>3. CASE record'[k] = [state |-> "starting", boot |-> boot]
  BY <1>3, <1>t DEF Settles, Terminal
<1>4. CASE runner'[k].pc = "recorded" /\ record'[k] = [state |-> "running", boot |-> boot]
  BY <1>4, <1>t DEF Settles, Terminal, HasRun, Unrecorded
<1>5. CASE /\ runner[k].pc = "endstaged" /\ runner'[k].pc = "leaving"
           /\ record'[k] = [state |-> runner[k].outcome, boot |-> boot]
  <2>1. runner[k].outcome \in {"ended", "cancelled", "timedout"}
    BY <1>5, <1>t DEF Reaps, Reaped, DurableInv, TypeOK
  <2>2. Unmade(k)'
    BY <1>5, RunIsUnmade, UnmadeStep
  <2> QED
    BY <1>5, <2>1, <2>2 DEF Settles, Ended
<1>6. CASE /\ \E h \in Helper : ctl[h].pc = "install" /\ ctl[h].at = k
           /\ record'[k].state = "lost"
  <2>1. Over(k) /\ ~Fresh(k)
    BY <1>6, AtIsNotFresh DEF DurableInv, Condemned, Locked
  <2>2. Ended(k)'
    BY <2>1, OverStays DEF Over, Ended
  <2> QED
    BY <1>6, <2>2 DEF Settles
<1>7. CASE record'[k] = record[k] /\ record[k].state \notin Terminal \cup {"starting", "running"}
  BY <1>7 DEF Settles
<1>8. \/ record'[k] = record[k]
      \/ record'[k].state \in {"none", "partial"}
      \/ record'[k] = [state |-> "starting", boot |-> boot]
      \/ runner'[k].pc = "recorded" /\ record'[k] = [state |-> "running", boot |-> boot]
      \/ /\ runner[k].pc = "endstaged" /\ runner'[k].pc = "leaving"
         /\ record'[k] = [state |-> runner[k].outcome, boot |-> boot]
      \/ /\ \E h \in Helper : ctl[h].pc = "install" /\ ctl[h].at = k
         /\ record'[k].state = "lost"
  BY RecordsStep DEF RecordChanges, NoRecord
<1> QED
  BY <1>1, <1>2, <1>3, <1>4, <1>5, <1>6, <1>7, <1>8 DEF Terminal

-----------------------------------------------------------------------------
(* The invariant                                                           *)

LEMMA TypesStep ==
  ASSUME DurableInv, [Next]_vars, ctl' \in [Helper -> Request]
  PROVE  TypeOK'
<1>1. /\ files' \in [Job -> SUBSET File] /\ record' \in [Job -> Record]
      /\ \A j \in Job : record'[j].state = "none" <=> "state" \notin files'[j]
  BY FileTypesStep
<1>2. /\ lock' \in [Job -> Helper \cup {"runner", None}] /\ runner' \in [Job -> Runner]
      /\ command' \in [Job -> {"none", "alive", "zombie", "gone"}]
      /\ members' \in [Job -> {"none", "holding", "silent"}] /\ boot' \in 1 .. MaxBoot
  BY ProcessTypesStep
<1> QED
  BY <1>1, <1>2 DEF TypeOK, Runner

LEMMA SomebodyStep ==
  ASSUME DurableInv, Somebody
  PROVE  DurableInv'
<1>1. TypeOK'
  BY MakersStep, TypesStep DEF Next, Somebody
<1>2. \A g \in Helper :
        Shape(ctl'[g]) /\ Makes(ctl[g])' /\ Looks(ctl[g])' /\ Condemned(ctl[g])' /\ Holds(g)'
  BY MakersStep, MakesStep, LooksStep, HoldsStep
<1>3. \A k \in Job : Supervised(k)' /\ Reaps(k)' /\ Settles(k)'
  BY SupervisedStep, ReapsStep, SettlesStep
<1>4. Alone'
  BY AloneStep
<1> QED
  BY <1>1, <1>2, <1>3, <1>4 DEF DurableInv, Shape

(* A reboot ends every request and every process: only the files are left. *)
LEMMA RebootStep ==
  ASSUME DurableInv, Reboot
  PROVE  DurableInv'
<1>t. /\ runner \in [Job -> Runner] /\ files' = files /\ record' = record
      /\ command \in [Job -> {"none", "alive", "zombie", "gone"}]
  BY DEF DurableInv, TypeOK, Runner, Reboot
<1>1. TypeOK'
  BY RebootMoves, TypesStep DEF Next
<1>2. \A g \in Helper : ctl'[g] = Idle /\ Shape(Idle) /\ ~Making(Idle)
  BY RebootMoves
<1>3. Idle.pc = "idle"
  BY DEF Idle
<1>4. Alone' /\ \A k \in Job : Unmade(k)'
  BY <1>2 DEF Alone, Unmade
<1>5. \A g \in Helper :
        Shape(ctl'[g]) /\ Makes(ctl[g])' /\ Looks(ctl[g])' /\ Condemned(ctl[g])' /\ Holds(g)'
  BY <1>2, <1>3 DEF Makes, Looks, Condemned, Holds, Locked
<1>6. ASSUME NEW k \in Job
      PROVE  /\ runner'[k].pc = IF runner[k].pc = "none" THEN "none" ELSE "gone"
             /\ command'[k] = IF command[k] = "none" THEN "none" ELSE "gone"
  BY <1>t DEF Reboot, NoRunner, Runner
<1>7. ASSUME NEW k \in Job PROVE Supervised(k)' /\ Reaps(k)' /\ Settles(k)'
  <2>1. ~Alive(k)' /\ runner'[k].pc \in {"none", "gone"}
    BY <1>6 DEF Alive
  <2>2. Over(k)' /\ Ended(k)'
    BY <1>4, <2>1 DEF Over, Ended
  <2>3. HasRun(k) => HasRun(k)'
    BY <1>6 DEF HasRun, Unrecorded
  <2>4. Reaps(k) /\ Settles(k)
    BY DEF DurableInv
  <2>5. Supervised(k)'
    BY <2>1 DEF Supervised, Holding, Unrecorded, Recorded, Alive
  <2>6. Reaps(k)'
    BY <1>6, <1>t, <2>1, <2>4 DEF Reaps, Reaped
  <2> QED
    BY <1>t, <2>2, <2>3, <2>4, <2>5, <2>6 DEF Settles
<1> QED
  BY <1>1, <1>4, <1>5, <1>7 DEF DurableInv, Shape

LEMMA DurableInit ==
  ASSUME Init
  PROVE  DurableInv
<1>1. /\ Idle \in Request /\ Shape(Idle) /\ Idle.pc = "idle" /\ ~Making(Idle)
  <2>1. Idle \in Request
    BY NoRecordIsOne DEF Idle, Request, CtlPC, AllOps
  <2> QED
    BY <2>1, IdleGoes DEF Idle, Making, Building
<1>2. NoRecord \in Record /\ NoRecord.state = "none"
  BY NoRecordIsOne DEF NoRecord
<1>3. NoRunner \in Runner /\ NoRunner.pc = "none"
  BY DEF NoRunner, Runner, RunnerPC
<1>4. boot \in 1 .. MaxBoot
  BY DurableJobAssumption DEF Init, DurableJobAssumption
<1>5. TypeOK
  BY <1>1, <1>2, <1>3, <1>4 DEF Init, TypeOK, Runner
<1>6. \A h \in Helper : ctl[h] = Idle
  BY DEF Init
<1>7. Alone /\ \A j \in Job : Unmade(j)
  BY <1>1, <1>6 DEF Alone, Unmade
<1>8. \A h \in Helper :
        Shape(ctl[h]) /\ Makes(ctl[h]) /\ Looks(ctl[h]) /\ Condemned(ctl[h]) /\ Holds(h)
  BY <1>1, <1>6 DEF Makes, Looks, Condemned, Holds, Locked
<1>9. \A j \in Job : Supervised(j) /\ Reaps(j) /\ Settles(j)
  BY <1>2, <1>3 DEF Init, Supervised, Reaps, Settles, Alive, Holding, Unrecorded, Recorded,
     Reaped, Terminal
<1> QED
  BY <1>5, <1>7, <1>8, <1>9 DEF DurableInv

(* Whatever helpers, runners, crashes and reboots do, the state of every   *)
(* job is as DurableInv describes it: the invariant the others follow from.*)
THEOREM DurableJobInvariant == Spec => []DurableInv
<1>1. DurableInv /\ [Next]_vars => DurableInv'
  <2>1. CASE DurableInv /\ UNCHANGED vars
    <3>1. TypeOK' /\ Alone' /\ \A j \in Job : Unmade(j) => Unmade(j)'
      BY <2>1 DEF vars, DurableInv, TypeOK, Alone, Unmade, Making
    <3>2. \A h \in Helper : /\ Shape(ctl[h])' /\ Makes(ctl[h])' /\ Looks(ctl[h])'
                            /\ Condemned(ctl[h])' /\ Holds(h)'
      <4>1. \A h \in Helper : Shape(ctl[h])' /\ Makes(ctl[h])'
        BY <2>1 DEF vars, DurableInv, Shape, Makes
      <4>2. \A h \in Helper : Looks(ctl[h])'
        BY <2>1 DEF vars, DurableInv, Looks, Over, Ended, HasRun, Unmade, Alive, Making
      <4>3. \A h \in Helper : Condemned(ctl[h])'
        BY <2>1 DEF vars, DurableInv, Condemned, Over, Ended, HasRun, Unmade, Alive, Making
      <4>4. \A h \in Helper : Holds(h)'
        BY <2>1 DEF vars, DurableInv, Holds, Alive
      <4> QED
        BY <4>1, <4>2, <4>3, <4>4
    <3>3. \A j \in Job : Supervised(j)' /\ Reaps(j)' /\ Settles(j)'
      <4>1. \A j \in Job : Supervised(j)'
        BY <2>1 DEF vars, DurableInv, Supervised, Alive
      <4>2. \A j \in Job : Reaps(j)'
        BY <2>1 DEF vars, DurableInv, Reaps
      <4>3. \A j \in Job : Settles(j)'
        <5>1. \A j \in Job : (Ended(j)' <=> Ended(j)) /\ (Over(j)' <=> Over(j))
          BY <2>1 DEF vars, Ended, Over, Alive, Unmade, Making
        <5>2. \A j \in Job : HasRun(j)' <=> HasRun(j)
          BY <2>1 DEF vars, HasRun
        <5> QED
          BY <2>1, <5>1, <5>2 DEF vars, DurableInv, Settles
      <4> QED
        BY <4>1, <4>2, <4>3
    <3> QED
      BY <3>1, <3>2, <3>3 DEF DurableInv
  <2>2. Next => Somebody \/ Reboot
    BY DEF Next, Somebody
  <2> QED
    BY <2>1, <2>2, SomebodyStep, RebootStep
<1> QED
  BY <1>1, DurableInit, PTL DEF Spec

(* `ended', `cancelled' and `timedout' are only ever recorded of a command *)
(* that the runner has waited for, whatever race of cancel file, timeout   *)
(* and exit led there (run_job's watch loop).                              *)
THEOREM OutcomesAreTrue == Spec => []OutcomeIsTrue
<1>1. DurableInv => OutcomeIsTrue
  BY DEF DurableInv, Reaps, OutcomeIsTrue
<1> QED
  BY <1>1, DurableJobInvariant, PTL

(* No retention and no deletion takes a file from a job whose runner is    *)
(* still there (delete_terminal, collect_expired).                         *)
THEOREM RunnersKeepTheirJob == Spec => []SupervisedIsKept
<1>1. DurableInv => SupervisedIsKept
  BY DEF DurableInv, Supervised, SupervisedIsKept
<1> QED
  BY <1>1, DurableJobInvariant, PTL

(* A terminal record is replaced by nobody: no reconcile_state takes a job *)
(* that has ended for lost, no runner overwrites `lost'.                   *)
THEOREM TerminalStays == Spec => TerminalIsFinal
<1>1. ASSUME DurableInv, Next, NEW k \in Job, record[k].state \in Terminal
      PROVE  record'[k] \in {record[k], NoRecord}
  <2>1. CASE Somebody
    <3>1. Ended(k)
      BY <1>1 DEF DurableInv, Settles
    <3>2. \A h \in Helper : ctl[h].pc \in Building => ctl[h].job # k
      BY <1>1, <3>1 DEF Ended, DurableInv, Shape, Making, Unmade
    <3>3. \A h \in Helper : ctl[h].pc = "install" => ctl[h].at # k
      BY <1>1 DEF DurableInv, Holds, Terminal
    <3>4. RecordChanges(k)
      BY <1>1, <2>1, RecordsStep
    <3> QED
      BY <3>1, <3>2, <3>3, <3>4 DEF RecordChanges, Ended, Alive, Building
  <2>2. CASE Reboot
    BY <2>2 DEF Reboot
  <2> QED
    BY <1>1, <2>1, <2>2 DEF Next, Somebody
<1>2. DurableInv /\ [Next]_vars =>
        [\A j \in Job : record[j].state \in Terminal => record'[j] \in {record[j], NoRecord}]_vars
  BY <1>1
<1> QED
  BY <1>2, DurableJobInvariant, PTL DEF Spec, TerminalIsFinal

-----------------------------------------------------------------------------
(*                              THE LOGS                                   *)

(* Read on from an offset, a stream is its own positions.                  *)
Counts(bytes, from) == \A i \in 1 .. Len(bytes) : bytes[i] = from + i

Threads == [pc : {"read", "reserve", "write", "done", "failed"},
            count : Nat, used : Nat, kept : Nat]
Standings == [state : {"running", "ended", "lost"}, truncated : [Streams -> BOOLEAN]]

DrainTypes ==
  /\ running \in BOOLEAN /\ supervisor \in {"alive", "recorded", "dead"}
  /\ quota \in 0 .. Maximum
  /\ written \in [Streams -> Nat] /\ observed \in [Streams -> Nat]
  /\ retained \in [Streams -> Nat] /\ thread \in [Streams -> Threads]
  /\ log \in [Streams -> Seq(Nat)]

AskTypes ==
  /\ status \in Standings /\ told \in Standings
  /\ client \in {"idle", "at stdout", "at stderr", "complete"}
  /\ budget \in Nat /\ page \in [bytes : Seq(Nat), eof : BOOLEAN]
  /\ offset \in [Streams -> Nat] /\ got \in [Streams -> Seq(Nat)]

(* Drained up to where it was observed, a stream is in its file but for    *)
(* what its thread is about to write and what the budget had no room for.  *)
Drained(s) ==
  LET t == thread[s] IN
  /\ Counts(log[s], 0)
  /\ t.count <= observed[s] /\ observed[s] <= written[s]
  /\ t.pc # "failed" => retained[s] = Len(log[s])
  /\ t.pc \in {"read", "done"} => retained[s] = observed[s] \/ quota = Maximum
  /\ t.pc = "reserve" => /\ t.count > 0
                         /\ retained[s] = observed[s] - t.count \/ quota = Maximum
  /\ t.pc = "write" => /\ retained[s] = observed[s] - t.count
                       /\ t.kept \in 1 .. t.count
                       /\ t.kept = t.count \/ quota = Maximum
  /\ t.pc = "done" => ~running /\ observed[s] = written[s]

(* The budget that is taken is what the files hold and what the threads    *)
(* are about to write; a full disk takes more than it holds.               *)
Reserved(s) == IF thread[s].pc = "write" THEN thread[s].kept ELSE 0
Spent(s) == Len(log[s]) + Reserved(s)
Budgeted ==
  /\ Spent("stdout") + Spent("stderr") <= quota
  /\ (\A s \in Streams : thread[s].pc # "failed") => Spent("stdout") + Spent("stderr") = quota

(* The state file says what has become of the job, and the client was told *)
(* what it may still say.                                                  *)
StatusTrue ==
  /\ status.state = "ended" <=> supervisor = "recorded"
  /\ status.state = "lost" => supervisor = "dead"
  /\ supervisor = "recorded" =>
       \A s \in Streams : /\ thread[s].pc = "done"
                          /\ status.truncated[s] <=> retained[s] < observed[s]
  /\ told.state = "ended" => told = status
  /\ told.state = "lost" => supervisor = "dead"

(* The client has the files up to its offsets, the page of stdout goes on  *)
(* from there, and no file of a job that it was told is over grows.        *)
Paged(s) == /\ offset[s] = Len(got[s]) /\ Len(got[s]) <= Len(log[s])
            /\ Counts(got[s], 0)
            /\ client = "complete" => Len(got[s]) = Len(log[s])

PageTrue ==
  client = "at stderr" =>
    /\ offset["stdout"] + Len(page.bytes) <= Len(log["stdout"])
    /\ Counts(page.bytes, offset["stdout"])
    /\ page.eof /\ told.state # "running" =>
         offset["stdout"] + Len(page.bytes) = Len(log["stdout"])

Paging == /\ \A s \in Streams : Paged(s)
          /\ PageTrue
          /\ client = "complete" => told.state # "running"

LogsInv == /\ DrainTypes /\ AskTypes /\ (\A s \in Streams : Drained(s))
           /\ Budgeted /\ StatusTrue /\ Paging

(* Sequences of positions, joined and cut.                                 *)
LEMMA PartIsPart ==
  ASSUME NEW l \in Nat, NEW n \in Nat \ {0}
  PROVE  l \div n \in 0 .. l
  OBVIOUS

LEMMA JoinedIsSeq ==
  ASSUME NEW q \in Seq(Nat), NEW r \in Seq(Nat)
  PROVE  q \o r \in Seq(Nat)
  OBVIOUS

LEMMA Joined ==
  ASSUME NEW q \in Seq(Nat), NEW r \in Seq(Nat), Counts(q, 0), Counts(r, Len(q))
  PROVE  q \o r \in Seq(Nat) /\ Len(q \o r) = Len(q) + Len(r) /\ Counts(q \o r, 0)
  <1>1. q \o r \in Seq(Nat) /\ Len(q \o r) = Len(q) + Len(r)
    OBVIOUS
  <1>2. \A i \in 1 .. Len(q) + Len(r) :
          (q \o r)[i] = IF i <= Len(q) THEN q[i] ELSE r[i - Len(q)]
    OBVIOUS
  <1>3. ASSUME NEW i \in 1 .. Len(q) + Len(r) PROVE (q \o r)[i] = i
    <2>1. CASE i <= Len(q)
      BY <2>1, <1>2 DEF Counts
    <2>2. CASE ~(i <= Len(q))
      <3>1. i - Len(q) \in 1 .. Len(r)
        BY <2>2
      <3>2. r[i - Len(q)] = Len(q) + (i - Len(q))
        BY <3>1 DEF Counts
      <3> QED BY <3>2, <2>2, <1>2
    <2> QED BY <2>1, <2>2
  <1> QED BY <1>1, <1>3 DEF Counts

LEMMA Part ==
  ASSUME NEW q \in Seq(Nat), NEW from \in Nat, Counts(q, from),
         NEW a \in Nat, NEW b \in Nat, a <= b, b <= Len(q)
  PROVE  /\ SubSeq(q, a + 1, b) \in Seq(Nat) /\ Len(SubSeq(q, a + 1, b)) = b - a
         /\ Counts(SubSeq(q, a + 1, b), from + a)
  BY DEF Counts

LEMMA SameCount ==
  ASSUME NEW q \in Seq(Nat), NEW r \in Seq(Nat), Counts(q, 0), Counts(r, 0), Len(q) = Len(r)
  PROVE  q = r
  BY DEF Counts
LEMMA StillWithin ==
  ASSUME NEW a \in Nat, NEW b \in Nat, NEW c \in Nat, NEW d \in Nat, a + b <= c, c <= d
  PROVE  a + b <= d
  OBVIOUS

(* What a step leaves alone of a stream, it leaves drained.                *)
LEMMA ReadStays ==
  ASSUME DrainTypes, NEW s \in Streams, Drained(s),
         UNCHANGED <<observed[s], retained[s], log[s], thread[s]>>,
         written'[s] \in Nat, written'[s] >= written[s],
         running' = running \/ ~running',
         written'[s] = written[s] \/ running,
         quota = Maximum => quota' = Maximum
  PROVE  Drained(s)'
  <1>1. /\ written[s] \in Nat /\ observed[s] \in Nat /\ thread[s].count \in Nat
        /\ running \in BOOLEAN
    BY DEF DrainTypes, Threads
  <1>2. /\ Counts(log'[s], 0) /\ thread'[s].count <= observed'[s] /\ observed'[s] <= written'[s]
        /\ thread'[s].pc = "done" => ~running' /\ observed'[s] = written'[s]
    BY <1>1 DEF Drained
  <1> QED BY <1>2 DEF Drained

(* A thread that looked at a budget within the limit keeps its chunk or    *)
(* fills the budget up.                                                    *)
LEMMA KeptIsLess ==
  ASSUME JobLogsAssumption, DrainTypes, NEW s \in Streams
  PROVE  LET k == MayKeep(thread[s]) IN
         /\ k \in 0 .. thread[s].count /\ thread[s].used + k \in Nat
         /\ thread[s].used <= Maximum => thread[s].used + k <= Maximum
         /\ k # thread[s].count /\ thread[s].used <= Maximum => thread[s].used + k = Maximum
  <1> DEFINE t == thread[s]
  <1>1. t.count \in Nat /\ t.used \in Nat /\ Maximum \in Nat
    BY JobLogsAssumption DEF DrainTypes, Threads, JobLogsAssumption
  <1> HIDE DEF t
  <1>2. LET k == MayKeep(t) IN
         /\ k \in 0 .. t.count /\ t.used + k \in Nat
         /\ t.used <= Maximum => t.used + k <= Maximum
         /\ k # t.count /\ t.used <= Maximum => t.used + k = Maximum
    BY <1>1 DEF MayKeep, Less
  <1> QED BY <1>2 DEF t

(* What a thread writes goes on where its file ends.                       *)
LEMMA Beginning ==
  ASSUME DrainTypes, NEW s \in Streams, Drained(s), thread[s].pc = "write",
         NEW n \in 0 .. thread[s].kept
  PROVE  LET longer == log[s] \o Chunk(s, n) IN
         /\ longer \in Seq(Nat) /\ Len(longer) = Len(log[s]) + n /\ Counts(longer, 0)
  <1>1. /\ log[s] \in Seq(Nat) /\ Counts(log[s], 0) /\ Len(log[s]) \in Nat /\ n \in Nat
        /\ observed[s] - thread[s].count = Len(log[s])
    <2>1. log[s] \in Seq(Nat) /\ thread[s].kept \in Nat
      BY DEF DrainTypes, Threads
    <2>2. Counts(log[s], 0) /\ observed[s] - thread[s].count = Len(log[s])
      BY DEF Drained
    <2>3. Len(log[s]) \in Nat /\ n \in Nat
      BY <2>1
    <2> QED BY <2>1, <2>2, <2>3
  <1>2. PICK a \in Nat : a = Len(log[s])
    BY <1>1
  <1>3. Chunk(s, n) = [i \in 1 .. n |-> a + i]
    BY <1>1, <1>2 DEF Chunk
  <1>4. [i \in 1 .. n |-> a + i] \in Seq(Nat) /\ Len([i \in 1 .. n |-> a + i]) = n
    BY <1>1, <1>2
  <1>5. Counts(Chunk(s, n), Len(log[s]))
    BY <1>2, <1>3, <1>4 DEF Counts
  <1> QED BY <1>1, <1>3, <1>4, <1>5, Joined

(* A page goes on at the client's offset, fits, and is right about the end.*)
LEMMA PageFits ==
  ASSUME DrainTypes, AskTypes, NEW s \in Streams, Drained(s), Paged(s)
  PROVE  LET p == PageOf(s) IN
         /\ p.bytes \in Seq(Nat) /\ p.eof \in BOOLEAN
         /\ Len(p.bytes) <= budget /\ offset[s] + Len(p.bytes) <= Len(log[s])
         /\ Counts(p.bytes, offset[s])
         /\ p.eof => offset[s] + Len(p.bytes) = Len(log[s])
  <1>1. /\ log[s] \in Seq(Nat) /\ Len(log[s]) \in Nat /\ offset[s] \in Nat /\ budget \in Nat
        /\ offset[s] <= Len(log[s]) /\ Counts(log[s], 0)
    <2>1. log[s] \in Seq(Nat) /\ offset[s] \in Nat /\ budget \in Nat
      BY DEF DrainTypes, AskTypes
    <2>2. offset[s] <= Len(log[s]) /\ Counts(log[s], 0)
      BY DEF Paged, Drained
    <2> QED BY <2>1, <2>2
  <1>2. PICK end \in Nat : end = offset[s] + Less(budget, Len(log[s]) - offset[s])
    BY <1>1 DEF Less
  <1>3. offset[s] <= end /\ end <= Len(log[s]) /\ end - offset[s] <= budget
    BY <1>1, <1>2 DEF Less
  <1>4. PICK b : b = SubSeq(log[s], offset[s] + 1, end)
    OBVIOUS
  <1>5. PageOf(s) = [bytes |-> b, eof |-> end = Len(log[s])]
    BY <1>2, <1>4 DEF PageOf
  <1>6. b \in Seq(Nat) /\ Len(b) = end - offset[s] /\ Counts(b, 0 + offset[s])
    BY <1>1, <1>3, <1>4, Part
  <1>7. 0 + offset[s] = offset[s] /\ offset[s] + (end - offset[s]) = end
    BY <1>1
  <1>8. /\ Len(b) <= budget /\ offset[s] + Len(b) <= Len(log[s]) /\ Counts(b, offset[s])
        /\ end = Len(log[s]) => offset[s] + Len(b) = Len(log[s])
    BY <1>3, <1>6, <1>7
  <1>9. PageOf(s).bytes = b /\ PageOf(s).eof = (end = Len(log[s]))
    BY <1>5
  <1> QED BY <1>6, <1>8, <1>9

LEMMA CutIsPart ==
  ASSUME JobLogsAssumption, NEW bytes \in Seq(Nat), NEW n \in Parts
  PROVE  /\ Cut(bytes, n) \in Seq(Nat) /\ Len(Cut(bytes, n)) <= Len(bytes)
         /\ \A from \in Nat : Counts(bytes, from) => Counts(Cut(bytes, n), from)
  <1>1. Len(bytes) \in Nat /\ n \in Nat \ {0}
    BY JobLogsAssumption DEF JobLogsAssumption
  <1>2. PICK b \in 0 .. Len(bytes) : b = Len(bytes) \div n
    BY <1>1, PartIsPart
  <1>3. Cut(bytes, n) = SubSeq(bytes, 1, b)
    BY <1>2 DEF Cut
  <1>4. SubSeq(bytes, 1, b) \in Seq(Nat) /\ Len(SubSeq(bytes, 1, b)) = b
    BY <1>1
  <1>5. \A i \in 1 .. b : SubSeq(bytes, 1, b)[i] = bytes[i]
    BY <1>1
  <1> QED BY <1>1, <1>3, <1>4, <1>5 DEF Counts

LEMMA BufferLess ==
  ASSUME JobLogsAssumption, NEW a \in Nat, NEW b \in Nat, b <= a, NEW n \in 1 .. Less(a - b, Buffer)
  PROVE  n \in Nat /\ n > 0 /\ b + n <= a
  BY JobLogsAssumption DEF JobLogsAssumption, Less

(* Each part of the invariant is kept by every step.                       *)
LEMMA DrainTypesStay ==
  ASSUME JobLogsAssumption, DrainTypes, \A s \in Streams : Drained(s), LogsNext
  PROVE  DrainTypes'
  <1>1. ASSUME NEW s \in Streams, CommandWrites(s) PROVE DrainTypes'
    BY <1>1 DEF CommandWrites, DrainTypes, asking
  <1>2. ASSUME NEW s \in Streams, Drains(s) PROVE DrainTypes'
    <2>1. CASE \E n \in 1 .. Less(written[s] - observed[s], Buffer) :
             /\ observed' = [observed EXCEPT ![s] = @ + n]
             /\ thread' = [thread EXCEPT ![s] =
                    [pc |-> "reserve", count |-> n, used |-> quota, kept |-> 0]]
      <3>1. PICK n \in 1 .. Less(written[s] - observed[s], Buffer) :
             /\ observed' = [observed EXCEPT ![s] = @ + n]
             /\ thread' = [thread EXCEPT ![s] =
                    [pc |-> "reserve", count |-> n, used |-> quota, kept |-> 0]]
        BY <2>1
      <3>2. n \in Nat
        <4>1. written[s] \in Nat /\ observed[s] \in Nat /\ observed[s] <= written[s]
          BY DEF DrainTypes, Drained
        <4> QED BY <4>1, BufferLess
      <3>3. [pc |-> "reserve", count |-> n, used |-> quota, kept |-> 0] \in Threads
        BY <3>2, JobLogsAssumption DEF Threads, DrainTypes, JobLogsAssumption
      <3> QED BY <1>2, <3>1, <3>2, <3>3 DEF Drains, DrainTypes, asking
    <2>2. CASE /\ ~running /\ written[s] = observed[s]
               /\ \E end \in {"done", "failed"} :
                     thread' = [thread EXCEPT ![s] = [ToRead EXCEPT !.pc = end]]
               /\ UNCHANGED observed
      <3>1. \A end \in {"done", "failed"} : [ToRead EXCEPT !.pc = end] \in Threads
        BY DEF ToRead, Threads
      <3> QED BY <1>2, <2>2, <3>1 DEF Drains, DrainTypes, asking
    <2> QED BY <1>2, <2>1, <2>2 DEF Drains
  <1>3. ASSUME NEW s \in Streams, Reserves(s) PROVE DrainTypes'
    <2> DEFINE t == thread[s]
               k == MayKeep(t)
    <2>1. t \in Threads /\ quota \in 0 .. Maximum /\ Maximum \in Nat
      BY JobLogsAssumption DEF DrainTypes, JobLogsAssumption
    <2>2. k \in Nat /\ (t.used <= Maximum => t.used + k <= Maximum) /\ t.used + k \in Nat
      <3>1. t.count \in Nat
        BY <2>1 DEF Threads
      <3> QED BY <3>1, KeptIsLess
    <2> HIDE DEF k, t
    <2>3. ToRead \in Threads /\ [t EXCEPT !.pc = "write", !.kept = k] \in Threads
          /\ [t EXCEPT !.used = quota] \in Threads
      <3>1. ToRead \in Threads
        BY DEF ToRead, Threads
      <3>2. quota \in Nat
        BY <2>1
      <3>3. [t EXCEPT !.pc = "write", !.kept = k] \in Threads
        BY <2>1, <2>2 DEF Threads
      <3>4. [t EXCEPT !.used = quota] \in Threads
        BY <2>1, <3>2 DEF Threads
      <3> QED BY <3>1, <3>3, <3>4
    <2>4. /\ \/ quota = t.used /\ quota' = t.used + k
             \/ UNCHANGED quota
          /\ \/ thread' = [thread EXCEPT ![s] = ToRead]
             \/ thread' = [thread EXCEPT ![s] = [t EXCEPT !.pc = "write", !.kept = k]]
             \/ thread' = [thread EXCEPT ![s] = [t EXCEPT !.used = quota]]
          /\ UNCHANGED <<running, written, supervisor, observed, retained, log>>
      BY <1>3 DEF Reserves, k, t
    <2>5. quota' \in 0 .. Maximum
      BY <2>1, <2>2, <2>4
    <2>6. thread' \in [Streams -> Threads]
      BY <2>3, <2>4 DEF DrainTypes
    <2> QED BY <2>4, <2>5, <2>6 DEF DrainTypes
  <1>4. ASSUME NEW s \in Streams, Writes(s) PROVE DrainTypes'
    <2> DEFINE t == thread[s]
    <2>1. t \in Threads /\ t.kept \in Nat
      BY DEF DrainTypes, Threads
    <2>2. \A n \in 0 .. t.kept : log[s] \o Chunk(s, n) \in Seq(Nat)
      BY <1>4, Beginning DEF Writes
    <2>3. ToRead \in Threads /\ [ToRead EXCEPT !.pc = "failed"] \in Threads
      BY DEF ToRead, Threads
    <2>4. PICK n \in 0 .. t.kept :
            /\ log' = [log EXCEPT ![s] = @ \o Chunk(s, n)]
            /\ \/ retained' = [retained EXCEPT ![s] = @ + t.kept]
               \/ UNCHANGED retained
            /\ \/ thread' = [thread EXCEPT ![s] = ToRead]
               \/ thread' = [thread EXCEPT ![s] = [ToRead EXCEPT !.pc = "failed"]]
            /\ UNCHANGED <<running, written, supervisor, quota, observed>>
      <3>1. t.kept \in 0 .. t.kept /\ \A n \in 0 .. t.kept - 1 : n \in 0 .. t.kept
        BY <2>1
      <3> QED BY <1>4, <3>1 DEF Writes
    <2>5. log' \in [Streams -> Seq(Nat)]
      BY <2>2, <2>4 DEF DrainTypes
    <2>6. retained' \in [Streams -> Nat]
      <3>1. retained \in [Streams -> Nat]
        BY DEF DrainTypes
      <3>2. retained[s] + t.kept \in Nat
        BY <2>1, <3>1
      <3> QED BY <2>4, <3>1, <3>2
    <2>7. thread' \in [Streams -> Threads]
      BY <2>3, <2>4 DEF DrainTypes
    <2> QED BY <2>4, <2>5, <2>6, <2>7 DEF DrainTypes
  <1>5. CASE CommandStops \/ RunnerEnds \/ RunnerDies
    BY <1>5 DEF CommandStops, RunnerEnds, RunnerDies, DrainTypes
  <1>6. CASE ReadsStdout \/ ReadsStderr \/ \E most \in Pages : Asks(most)
    <2>1. UNCHANGED draining
      BY <1>6 DEF ReadsStdout, ReadsStderr, Asks
    <2> QED BY <2>1 DEF draining, DrainTypes
  <1> QED BY <1>1, <1>2, <1>3, <1>4, <1>5, <1>6 DEF LogsNext

LEMMA AskTypesStay ==
  ASSUME JobLogsAssumption, DrainTypes, AskTypes, \A s \in Streams : Drained(s), Paging, LogsNext
  PROVE  AskTypes'
  <1>1. ASSUME NEW s \in Streams, CommandWrites(s) \/ Drains(s) \/ Reserves(s) \/ Writes(s)
        PROVE  AskTypes'
    BY <1>1 DEF CommandWrites, Drains, Reserves, Writes, AskTypes, asking
  <1>2. CASE CommandStops \/ RunnerDies
    BY <1>2 DEF CommandStops, RunnerDies, AskTypes, asking
  <1>3. CASE RunnerEnds
    <2>1. PICK short \in [Streams -> BOOLEAN] : short = [s \in Streams |-> retained[s] < observed[s]]
      <3>1. \A s \in Streams : (retained[s] < observed[s]) \in BOOLEAN
        OBVIOUS
      <3> QED BY <3>1, Zenon
    <2>2. status' = status \/ status' = [state |-> "ended", truncated |-> short]
      BY <1>3, <2>1 DEF RunnerEnds
    <2>3. [state |-> "ended", truncated |-> short] \in Standings
      BY DEF Standings
    <2>4. status' \in Standings
      BY <2>2, <2>3 DEF AskTypes
    <2> QED BY <1>3, <2>4 DEF RunnerEnds, AskTypes, asking
  <1>4. ASSUME NEW most \in Pages, Asks(most) PROVE AskTypes'
    <2>1. status' \in Standings
      BY <1>4 DEF Asks, AskTypes, Standings
    <2> QED BY <1>4, <2>1, JobLogsAssumption DEF Asks, AskTypes, JobLogsAssumption
  <1>5. CASE ReadsStdout
    <2>1. "stdout" \in Streams /\ Paged("stdout")
      BY DEF Streams, Paging
    <2>2. PICK p : p = PageOf("stdout")
      OBVIOUS
    <2>3. p.bytes \in Seq(Nat) /\ p.eof \in BOOLEAN /\ Len(p.bytes) <= budget
      BY <2>1, <2>2, PageFits
    <2>4. p \in [bytes : Seq(Nat), eof : BOOLEAN]
      BY <2>2, <2>3 DEF PageOf
    <2>5. page' = p /\ budget' = budget - Len(p.bytes)
      BY <1>5, <2>2 DEF ReadsStdout
    <2>6. budget' \in Nat
      <3>1. budget \in Nat /\ Len(p.bytes) \in Nat
        <4>1. Len(p.bytes) \in Nat
          BY <2>3
        <4> QED BY <4>1 DEF AskTypes
      <3> QED BY <2>3, <2>5, <3>1
    <2> QED BY <1>5, <2>4, <2>5, <2>6 DEF ReadsStdout, AskTypes
  <1>6. CASE ReadsStderr
    <2>1. NoPage \in [bytes : Seq(Nat), eof : BOOLEAN]
      BY DEF NoPage
    <2>2. "stderr" \in Streams /\ Paged("stderr")
      BY DEF Streams, Paging
    <2>3. PICK n \in Parts :
            Shown([s \in Streams |-> IF s = "stdout" THEN page ELSE PageOf(s)], n)
      BY <1>6 DEF ReadsStderr
    <2>4. PICK pages : pages = [s \in Streams |-> IF s = "stdout" THEN page ELSE PageOf(s)]
      OBVIOUS
    <2>5. \A s \in Streams : pages[s].bytes \in Seq(Nat)
      <3>1. pages["stdout"].bytes \in Seq(Nat)
        BY <2>4 DEF AskTypes, Streams
      <3>2. pages["stderr"].bytes \in Seq(Nat)
        BY <2>2, <2>4, PageFits DEF Streams
      <3> QED BY <3>1, <3>2 DEF Streams
    <2>6. PICK shown : shown = [s \in Streams |-> Cut(pages[s].bytes, n)]
      OBVIOUS
    <2>7. \A s \in Streams : shown[s] \in Seq(Nat)
      <3> SUFFICES ASSUME NEW s \in Streams PROVE shown[s] \in Seq(Nat)
        OBVIOUS
      <3>1. Cut(pages[s].bytes, n) \in Seq(Nat)
        BY <2>5, CutIsPart
      <3> QED BY <3>1, <2>6
    <2>8. /\ got' = [s \in Streams |-> got[s] \o shown[s]]
          /\ offset' = [s \in Streams |-> offset[s] + Len(shown[s])]
          /\ client' \in {"complete", "idle"}
      BY <2>3, <2>4, <2>6 DEF Shown
    <2>9. got' \in [Streams -> Seq(Nat)]
      <3>1. \A s \in Streams : got[s] \in Seq(Nat) /\ shown[s] \in Seq(Nat)
        BY <2>7 DEF AskTypes
      <3>2. \A s \in Streams : got[s] \o shown[s] \in Seq(Nat)
        BY <3>1, JoinedIsSeq
      <3> QED BY <2>8, <3>2
    <2>10. offset' \in [Streams -> Nat]
      <3>1. \A s \in Streams : offset[s] \in Nat
        BY DEF AskTypes
      <3>2. \A s \in Streams : Len(shown[s]) \in Nat
        BY <2>7
      <3> QED BY <2>8, <3>1, <3>2
    <2> QED BY <1>6, <2>1, <2>8, <2>9, <2>10 DEF ReadsStderr, AskTypes
  <1> QED BY <1>1, <1>2, <1>3, <1>4, <1>5, <1>6 DEF LogsNext

LEMMA DrainedStays ==
  ASSUME JobLogsAssumption, DrainTypes, \A s \in Streams : Drained(s), LogsNext
  PROVE  \A s \in Streams : Drained(s)'
  <1> SUFFICES ASSUME NEW x \in Streams PROVE Drained(x)'
    OBVIOUS
  <1> USE JobLogsAssumption DEF JobLogsAssumption
  <1>x. /\ written[x] \in Nat /\ observed[x] \in Nat /\ retained[x] \in Nat /\ running \in BOOLEAN
        /\ thread[x] \in Threads /\ quota \in 0 .. Maximum /\ log[x] \in Seq(Nat) /\ Drained(x)
    BY DEF DrainTypes
  <1>1. ASSUME NEW s \in Streams, CommandWrites(s) PROVE Drained(x)'
    <2>1. /\ written' = [written EXCEPT ![s] = @ + 1] /\ running
          /\ UNCHANGED <<running, quota, thread, observed, retained, log>>
      BY <1>1 DEF CommandWrites
    <2>2. written'[x] \in Nat /\ written'[x] >= written[x]
      BY <1>x, <2>1 DEF DrainTypes
    <2> QED BY <1>x, <2>1, <2>2, ReadStays
  <1>2. ASSUME NEW s \in Streams, Drains(s) PROVE Drained(x)'
    <2>1. UNCHANGED <<running, written, quota, retained, log>> /\ thread[s].pc = "read"
      BY <1>2 DEF Drains
    <2>2. CASE x # s
      <3>1. observed'[x] = observed[x] /\ thread'[x] = thread[x]
        BY <1>2, <2>2 DEF Drains, DrainTypes
      <3> QED BY <1>x, <2>1, <3>1, ReadStays
    <2>3. CASE x = s
      <3>1. CASE \E n \in 1 .. Less(written[s] - observed[s], Buffer) :
               /\ observed' = [observed EXCEPT ![s] = @ + n]
               /\ thread' = [thread EXCEPT ![s] =
                      [pc |-> "reserve", count |-> n, used |-> quota, kept |-> 0]]
        <4>1. PICK n \in 1 .. Less(written[s] - observed[s], Buffer) :
               /\ observed' = [observed EXCEPT ![s] = @ + n]
               /\ thread' = [thread EXCEPT ![s] =
                      [pc |-> "reserve", count |-> n, used |-> quota, kept |-> 0]]
          BY <3>1
        <4>2. observed[x] <= written[x]
          BY <1>x DEF Drained
        <4>3. n \in Nat /\ n > 0 /\ observed[x] + n <= written[x]
          BY <1>x, <2>3, <4>2, BufferLess
        <4>4. /\ observed'[x] = observed[x] + n
              /\ thread'[x].pc = "reserve" /\ thread'[x].count = n
          BY <2>3, <4>1 DEF DrainTypes
        <4> QED BY <1>x, <2>1, <2>3, <4>3, <4>4 DEF Drained
      <3>2. CASE /\ ~running /\ written[s] = observed[s]
                 /\ \E end \in {"done", "failed"} :
                       thread' = [thread EXCEPT ![s] = [ToRead EXCEPT !.pc = end]]
                 /\ UNCHANGED observed
        <4>1. thread'[x].pc \in {"done", "failed"} /\ thread'[x].count = 0
          BY <2>3, <3>2 DEF DrainTypes, ToRead
        <4> QED BY <1>x, <2>1, <2>3, <3>2, <4>1 DEF Drained
      <3> QED BY <1>2, <3>1, <3>2 DEF Drains
    <2> QED BY <2>2, <2>3
  <1>3. ASSUME NEW s \in Streams, Reserves(s) PROVE Drained(x)'
    <2> DEFINE t == thread[s]
               k == MayKeep(t)
    <2>1. UNCHANGED <<running, written, observed, retained, log>> /\ t.pc = "reserve"
      BY <1>3 DEF Reserves
    <2>2. /\ k \in 0 .. t.count /\ t.used + k \in Nat
          /\ t.used <= Maximum => t.used + k <= Maximum
          /\ k # t.count /\ t.used <= Maximum => t.used + k = Maximum
      BY KeptIsLess
    <2>3. t \in Threads /\ t.count \in Nat /\ t.used \in Nat
      BY DEF DrainTypes, Threads
    <2>4. /\ \/ /\ quota = t.used /\ quota' = t.used + k
                /\ thread' = [thread EXCEPT ![s] =
                     IF k = 0 THEN ToRead ELSE [t EXCEPT !.pc = "write", !.kept = k]]
             \/ /\ quota # t.used /\ UNCHANGED quota
                /\ thread' = [thread EXCEPT ![s] = [t EXCEPT !.used = quota]]
      BY <1>3 DEF Reserves
    <2>5. /\ k = 0 => [t EXCEPT !.pc = "write", !.kept = k] = [t EXCEPT !.pc = "write", !.kept = 0]
          /\ [t EXCEPT !.pc = "write", !.kept = k].pc = "write"
          /\ [t EXCEPT !.pc = "write", !.kept = k].kept = k
          /\ [t EXCEPT !.pc = "write", !.kept = k].count = t.count
          /\ [t EXCEPT !.used = quota].pc = "reserve"
          /\ [t EXCEPT !.used = quota].count = t.count
          /\ ToRead.pc = "read" /\ ToRead.count = 0
      BY <2>1, <2>3 DEF Threads, ToRead
    <2> HIDE DEF k, t
    <2>6. quota = Maximum => quota' = Maximum
      BY <1>x, <2>2, <2>4
    <2>7. CASE x # s
      <3>1. thread'[x] = thread[x]
        BY <2>4, <2>7 DEF DrainTypes
      <3> QED BY <1>x, <2>1, <2>6, <3>1, ReadStays
    <2>8. CASE x = s
      <3>1. /\ t = thread[x] /\ Counts(log[x], 0) /\ t.count <= observed[x] /\ observed[x] <= written[x]
            /\ retained[x] = Len(log[x]) /\ t.count > 0
            /\ retained[x] = observed[x] - t.count \/ quota = Maximum
        BY <1>x, <2>1, <2>8 DEF Drained, t
      <3>2. CASE quota = t.used /\ quota' = t.used + k /\ k = 0 /\ thread'[x] = ToRead
        <4>1. quota' = Maximum
          BY <1>x, <2>2, <3>1, <3>2
        <4> QED BY <1>x, <2>1, <2>5, <3>1, <3>2, <4>1 DEF Drained
      <3>3. CASE /\ quota = t.used /\ quota' = t.used + k /\ k # 0
                 /\ thread'[x] = [t EXCEPT !.pc = "write", !.kept = k]
        <4>1. k \in 1 .. t.count /\ (k = t.count \/ quota' = Maximum)
          BY <1>x, <2>2, <2>3, <3>1, <3>3
        <4>2. retained[x] = observed[x] - t.count
          BY <1>x, <2>2, <3>1, <3>3
        <4>3. thread'[x].pc = "write" /\ thread'[x].kept = k /\ thread'[x].count = t.count
          BY <2>5, <3>3
        <4> QED BY <1>x, <2>1, <3>1, <4>1, <4>2, <4>3 DEF Drained
      <3>4. CASE UNCHANGED quota /\ thread'[x] = [t EXCEPT !.used = quota]
        <4>1. thread'[x].pc = "reserve" /\ thread'[x].count = t.count
          BY <2>5, <3>4
        <4> QED BY <1>x, <2>1, <3>1, <3>4, <4>1 DEF Drained
      <3>5. \A v : thread' = [thread EXCEPT ![s] = v] => thread'[x] = v
        BY <2>8 DEF DrainTypes
      <3> QED BY <2>4, <3>2, <3>3, <3>4, <3>5
    <2> QED BY <2>7, <2>8
  <1>4. ASSUME NEW s \in Streams, Writes(s) PROVE Drained(x)'
    <2> DEFINE t == thread[s]
    <2>1. UNCHANGED <<running, written, quota, observed>> /\ t.pc = "write"
      BY <1>4 DEF Writes
    <2>2. \/ /\ log' = [log EXCEPT ![s] = @ \o Chunk(s, t.kept)]
             /\ retained' = [retained EXCEPT ![s] = @ + t.kept]
             /\ thread' = [thread EXCEPT ![s] = ToRead]
          \/ \E n \in 0 .. t.kept - 1 :
                /\ log' = [log EXCEPT ![s] = @ \o Chunk(s, n)]
                /\ thread' = [thread EXCEPT ![s] = [ToRead EXCEPT !.pc = "failed"]]
                /\ UNCHANGED retained
      BY <1>4 DEF Writes
    <2>3. CASE x # s
      <3>1. thread'[x] = thread[x] /\ log'[x] = log[x] /\ retained'[x] = retained[x]
        BY <2>2, <2>3 DEF DrainTypes
      <3> QED BY <1>x, <2>1, <3>1, ReadStays
    <2>4. CASE x = s
      <3>1. /\ t = thread[x] /\ Counts(log[x], 0) /\ t.count <= observed[x] /\ observed[x] <= written[x]
            /\ retained[x] = Len(log[x]) /\ retained[x] = observed[x] - t.count
            /\ t.kept \in 1 .. t.count /\ (t.kept = t.count \/ quota = Maximum)
            /\ t.count \in Nat /\ t.kept \in Nat
        BY <1>x, <2>1, <2>4 DEF Drained, Threads
      <3>2. \A n \in 0 .. t.kept : LET longer == log[x] \o Chunk(x, n) IN
               Len(longer) = Len(log[x]) + n /\ Counts(longer, 0)
        BY <2>1, <2>4, Beginning
      <3>3. CASE /\ log'[x] = log[x] \o Chunk(x, t.kept) /\ retained'[x] = retained[x] + t.kept
                 /\ thread'[x] = ToRead
        <4>1. Counts(log'[x], 0) /\ Len(log'[x]) = Len(log[x]) + t.kept
          <5>1. t.kept \in 0 .. t.kept
            BY <3>1
          <5> QED BY <3>2, <3>3, <5>1
        <4>2. thread'[x].pc = "read" /\ thread'[x].count = 0
          BY <3>3 DEF ToRead
        <4>3. retained'[x] = Len(log'[x]) /\ (retained'[x] = observed[x] \/ quota = Maximum)
          <5>1. retained'[x] = Len(log'[x])
            BY <3>1, <3>3, <4>1
          <5>2. t.kept = t.count => retained[x] + t.kept = observed[x]
            BY <1>x, <3>1
          <5> QED BY <3>1, <3>3, <5>1, <5>2
        <4> QED BY <1>x, <2>1, <3>1, <4>1, <4>2, <4>3 DEF Drained
      <3>4. CASE \E n \in 0 .. t.kept - 1 :
                   /\ log'[x] = log[x] \o Chunk(x, n)
                   /\ thread'[x] = [ToRead EXCEPT !.pc = "failed"]
        <4>1. Counts(log'[x], 0)
          BY <3>1, <3>2, <3>4
        <4>2. thread'[x].pc = "failed" /\ thread'[x].count = 0
          BY <3>4 DEF ToRead
        <4> QED BY <1>x, <2>1, <3>1, <4>1, <4>2 DEF Drained
      <3> QED BY <2>2, <2>4, <3>3, <3>4 DEF DrainTypes
    <2> QED BY <2>3, <2>4
  <1>5. CASE CommandStops \/ RunnerEnds \/ RunnerDies
    <2>1. /\ UNCHANGED <<written, quota, thread, observed, retained, log>>
          /\ running' = running \/ ~running'
      BY <1>5 DEF CommandStops, RunnerEnds, RunnerDies
    <2> QED BY <1>x, <2>1, ReadStays
  <1>6. CASE ReadsStdout \/ ReadsStderr \/ \E most \in Pages : Asks(most)
    <2>1. UNCHANGED <<running, written, quota, thread, observed, retained, log>>
      BY <1>6 DEF ReadsStdout, ReadsStderr, Asks, draining
    <2> QED BY <1>x, <2>1, ReadStays
  <1> QED BY <1>1, <1>2, <1>3, <1>4, <1>5, <1>6 DEF LogsNext

(* A thread that reserves takes from the budget what it is going to write, *)
(* and one that writes puts at most that into the file.                    *)
LEMMA BudgetedStays ==
  ASSUME JobLogsAssumption, DrainTypes, \A s \in Streams : Drained(s), Budgeted, LogsNext
  PROVE  Budgeted'
  <1>x. \A s \in Streams : Spent(s) \in Nat /\ quota \in Nat
    <2>1. \A s \in Streams : Len(log[s]) \in Nat /\ thread[s].kept \in Nat
      BY DEF DrainTypes, Threads
    <2> QED BY <2>1 DEF Spent, Reserved, DrainTypes
  <1>y. ASSUME NEW s \in Streams, \A x \in Streams : x # s => UNCHANGED <<log[x], thread[x]>>,
               thread[s].pc # "failed",
               Spent(s)' \in Nat, quota' \in Nat,
               \/ Spent(s)' - Spent(s) = quota' - quota
               \/ /\ thread'[s].pc = "failed" /\ Spent(s)' <= Spent(s) /\ quota' = quota
        PROVE  Budgeted'
    <2>1. \A x \in Streams : x # s => Spent(x)' = Spent(x) /\ thread'[x].pc = thread[x].pc
      BY <1>y DEF Spent, Reserved
    <2>2. CASE s = "stdout"
      <3>1. Spent("stderr")' = Spent("stderr") /\ thread'["stderr"].pc = thread["stderr"].pc
        BY <2>1, <2>2 DEF Streams
      <3> QED BY <1>x, <1>y, <2>2, <3>1 DEF Budgeted, Streams
    <2>3. CASE s = "stderr"
      <3>1. Spent("stdout")' = Spent("stdout") /\ thread'["stdout"].pc = thread["stdout"].pc
        BY <2>1, <2>3 DEF Streams
      <3> QED BY <1>x, <1>y, <2>3, <3>1 DEF Budgeted, Streams
    <2> QED BY <2>2, <2>3 DEF Streams
  <1>z. ASSUME UNCHANGED <<quota, thread, log>> PROVE Budgeted'
    BY <1>z DEF Budgeted, Spent, Reserved
  <1>1. ASSUME NEW s \in Streams, CommandWrites(s) PROVE Budgeted'
    BY <1>1, <1>z DEF CommandWrites
  <1>2. ASSUME NEW s \in Streams, Drains(s) PROVE Budgeted'
    <2>1. UNCHANGED <<quota, log>> /\ thread[s].pc = "read"
      BY <1>2 DEF Drains
    <2>2. \A x \in Streams : x # s => thread'[x] = thread[x]
      BY <1>2 DEF Drains, DrainTypes
    <2>3. thread'[s].pc # "write"
      BY <1>2 DEF Drains, DrainTypes, ToRead
    <2>4. Spent(s)' = Spent(s)
      BY <2>1, <2>3 DEF Spent, Reserved
    <2> QED BY <1>x, <1>y, <2>1, <2>2, <2>4
  <1>3. ASSUME NEW s \in Streams, Reserves(s) PROVE Budgeted'
    <2> DEFINE t == thread[s]
               k == MayKeep(t)
    <2>1. UNCHANGED log /\ t.pc = "reserve" /\ t \in Threads
      BY <1>3 DEF Reserves, DrainTypes
    <2>2. k \in Nat /\ quota \in Nat
      <3>1. t.count \in Nat
        BY <2>1 DEF Threads
      <3>2. k \in 0 .. t.count
        BY KeptIsLess
      <3> QED BY <1>x, <3>1, <3>2
    <2>3. \A x \in Streams : x # s => thread'[x] = thread[x]
      BY <1>3 DEF Reserves, DrainTypes
    <2>4. \A v : thread' = [thread EXCEPT ![s] = v] => thread'[s] = v
      BY DEF DrainTypes
    <2>5. \/ quota' = quota + k /\ thread'[s] = IF k = 0 THEN ToRead ELSE [t EXCEPT !.pc = "write", !.kept = k]
          \/ quota' = quota /\ thread'[s] = [t EXCEPT !.used = quota]
      BY <1>3, <2>4 DEF Reserves
    <2>6. /\ ToRead.pc = "read" /\ [t EXCEPT !.used = quota].pc = "reserve"
          /\ [t EXCEPT !.pc = "write", !.kept = k].pc = "write"
          /\ [t EXCEPT !.pc = "write", !.kept = k].kept = k
      BY <2>1 DEF Threads, ToRead
    <2> HIDE DEF k, t
    <2>7. Len(log[s]) \in Nat /\ Spent(s) = Len(log[s])
      BY <2>1 DEF Spent, Reserved, DrainTypes, t
    <2>8. \/ quota' = quota + k /\ Spent(s)' = Len(log[s]) + k
          \/ quota' = quota /\ Spent(s)' = Len(log[s])
      <3>1. CASE quota' = quota + k /\ k = 0 /\ thread'[s] = ToRead
        BY <2>1, <2>2, <2>6, <2>7, <3>1 DEF Spent, Reserved
      <3>2. CASE quota' = quota + k /\ thread'[s] = [t EXCEPT !.pc = "write", !.kept = k]
        <4>1. thread'[s].pc = "write" /\ thread'[s].kept = k
          BY <2>6, <3>2
        <4> QED BY <2>1, <3>2, <4>1 DEF Spent, Reserved
      <3>3. CASE quota' = quota /\ thread'[s] = [t EXCEPT !.used = quota]
        <4>1. thread'[s].pc = "reserve"
          BY <2>6, <3>3
        <4> QED BY <2>1, <2>7, <3>3, <4>1 DEF Spent, Reserved
      <3> QED BY <2>5, <3>1, <3>2, <3>3
    <2>9. Spent(s)' \in Nat /\ quota' \in Nat /\ Spent(s)' - Spent(s) = quota' - quota
      BY <2>2, <2>7, <2>8
    <2> QED BY <1>y, <2>1, <2>3, <2>9 DEF t
  <1>4. ASSUME NEW s \in Streams, Writes(s) PROVE Budgeted'
    <2> DEFINE t == thread[s]
    <2>1. UNCHANGED quota /\ t.pc = "write" /\ t.kept \in Nat
      BY <1>4 DEF Writes, DrainTypes, Threads
    <2>2. \A n \in 0 .. t.kept : Len(log[s] \o Chunk(s, n)) = Len(log[s]) + n
      BY <2>1, Beginning
    <2>3. \A x \in Streams : x # s => log'[x] = log[x] /\ thread'[x] = thread[x]
      BY <1>4 DEF Writes, DrainTypes
    <2>4. Len(log[s]) \in Nat /\ Spent(s) = Len(log[s]) + t.kept
      BY <2>1 DEF Spent, Reserved, DrainTypes
    <2>5. CASE /\ log' = [log EXCEPT ![s] = @ \o Chunk(s, t.kept)]
               /\ thread' = [thread EXCEPT ![s] = ToRead]
      <3>1. log'[s] = log[s] \o Chunk(s, t.kept) /\ thread'[s].pc = "read"
        BY <2>5 DEF DrainTypes, ToRead
      <3>2. Len(log'[s]) = Len(log[s]) + t.kept
        <4>1. t.kept \in 0 .. t.kept
          BY <2>1
        <4> QED BY <2>2, <3>1, <4>1
      <3>3. Spent(s)' = Spent(s)
        <4>1. Spent(s)' = Len(log'[s]) + 0
          BY <3>1 DEF Spent, Reserved
        <4> QED BY <2>1, <2>4, <3>2, <4>1
      <3> QED BY <1>x, <1>y, <2>1, <2>3, <3>3
    <2>6. CASE \E n \in 0 .. t.kept - 1 :
                  /\ log' = [log EXCEPT ![s] = @ \o Chunk(s, n)]
                  /\ thread' = [thread EXCEPT ![s] = [ToRead EXCEPT !.pc = "failed"]]
      <3>1. PICK n \in 0 .. t.kept - 1 :
                  /\ log' = [log EXCEPT ![s] = @ \o Chunk(s, n)]
                  /\ thread' = [thread EXCEPT ![s] = [ToRead EXCEPT !.pc = "failed"]]
        BY <2>6
      <3>2. log'[s] = log[s] \o Chunk(s, n) /\ thread'[s].pc = "failed"
        BY <3>1 DEF DrainTypes, ToRead
      <3>3. n \in 0 .. t.kept /\ n \in Nat /\ n <= t.kept
        BY <2>1
      <3>4. Len(log'[s]) = Len(log[s]) + n
        BY <2>2, <3>2, <3>3
      <3>5. Spent(s)' = Len(log[s]) + n
        BY <2>4, <3>2, <3>3, <3>4 DEF Spent, Reserved
      <3>6. Spent(s)' \in Nat /\ Spent(s)' <= Spent(s)
        BY <2>1, <2>4, <3>3, <3>5
      <3> QED BY <1>x, <1>y, <2>1, <2>3, <3>2, <3>6
    <2> QED BY <1>4, <2>5, <2>6 DEF Writes
  <1>5. CASE CommandStops \/ RunnerEnds \/ RunnerDies
    BY <1>5, <1>z DEF CommandStops, RunnerEnds, RunnerDies
  <1>6. CASE ReadsStdout \/ ReadsStderr \/ \E most \in Pages : Asks(most)
    BY <1>6, <1>z DEF ReadsStdout, ReadsStderr, Asks, draining
  <1> QED BY <1>1, <1>2, <1>3, <1>4, <1>5, <1>6 DEF LogsNext

(* A job that the client was told is over has no runner.                   *)
LEMMA ToldIsOver ==
  ASSUME AskTypes, StatusTrue, told.state # "running"
  PROVE  supervisor # "alive"
  BY DEF AskTypes, StatusTrue, Standings

LEMMA StatusTrueStays ==
  ASSUME DrainTypes, AskTypes, StatusTrue, LogsNext
  PROVE  StatusTrue'
  <1>1. ASSUME NEW s \in Streams, CommandWrites(s) \/ Drains(s) \/ Reserves(s) \/ Writes(s)
        PROVE  StatusTrue'
    <2>1. supervisor = "alive" /\ UNCHANGED <<supervisor, status, told>>
      BY <1>1 DEF CommandWrites, Drains, Reserves, Writes, asking
    <2> QED BY <2>1 DEF StatusTrue
  <1>2. CASE CommandStops
    BY <1>2 DEF CommandStops, StatusTrue, asking
  <1>3. CASE RunnerEnds
    <2>1. /\ supervisor = "alive" /\ UNCHANGED <<told, thread, observed, retained>>
          /\ \/ supervisor' = "dead" /\ UNCHANGED status
             \/ /\ \A s \in Streams : thread[s].pc = "done"
                /\ supervisor' = "recorded"
                /\ status' = [state |-> "ended",
                              truncated |-> [s \in Streams |-> retained[s] < observed[s]]]
      BY <1>3 DEF RunnerEnds, asking
    <2>2. told.state = "running" /\ status.state = "running"
      BY <2>1 DEF StatusTrue, AskTypes, Standings
    <2>3. CASE supervisor' = "dead" /\ UNCHANGED status
      BY <2>1, <2>2, <2>3 DEF StatusTrue
    <2>4. CASE /\ \A s \in Streams : thread[s].pc = "done"
               /\ supervisor' = "recorded"
               /\ status' = [state |-> "ended",
                             truncated |-> [s \in Streams |-> retained[s] < observed[s]]]
      <3>1. status'.state = "ended" /\ \A s \in Streams : status'.truncated[s] <=> retained[s] < observed[s]
        BY <2>4
      <3> QED BY <2>1, <2>2, <2>4, <3>1 DEF StatusTrue
    <2> QED BY <2>1, <2>3, <2>4
  <1>4. CASE RunnerDies
    BY <1>4 DEF RunnerDies, StatusTrue, asking
  <1>5. ASSUME NEW most \in Pages, Asks(most) PROVE StatusTrue'
    <2>1. /\ status' = IF supervisor = "dead" THEN [status EXCEPT !.state = "lost"] ELSE status
          /\ told' = status' /\ UNCHANGED <<supervisor, thread, observed, retained>>
      BY <1>5 DEF Asks, draining
    <2>2. CASE supervisor = "dead"
      <3>1. status'.state = "lost"
        BY <2>1, <2>2 DEF AskTypes, Standings
      <3> QED BY <2>1, <2>2, <3>1 DEF StatusTrue
    <2>3. CASE supervisor # "dead"
      BY <2>1, <2>3 DEF StatusTrue
    <2> QED BY <2>2, <2>3
  <1>6. CASE ReadsStdout \/ ReadsStderr
    <2>1. UNCHANGED <<supervisor, thread, observed, retained, status, told>>
      BY <1>6 DEF ReadsStdout, ReadsStderr, draining
    <2> QED BY <2>1 DEF StatusTrue
  <1> QED BY <1>1, <1>2, <1>3, <1>4, <1>5, <1>6 DEF LogsNext

LEMMA Lengths ==
  ASSUME DrainTypes, AskTypes
  PROVE  /\ "stdout" \in Streams /\ "stderr" \in Streams
         /\ \A s \in Streams : /\ log[s] \in Seq(Nat) /\ Len(log[s]) \in Nat
                               /\ got[s] \in Seq(Nat) /\ Len(got[s]) \in Nat
                               /\ offset[s] \in Nat
         /\ page.bytes \in Seq(Nat) /\ Len(page.bytes) \in Nat
  <1>1. \A s \in Streams : log[s] \in Seq(Nat)
    BY DEF DrainTypes
  <1>2. (\A s \in Streams : got[s] \in Seq(Nat) /\ offset[s] \in Nat) /\ page.bytes \in Seq(Nat)
    BY DEF AskTypes
  <1>3. \A q \in Seq(Nat) : Len(q) \in Nat
    OBVIOUS
  <1> QED BY <1>1, <1>2, <1>3 DEF Streams

(* What a step of the runner does to a client: the files get longer, and   *)
(* only those of a job that it was told goes on.                           *)
LEMMA PagingWaits ==
  ASSUME DrainTypes, AskTypes, Paging, UNCHANGED asking,
         \A s \in Streams : Len(log'[s]) \in Nat /\ Len(log'[s]) >= Len(log[s]),
         told.state # "running" => UNCHANGED log
  PROVE  Paging'
  <1>1. UNCHANGED <<client, told, budget, page, offset, got>>
    BY DEF asking
  <1>2. /\ "stdout" \in Streams
        /\ \A s \in Streams : Len(log[s]) \in Nat /\ Len(got[s]) \in Nat /\ offset[s] \in Nat
        /\ Len(page.bytes) \in Nat
    BY Lengths
  <1>3. ASSUME NEW s \in Streams PROVE Paged(s)'
    <2>1. client = "complete" => UNCHANGED log
      BY DEF Paging
    <2> QED BY <1>1, <1>2, <2>1 DEF Paging, Paged
  <1>4. PageTrue'
    <2>1. Len(page.bytes) \in Nat /\ offset["stdout"] \in Nat /\ Len(log["stdout"]) \in Nat
          /\ Len(log'["stdout"]) \in Nat /\ Len(log["stdout"]) <= Len(log'["stdout"])
      BY <1>2
    <2> SUFFICES ASSUME client = "at stderr" PROVE PageTrue'
      BY <1>1 DEF PageTrue
    <2>2. /\ offset["stdout"] + Len(page.bytes) <= Len(log["stdout"])
          /\ Counts(page.bytes, offset["stdout"])
          /\ page.eof /\ told.state # "running" =>
               offset["stdout"] + Len(page.bytes) = Len(log["stdout"])
      BY DEF Paging, PageTrue
    <2>3. offset["stdout"] + Len(page.bytes) <= Len(log'["stdout"])
      BY <2>1, <2>2, StillWithin
    <2> QED BY <1>1, <2>2, <2>3 DEF PageTrue
  <1> QED BY <1>1, <1>3, <1>4 DEF Paging

LEMMA PagingStays ==
  ASSUME JobLogsAssumption, DrainTypes, AskTypes, \A s \in Streams : Drained(s), StatusTrue,
         Paging, LogsNext
  PROVE  Paging'
  <1>x. \A s \in Streams : /\ Len(log[s]) \in Nat /\ got[s] \in Seq(Nat) /\ offset[s] \in Nat
                           /\ Len(got[s]) \in Nat /\ Paged(s)
    BY Lengths DEF Paging
  <1>y. "stdout" \in Streams /\ "stderr" \in Streams
    BY DEF Streams
  <1>z. ASSUME UNCHANGED <<log, asking>> PROVE Paging'
    BY <1>x, <1>z, PagingWaits
  <1>1. ASSUME NEW s \in Streams, CommandWrites(s) \/ Drains(s) \/ Reserves(s) PROVE Paging'
    BY <1>1, <1>z DEF CommandWrites, Drains, Reserves
  <1>2. ASSUME NEW s \in Streams, Writes(s) PROVE Paging'
    <2>1. supervisor = "alive" /\ thread[s].pc = "write" /\ UNCHANGED asking
          /\ thread[s].kept \in Nat
      BY <1>2 DEF Writes, DrainTypes, Threads
    <2>2. told.state = "running"
      BY <2>1, ToldIsOver
    <2>3. \A n \in 0 .. thread[s].kept : Len(log[s] \o Chunk(s, n)) = Len(log[s]) + n
      BY <2>1, Beginning
    <2>4. PICK n \in 0 .. thread[s].kept : log' = [log EXCEPT ![s] = @ \o Chunk(s, n)]
      <3>1. /\ thread[s].kept \in 0 .. thread[s].kept
            /\ \A n \in 0 .. thread[s].kept - 1 : n \in 0 .. thread[s].kept
        BY <2>1
      <3> QED BY <1>2, <3>1 DEF Writes
    <2>5. n \in Nat /\ log'[s] = log[s] \o Chunk(s, n) /\ \A x \in Streams : x # s => log'[x] = log[x]
      <3>1. log \in [Streams -> Seq(Nat)] /\ n \in Nat
        BY <2>1 DEF DrainTypes
      <3>2. log'[s] = log[s] \o Chunk(s, n)
        BY <2>4, <3>1, SMTT(30)
      <3>3. \A x \in Streams : x # s => log'[x] = log[x]
        BY <2>4, <3>1
      <3> QED BY <3>1, <3>2, <3>3
    <2>6. \A x \in Streams : Len(log'[x]) \in Nat /\ Len(log'[x]) >= Len(log[x])
      <3>1. Len(log'[s]) = Len(log[s]) + n
        BY <2>3, <2>5
      <3>2. Len(log'[s]) \in Nat /\ Len(log'[s]) >= Len(log[s])
        BY <1>x, <2>5, <3>1
      <3>3. \A x \in Streams : x # s => Len(log'[x]) = Len(log[x])
        BY <2>5
      <3> QED BY <1>x, <3>2, <3>3
    <2> QED BY <2>1, <2>2, <2>6, PagingWaits
  <1>3. CASE CommandStops \/ RunnerEnds \/ RunnerDies
    BY <1>3, <1>z DEF CommandStops, RunnerEnds, RunnerDies
  <1>4. ASSUME NEW most \in Pages, Asks(most) PROVE Paging'
    <2>1. client' = "at stdout" /\ UNCHANGED <<log, offset, got>>
      BY <1>4 DEF Asks, draining
    <2> QED BY <2>1 DEF Paging, Paged, PageTrue
  <1>5. CASE ReadsStdout
    <2>1. PICK p : p = PageOf("stdout")
      OBVIOUS
    <2>2. client' = "at stderr" /\ page' = p /\ UNCHANGED <<log, offset, got, told>>
      BY <1>5, <2>1 DEF ReadsStdout, draining
    <2>3. /\ offset["stdout"] + Len(p.bytes) <= Len(log["stdout"])
          /\ Counts(p.bytes, offset["stdout"])
          /\ p.eof => offset["stdout"] + Len(p.bytes) = Len(log["stdout"])
      BY <1>x, <1>y, <2>1, PageFits
    <2>4. PageTrue'
      BY <2>2, <2>3 DEF PageTrue
    <2> QED BY <2>2, <2>4 DEF Paging, Paged
  <1>6. CASE ReadsStderr
    <2>1. PICK n \in Parts :
            Shown([s \in Streams |-> IF s = "stdout" THEN page ELSE PageOf(s)], n)
      BY <1>6 DEF ReadsStderr
    <2>2. PICK pages : pages = [s \in Streams |-> IF s = "stdout" THEN page ELSE PageOf(s)]
      OBVIOUS
    <2>3. /\ client = "at stderr" /\ UNCHANGED <<log, told>>
      BY <1>6 DEF ReadsStderr, draining
    <2>4. \A s \in Streams :
            /\ pages[s].bytes \in Seq(Nat) /\ offset[s] + Len(pages[s].bytes) <= Len(log[s])
            /\ Counts(pages[s].bytes, offset[s])
            /\ pages[s].eof /\ told.state # "running" => offset[s] + Len(pages[s].bytes) = Len(log[s])
      <3>1. pages["stdout"] = page /\ pages["stderr"] = PageOf("stderr")
        BY <2>2 DEF Streams
      <3>2. /\ page.bytes \in Seq(Nat) /\ offset["stdout"] + Len(page.bytes) <= Len(log["stdout"])
            /\ Counts(page.bytes, offset["stdout"])
            /\ page.eof /\ told.state # "running" =>
                 offset["stdout"] + Len(page.bytes) = Len(log["stdout"])
        BY <2>3 DEF Paging, PageTrue, AskTypes
      <3>3. LET p == PageOf("stderr") IN
            /\ p.bytes \in Seq(Nat) /\ offset["stderr"] + Len(p.bytes) <= Len(log["stderr"])
            /\ Counts(p.bytes, offset["stderr"])
            /\ p.eof => offset["stderr"] + Len(p.bytes) = Len(log["stderr"])
        BY <1>x, <1>y, PageFits
      <3> QED BY <3>1, <3>2, <3>3 DEF Streams
    <2>5. PICK shown : shown = [s \in Streams |-> Cut(pages[s].bytes, n)]
      OBVIOUS
    <2>6. PICK ends \in BOOLEAN :
            ends <=> \A s \in Streams : pages[s].eof /\ shown[s] = pages[s].bytes
      OBVIOUS
    <2>7. /\ got' = [s \in Streams |-> got[s] \o shown[s]]
          /\ offset' = [s \in Streams |-> offset[s] + Len(shown[s])]
          /\ client' = IF ends /\ told.state # "running" THEN "complete" ELSE "idle"
      BY <2>1, <2>2, <2>5, <2>6 DEF Shown
    <2>8. ASSUME NEW s \in Streams PROVE Paged(s)'
      <3>1. shown[s] = Cut(pages[s].bytes, n)
        BY <2>5
      <3>2. /\ shown[s] \in Seq(Nat) /\ Len(shown[s]) \in Nat /\ Len(pages[s].bytes) \in Nat
            /\ Len(shown[s]) <= Len(pages[s].bytes)
            /\ Counts(shown[s], offset[s])
        <4>1. shown[s] \in Seq(Nat) /\ Len(shown[s]) <= Len(pages[s].bytes) /\ Counts(shown[s], offset[s])
          BY <1>x, <2>4, <3>1, CutIsPart
        <4>2. pages[s].bytes \in Seq(Nat)
          BY <2>4
        <4> QED BY <4>1, <4>2
      <3>3. Counts(got[s], 0) /\ offset[s] = Len(got[s])
        BY <1>x DEF Paged
      <3>4. Len(got[s] \o shown[s]) = Len(got[s]) + Len(shown[s]) /\ Counts(got[s] \o shown[s], 0)
        BY <1>x, <3>2, <3>3, Joined
      <3>5. got'[s] = got[s] \o shown[s] /\ offset'[s] = offset[s] + Len(shown[s])
        BY <2>7
      <3>6. Len(got[s]) + Len(shown[s]) <= Len(log[s])
        <4>1. /\ offset[s] + Len(pages[s].bytes) <= Len(log[s])
              /\ Len(log[s]) \in Nat /\ offset[s] \in Nat
          BY <1>x, <2>4
        <4>2. \A a, b, c, d \in Nat : a + b <= d /\ c <= b => a + c <= d
          OBVIOUS
        <4> QED BY <3>2, <3>3, <4>1, <4>2
      <3>7. client' = "complete" => Len(got[s]) + Len(shown[s]) = Len(log[s])
        <4> SUFFICES ASSUME client' = "complete" PROVE Len(got[s]) + Len(shown[s]) = Len(log[s])
          OBVIOUS
        <4>1. ends /\ told.state # "running"
          BY <2>7
        <4>2. pages[s].eof /\ shown[s] = pages[s].bytes
          BY <2>6, <4>1
        <4> QED BY <2>4, <3>3, <4>1, <4>2
      <3> QED BY <2>3, <3>3, <3>4, <3>5, <3>6, <3>7 DEF Paged
    <2>9. client' # "at stderr" /\ (client' = "complete" => told'.state # "running")
      BY <2>3, <2>7
    <2> QED BY <2>8, <2>9 DEF Paging, PageTrue
  <1> QED BY <1>1, <1>2, <1>3, <1>4, <1>5, <1>6 DEF LogsNext

-----------------------------------------------------------------------------
LEMMA LogsInvInit == JobLogsAssumption /\ LogsInit => LogsInv
  <1> SUFFICES ASSUME JobLogsAssumption, LogsInit PROVE LogsInv
    OBVIOUS
  <1>1. "stdout" \in Streams /\ "stderr" \in Streams /\ <<>> \in Seq(Nat) /\ Len(<<>>) = 0
    BY DEF Streams
  <1>2. \A x : Each(x) = [s \in Streams |-> x] /\ \A s \in Streams : Each(x)[s] = x
    BY DEF Each
  <1>3. DrainTypes
    <2>1. ToRead \in Threads
      BY DEF ToRead, Threads
    <2>2. Each(0) \in [Streams -> Nat] /\ Each(ToRead) \in [Streams -> Threads]
          /\ Each(<<>>) \in [Streams -> Seq(Nat)]
      BY <1>1, <2>1 DEF Each
    <2> QED BY <2>2 DEF LogsInit, DrainTypes, JobLogsAssumption
  <1>4. AskTypes
    BY <1>1, <1>2 DEF LogsInit, AskTypes, Standings, NoPage
  <1>5. \A s \in Streams : Drained(s)
    BY <1>1, <1>2 DEF LogsInit, Drained, Counts, ToRead
  <1>6. Budgeted
    BY <1>1, <1>2 DEF LogsInit, Budgeted, Spent, Reserved, ToRead
  <1>7. StatusTrue
    BY DEF LogsInit, StatusTrue
  <1>8. Paging
    BY <1>1, <1>2 DEF LogsInit, Paging, Paged, PageTrue, Counts
  <1> QED BY <1>3, <1>4, <1>5, <1>6, <1>7, <1>8 DEF LogsInv

LEMMA LogsInvStep == JobLogsAssumption /\ LogsInv /\ [LogsNext]_logVars => LogsInv'
  <1> SUFFICES ASSUME JobLogsAssumption, LogsInv, [LogsNext]_logVars PROVE LogsInv'
    OBVIOUS
  <1> USE DEF LogsInv
  <1>1. CASE LogsNext
    BY <1>1, DrainTypesStay, AskTypesStay, DrainedStays, BudgetedStays, StatusTrueStays, PagingStays
  <1>2. CASE UNCHANGED logVars
    <2>1. UNCHANGED <<running, written, supervisor, quota, thread, observed, retained, log,
                      status, client, told, budget, page, offset, got>>
      BY <1>2 DEF logVars, draining, asking
    <2>2. DrainTypes' /\ AskTypes' /\ StatusTrue'
      BY <2>1 DEF DrainTypes, AskTypes, StatusTrue
    <2>3. \A s \in Streams : Drained(s)'
      BY <2>1 DEF Drained
    <2>4. Budgeted' /\ Paging'
      BY <2>1 DEF Budgeted, Spent, Reserved, Paging, Paged, PageTrue
    <2> QED BY <2>2, <2>3, <2>4
  <1> QED BY <1>1, <1>2

(* What the draining threads, the budget they share, the state file and the*)
(* client's offsets have to do with each other stays true at every step:   *)
(* drain_stream and reserve_quota between any two accesses to the budget,  *)
(* JobStore::logs between any two of its reads, a full disk, a runner that *)
(* dies.                                                                   *)
THEOREM LogsInvariant == LogsSpec => []LogsInv
  <1>1. JobLogsAssumption
    BY JobLogsAssumption
  <1> QED BY <1>1, LogsInvInit, LogsInvStep, PTL DEF LogsSpec

LEMMA LogsInvIsEnough == JobLogsAssumption /\ LogsInv => LogsAreTrue
  <1> SUFFICES ASSUME JobLogsAssumption, LogsInv PROVE LogsAreTrue
    OBVIOUS
  <1> USE DEF LogsInv
  <1>1. /\ "stdout" \in Streams /\ "stderr" \in Streams
        /\ \A s \in Streams : /\ log[s] \in Seq(Nat) /\ Len(log[s]) \in Nat /\ Reserved(s) \in Nat
                              /\ got[s] \in Seq(Nat) /\ Paged(s) /\ Drained(s)
    <2>1. \A s \in Streams : Reserved(s) \in Nat
      BY DEF DrainTypes, Reserved, Threads
    <2> QED BY <2>1, Lengths DEF Paging
  <1>2. Len(log["stdout"]) + Len(log["stderr"]) <= Maximum
    <2>1. Spent("stdout") + Spent("stderr") <= quota
      BY DEF Budgeted
    <2>2. quota \in Nat /\ quota <= Maximum /\ Maximum \in Nat
      BY JobLogsAssumption DEF DrainTypes, JobLogsAssumption
    <2>3. /\ Len(log["stdout"]) \in Nat /\ Reserved("stdout") \in Nat
          /\ Len(log["stderr"]) \in Nat /\ Reserved("stderr") \in Nat
      BY <1>1
    <2>4. \A a, b, c, d, m, q \in Nat : (a + b) + (c + d) <= q /\ q <= m => a + c <= m
      OBVIOUS
    <2> QED BY <2>1, <2>2, <2>3, <2>4 DEF Spent
  <1>3. \A s \in Streams : \A i \in 1 .. Len(log[s]) : log[s][i] = i
    BY <1>1 DEF Drained, Counts
  <1>4. ASSUME client = "complete"
        PROVE  /\ got = log /\ supervisor # "alive"
               /\ told.state = "ended" =>
                    /\ \A s \in Streams : told.truncated[s] <=> Len(got[s]) < written[s]
                    /\ (\E s \in Streams : told.truncated[s]) =>
                           Len(got["stdout"]) + Len(got["stderr"]) = Maximum
    <2>1. \A s \in Streams : got[s] = log[s]
      <3>1. \A s \in Streams : Counts(got[s], 0) /\ Counts(log[s], 0) /\ Len(got[s]) = Len(log[s])
        BY <1>1, <1>4 DEF Paged, Drained
      <3> QED BY <1>1, <3>1, SameCount
    <2>2. got = log
      <3>1. got \in [Streams -> Seq(Nat)] /\ log \in [Streams -> Seq(Nat)]
        BY DEF DrainTypes, AskTypes
      <3> QED BY <2>1, <3>1
    <2>3. supervisor # "alive"
      BY <1>4, ToldIsOver DEF Paging
    <2>4. ASSUME told.state = "ended"
          PROVE  /\ \A s \in Streams : told.truncated[s] <=> Len(got[s]) < written[s]
                 /\ (\E s \in Streams : told.truncated[s]) =>
                        Len(got["stdout"]) + Len(got["stderr"]) = Maximum
      <3>1. \A s \in Streams : /\ thread[s].pc = "done"
                               /\ told.truncated[s] <=> retained[s] < observed[s]
        BY <2>4 DEF StatusTrue
      <3>2. \A s \in Streams : /\ retained[s] = Len(log[s]) /\ observed[s] = written[s]
                               /\ retained[s] = observed[s] \/ quota = Maximum
        BY <1>1, <3>1 DEF Drained
      <3>3. \A s \in Streams : retained[s] \in Nat /\ observed[s] \in Nat
        BY DEF DrainTypes
      <3>4. (\E s \in Streams : told.truncated[s]) => quota = Maximum
        BY <3>1, <3>2, <3>3
      <3>5. Len(log["stdout"]) + Len(log["stderr"]) = quota
        <4>1. Spent("stdout") = Len(log["stdout"]) + 0 /\ Spent("stderr") = Len(log["stderr"]) + 0
          BY <1>1, <3>1 DEF Spent, Reserved, Streams
        <4>2. Spent("stdout") + Spent("stderr") = quota
          BY <3>1 DEF Budgeted
        <4>3. Len(log["stdout"]) \in Nat /\ Len(log["stderr"]) \in Nat
          BY <1>1
        <4>4. Spent("stdout") = Len(log["stdout"]) /\ Spent("stderr") = Len(log["stderr"])
          BY <4>1, <4>3
        <4> QED BY <4>2, <4>4
      <3> QED BY <2>2, <3>1, <3>2, <3>4, <3>5
    <2> QED BY <2>2, <2>3, <2>4
  <1> QED BY <1>2, <1>3, <1>4 DEF LogsAreTrue

(* The logs stay in the job's budget and hold the beginning of each stream;*)
(* a client that has paged to the end of a job that is over has all of     *)
(* them, and of a job that was not lost it knows rightly whether anything  *)
(* is missing, which is so only because the budget was used up.            *)
THEOREM LogsStayTrue == LogsSpec => []LogsAreTrue
  <1>1. JobLogsAssumption
    BY JobLogsAssumption
  <1> QED BY <1>1, LogsInvariant, LogsInvIsEnough, PTL

=============================================================================
