---------------------------- MODULE SessionProofs ----------------------------
(* Safety of a host session, for every number of requests, every mix of    *)
(* commands and searches, every size of the streams and whatever goes      *)
(* wrong between the two ends.                                             *)
EXTENDS SessionSystem, FiniteSetTheorems, TLAPS

\* Sequences of frames.
LEMMA AppendType ==
  ASSUME NEW S, NEW s \in Seq(S), NEW f \in S
  PROVE  Append(s, f) \in Seq(S)
OBVIOUS

LEMMA TailType ==
  ASSUME NEW S, NEW s \in Seq(S), s # <<>>
  PROVE  Tail(s) \in Seq(S) /\ Head(s) \in S
OBVIOUS

LEMMA PrefixType ==
  ASSUME NEW S, NEW s \in Seq(S), NEW n \in 0 .. Len(s)
  PROVE  SubSeq(s, 1, n) \in Seq(S)
OBVIOUS

LEMMA FrameTypes ==
  ASSUME NEW r \in Request, NEW b \in BOOLEAN
  PROVE  /\ Frame("OPEN", r, FALSE) \in UpFrames
         /\ Frame("CANCEL", r, FALSE) \in UpFrames
         /\ \A kind \in {"READY", "STDOUT", "EXIT", "ERROR"} :
              Frame(kind, r, b) \in DownFrames
BY DEF Frame, UpFrames, DownFrames
-----------------------------------------------------------------------------
(* Types, without the bound of what is received, which is counted below.   *)
Kinds == WireTypeOK /\ HostKinds /\ HelperTypeOK

LEMMA InitTypes == Init => Kinds
<1>1. None \in Outcome \cup {None} /\ <<>> \in Seq(UpFrames) /\ <<>> \in Seq(DownFrames)
  OBVIOUS
<1>2. MaxOutput \in 0 .. MaxOutput
  BY WireAssumption DEF WireAssumption
<1>3. Init => WireTypeOK
  BY <1>1 DEF Init, WireInit, WireTypeOK
<1>4. Init => HostKinds
  <2>1. ASSUME Init
        PROVE  /\ call \in [Request -> {"idle", "entered", "sending", "admission", "response",
                             "cancelling", "delivering", "grace", "failing", "done"}]
               /\ result \in [Request -> Outcome \cup {None}]
               /\ ready \in [Request -> BOOLEAN]
               /\ reply \in [Request -> Outcome \cup {None}]
               /\ received \in [Request -> Nat]
    BY <1>1, <2>1 DEF Init, HostInit
  <2> QED
    BY <1>1, <2>1 DEF Init, HostInit, HostKinds
<1>5. Init => HelperTypeOK
  BY <1>2 DEF Init, HelperInit, HelperTypeOK
<1> QED
  BY <1>3, <1>4, <1>5 DEF Kinds

LEMMA CallTypes ==
  ASSUME Kinds, NEW r \in Request, CallStep(r)
  PROVE  HostKinds' /\ WireTypeOK'
<1>0. WireTypeOK /\ HostKinds
  BY DEF Kinds
<1>1. ASSUME UNCHANGED wireVars, UNCHANGED queue
      PROVE  WireTypeOK' /\ queue' \in Seq(UpFrames)
  BY <1>0, <1>1 DEF WireTypeOK, HostKinds, wireVars
<1>2. CASE execute(r) \/ CheckOpen(r) \/ TakeReady(r) \/ GiveUp(r)
           \/ CancelUndelivered(r) \/ CancelUnconfirmed(r)
  <2>1. UNCHANGED wireVars /\ UNCHANGED queue
    BY <1>2 DEF execute, CheckOpen, TakeReady, GiveUp, CancelUndelivered, CancelUnconfirmed
  <2>2. CASE execute(r) \/ TakeReady(r)
    BY <1>0, <1>1, <2>1, <2>2 DEF HostKinds, execute, TakeReady, Goes
  <2>4. CASE CheckOpen(r)
    <3>1. call' = [call EXCEPT ![r] = "sending"] \/ call' = [call EXCEPT ![r] = "delivering"]
      BY <2>4 DEF CheckOpen, Goes
    <3>2. UNCHANGED <<result, ready, reply, pending, received, closed, failing, queue, tasks>>
      BY <2>4 DEF CheckOpen
    <3> QED
      BY <1>0, <1>1, <2>1, <3>1, <3>2 DEF HostKinds
  <2>3. CASE GiveUp(r)
    BY <1>0, <1>1, <2>1, <2>3 DEF HostKinds, GiveUp, Goes
  <2>5. CASE CancelUndelivered(r)
    BY <1>0, <1>1, <2>1, <2>5 DEF HostKinds, CancelUndelivered, Goes, BeginFailure
  <2>6. CASE CancelUnconfirmed(r)
    BY <1>0, <1>1, <2>1, <2>6 DEF HostKinds, CancelUnconfirmed, Goes, BeginFailure
  <2> QED
    BY <1>2, <2>2, <2>3, <2>4, <2>5, <2>6
<1>3. CASE SendOpen(r) \/ SendCancel(r)
  <2>1. UNCHANGED wireVars /\ queue' \in Seq(UpFrames)
    <3>1. \/ queue' = Append(queue, Frame("OPEN", r, FALSE))
          \/ queue' = Append(queue, Frame("CANCEL", r, FALSE))
      BY <1>3 DEF SendOpen, SendCancel
    <3>2. queue \in Seq(UpFrames)
      BY <1>0 DEF HostKinds
    <3> QED
      BY <1>3, <3>1, <3>2, AppendType, FrameTypes DEF SendOpen, SendCancel
  <2> QED
    BY <1>0, <1>3, <2>1 DEF HostKinds, WireTypeOK, wireVars, SendOpen, SendCancel, Goes
<1>4. CASE SendFails(r) \/ TakeReply(r) \/ CancelConfirmed(r)
  <2>1. UNCHANGED wireVars /\ UNCHANGED queue
    BY <1>4 DEF SendFails, TakeReply, CancelConfirmed
  <2>2. \E ok, b \in BOOLEAN : Returns(r, ok, b)
    <3>1. CASE SendFails(r)
      BY <3>1 DEF SendFails
    <3>2. CASE TakeReply(r) \/ CancelConfirmed(r)
      <4>1. reply[r] \in Outcome
        BY <1>0, <3>2 DEF HostKinds, TakeReply, CancelConfirmed
      <4>2. reply[r].ok \in BOOLEAN /\ reply[r].may \in BOOLEAN
        BY <4>1 DEF Outcome
      <4> QED
        BY <3>2, <4>2 DEF TakeReply, CancelConfirmed
    <3> QED
      BY <1>4, <3>1, <3>2
  <2>3. call' \in [Request -> {"idle", "entered", "sending", "admission", "response",
                             "cancelling", "delivering", "grace", "failing", "done"}]
    BY <1>0, <2>2 DEF HostKinds, Returns, Goes
  <2>4. result' \in [Request -> Outcome \cup {None}]
    BY <1>0, <2>2 DEF HostKinds, Returns, Outcome
  <2>5. reply' \in [Request -> Outcome \cup {None}]
    BY <1>0, <2>2 DEF HostKinds, Returns
  <2>6. /\ pending' \subseteq pending
        /\ UNCHANGED <<ready, received, closed, failing, tasks>>
    BY <1>4 DEF SendFails, TakeReply, CancelConfirmed
  <2> QED
    BY <1>0, <1>1, <2>1, <2>3, <2>4, <2>5, <2>6 DEF HostKinds
<1> QED
  BY <1>2, <1>3, <1>4 DEF CallStep

LEMMA HostTypes ==
  ASSUME Kinds, HostNext
  PROVE  HostKinds' /\ WireTypeOK'
<1>0. WireTypeOK /\ HostKinds
  BY DEF Kinds
<1>1. ASSUME NEW t \in failing, fail_all(t) PROVE HostKinds' /\ WireTypeOK'
  <2>1. [ok |-> FALSE, may |-> TRUE] \in Outcome
    BY DEF Outcome
  <2>2. /\ killed' \in BOOLEAN
        /\ UNCHANGED <<ready, received, closed, queue, tasks, up, down, link>>
        /\ pending' = {} /\ failing' \subseteq failing
    BY <1>0, <1>1 DEF fail_all, WireTypeOK
  <2>3. reply' \in [Request -> Outcome \cup {None}]
    BY <1>0, <1>1, <2>1 DEF fail_all, HostKinds
  <2>4. CASE t \in Request
    <3>1. /\ call' = [call EXCEPT ![t] = "done"]
          /\ result' = [result EXCEPT ![t] = [ok |-> FALSE, may |-> TRUE]]
      BY <1>1, <2>4 DEF fail_all, Goes
    <3> QED
      BY <1>0, <2>1, <2>2, <2>3, <3>1 DEF HostKinds, WireTypeOK
  <2>5. CASE t \notin Request
    <3>1. UNCHANGED <<call, result>>
      BY <1>1, <2>5 DEF fail_all
    <3> QED
      BY <1>0, <2>2, <2>3, <3>1 DEF HostKinds, WireTypeOK
  <2> QED
    BY <2>4, <2>5
<1>2. CASE retire_idle
  BY <1>0, <1>2 DEF retire_idle, HostKinds, WireTypeOK
<1>3. CASE WriterWrites
  <2>1. up' \in Seq(UpFrames) /\ queue' \in Seq(UpFrames)
    <3>1. /\ queue # <<>> /\ up' = Append(up, Head(queue)) /\ queue' = Tail(queue)
          /\ up \in Seq(UpFrames) /\ queue \in Seq(UpFrames)
      BY <1>0, <1>3 DEF WriterWrites, HostKinds, WireTypeOK
    <3> QED
      BY <3>1, AppendType, TailType
  <2> QED
    BY <1>0, <1>3, <2>1 DEF WriterWrites, HostKinds, WireTypeOK
<1>4. CASE WriterFails
  <2>1. queue' \in Seq(UpFrames)
    BY <1>4 DEF WriterFails
  <2> QED
    BY <1>0, <1>4, <2>1 DEF WriterFails, HostKinds, WireTypeOK, BeginFailure, wireVars
<1>5. CASE ReaderFails \/ child_loop
  <2>1. /\ closed' \in BOOLEAN
        /\ failing' \subseteq failing \cup {"reader", "child"} /\ tasks' \subseteq tasks
        /\ UNCHANGED <<call, result, ready, reply, pending, received, queue, wireVars>>
    BY <1>0, <1>5 DEF ReaderFails, child_loop, BeginFailure, HostKinds
  <2> QED
    BY <1>0, <2>1 DEF HostKinds, WireTypeOK, wireVars
<1>6. CASE dispatch_frame
  <2>1. /\ down \in Seq(DownFrames) /\ down # <<>> /\ down' = Tail(down)
        /\ Delivers(Head(down)) /\ Expected(Head(down))
        /\ UNCHANGED <<call, result, closed, failing, queue, tasks, up, link, killed>>
    BY <1>0, <1>6 DEF dispatch_frame, WireTypeOK
  <2>2. down' \in Seq(DownFrames) /\ Head(down) \in DownFrames
    BY <2>1, TailType
  <2>3. PICK f \in DownFrames : f = Head(down)
    BY <2>2
  <2>4. /\ f.kind \in {"READY", "STDOUT", "EXIT", "ERROR"} /\ f.id \in Request
        /\ f.may \in BOOLEAN
    BY DEF DownFrames
  <2>5. [ok |-> f.kind = "EXIT", may |-> f.may \/ f.kind = "ERROR"] \in Outcome
    BY <2>4 DEF Outcome
  <2>6. ready' \in [Request -> BOOLEAN]
    <3>1. ready' = ready \/ ready' = [ready EXCEPT ![f.id] = TRUE]
      BY <2>1, <2>3 DEF Delivers
    <3> QED
      BY <1>0, <2>4, <3>1 DEF HostKinds
  <2>7. received' \in [Request -> Nat]
    <3>1. received' = received \/ received' = [received EXCEPT ![f.id] = @ + 1]
      BY <2>1, <2>3 DEF Delivers
    <3> QED
      BY <1>0, <2>4, <3>1 DEF HostKinds
  <2>8. reply' \in [Request -> Outcome \cup {None}] /\ pending' \subseteq pending
    <3> DEFINE new == [ok |-> f.kind = "EXIT", may |-> f.may \/ f.kind = "ERROR"]
    <3>1. \/ UNCHANGED <<pending, reply>>
          \/ pending' = pending \ {f.id} /\ reply' = [reply EXCEPT ![f.id] = new]
      BY <2>1, <2>3 DEF Delivers
    <3>2. new \in Outcome
      BY <2>5
    <3> HIDE DEF new
    <3>3. reply \in [Request -> Outcome \cup {None}]
      BY <1>0 DEF HostKinds
    <3>4. CASE UNCHANGED <<pending, reply>>
      BY <3>3, <3>4
    <3>5. CASE pending' = pending \ {f.id} /\ reply' = [reply EXCEPT ![f.id] = new]
      BY <2>4, <3>2, <3>3, <3>5
    <3> QED
      BY <3>1, <3>4, <3>5
  <2> QED
    BY <1>0, <2>1, <2>2, <2>6, <2>7, <2>8 DEF HostKinds, WireTypeOK
<1> QED
  BY <1>1, <1>2, <1>3, <1>4, <1>5, <1>6, CallTypes DEF HostNext
-----------------------------------------------------------------------------
LEMMA HelperTypes ==
  ASSUME Kinds, HelperNext
  PROVE  HelperTypeOK' /\ WireTypeOK'
<1>0. WireTypeOK /\ HelperTypeOK
  BY DEF Kinds
<1>1. ASSUME NEW S PROVE Kills(S) => /\ shell' \in [Request -> BOOLEAN]
                                     /\ child' \in [Request -> Offspring \cup {None}]
  BY <1>0 DEF Kills, HelperTypeOK
<1>2. ASSUME NEW S PROVE Cancels(S) => /\ shell' \in [Request -> BOOLEAN]
                                       /\ child' \in [Request -> Offspring \cup {None}]
                                       /\ cancelled' \in [Request -> BOOLEAN]
  BY <1>0, <1>1 DEF Cancels, HelperTypeOK
<1>3. ASSUME NEW S, MainCancels(S)
      PROVE  /\ shell' \in [Request -> BOOLEAN]
             /\ child' \in [Request -> Offspring \cup {None}]
             /\ cancelled' \in [Request -> BOOLEAN]
             /\ worker' \in [Request -> {"none", "ready", "spawned", "waiting", "reaped",
                               "draining", "exiting", "sent", "gone"}]
  BY <1>0, <1>1, <1>3 DEF MainCancels, HelperTypeOK
<1>4. ASSUME NEW kind \in {"READY", "STDOUT", "EXIT", "ERROR"}, NEW r \in Request,
             NEW b \in BOOLEAN,
             \/ Sends(Frame(kind, r, b)) \/ WriteFails \/ UNCHANGED down
      PROVE  down' \in Seq(DownFrames)
  <2>1. down \in Seq(DownFrames) /\ Frame(kind, r, b) \in DownFrames
    BY <1>0, FrameTypes DEF WireTypeOK
  <2>2. down' = down \/ down' = Append(down, Frame(kind, r, b))
    BY <1>4 DEF Sends, WriteFails
  <2> QED
    BY <2>1, <2>2, AppendType
<1>5. up # <<>> => Tail(up) \in Seq(UpFrames) /\ Head(up).id \in Request
  <2>1. up # <<>> => Tail(up) \in Seq(UpFrames) /\ Head(up) \in UpFrames
    BY <1>0, TailType DEF WireTypeOK
  <2> QED
    BY <2>1 DEF UpFrames
<1>6. ASSUME NEW how \in {"ended", "stuck"}, Stops(how) PROVE HelperTypeOK'
  BY <1>0, <1>6 DEF Stops, HelperTypeOK
<1>7. UNCHANGED wireVars => WireTypeOK'
  BY <1>0 DEF WireTypeOK, wireVars
<1>8. CASE MainStep \/ HelperWedges
  <2>1. CASE HelperOpen
    <3>1. PICK r \in Request : r = Head(up).id
      BY <1>5, <2>1 DEF HelperOpen
    <3>2. Sends(Frame("ERROR", r, FALSE)) \/ Sends(Frame("READY", r, FALSE))
      BY <2>1, <3>1 DEF HelperOpen
    <3>3. down' \in Seq(DownFrames) /\ up' \in Seq(UpFrames) /\ UNCHANGED <<link, killed>>
      BY <1>4, <1>5, <2>1, <3>2 DEF HelperOpen
    <3>4. /\ active' \in {active, active \cup {r}}
          /\ worker' = worker \/ worker' = [worker EXCEPT ![r] = "ready"]
          /\ UNCHANGED <<main, cancelled, group, alive, may, shell, child, unwritten, pipe,
                         drain, stop>>
      BY <2>1, <3>1 DEF HelperOpen, Works
    <3>5. HelperTypeOK'
      BY <1>0, <3>4 DEF HelperTypeOK
    <3> QED
      BY <1>0, <3>3, <3>5 DEF WireTypeOK
  <2>2. CASE HelperFails
    <3>1. up' \in Seq(UpFrames)
      BY <2>2 DEF HelperFails
    <3> QED
      BY <1>0, <1>6, <2>2, <3>1 DEF HelperFails, WireTypeOK
  <2>3. CASE HelperCancel
    <3>1. PICK S : MainCancels(S)
      BY <2>3 DEF HelperCancel
    <3> QED
      BY <1>0, <1>3, <1>5, <2>3, <3>1 DEF HelperCancel, WireTypeOK, HelperTypeOK
  <2>4. CASE HelperClose
    BY <1>0, <1>3, <1>7, <2>4 DEF HelperClose, HelperTypeOK
  <2>5. CASE HelperEnds \/ HelperWedges
    BY <1>6, <1>7, <2>5 DEF HelperEnds, HelperWedges
  <2> QED
    BY <1>8, <2>1, <2>2, <2>3, <2>4, <2>5 DEF MainStep
<1>9. ASSUME NEW r \in Request, WorkerStep(r) PROVE HelperTypeOK' /\ WireTypeOK'
  <2>1. CASE SendExit(r) \/ RequestFails(r) \/ TaskOutput(r) \/ TaskExit(r)
    <3>1. may[r] \in BOOLEAN
      BY <1>0 DEF HelperTypeOK
    <3>2. down' \in Seq(DownFrames)
      BY <1>4, <2>1, <3>1 DEF SendExit, RequestFails, TaskOutput, TaskExit
    <3>3. UNCHANGED <<up, link, killed>>
      BY <2>1 DEF SendExit, RequestFails, TaskOutput, TaskExit
    <3>4. CASE TaskOutput(r)
      <4>1. unwritten' \in [Request -> 0 .. MaxOutput]
        BY <1>0, <3>4, WireAssumption DEF TaskOutput, HelperTypeOK, WireAssumption
      <4> QED
        BY <1>0, <3>2, <3>3, <3>4, <4>1 DEF TaskOutput, HelperTypeOK, WireTypeOK
    <3>5. CASE SendExit(r) \/ RequestFails(r) \/ TaskExit(r)
      <4>1. HelperTypeOK'
        BY <1>0, <3>5 DEF SendExit, RequestFails, TaskExit, HelperTypeOK, Works
      <4> QED
        BY <1>0, <3>2, <3>3, <4>1 DEF WireTypeOK
    <3> QED
      BY <2>1, <3>4, <3>5
  <2>2. CASE CheckCancelled(r)
    BY <1>0, <1>2, <1>7, <2>2 DEF CheckCancelled, HelperTypeOK, Works
  <2>3. CASE SpawnCommand(r) \/ Reap(r) \/ EndWorker(r)
    BY <1>0, <1>7, <2>3 DEF SpawnCommand, Reap, EndWorker, HelperTypeOK, Works
  <2>4. CASE LookForGroup(r) \/ EndDrain(r)
    <3>1. GroupAlive(r) \in BOOLEAN /\ (alive[r] \/ drain[r] # "closed") \in BOOLEAN
      BY <1>0 DEF HelperTypeOK, GroupAlive
    <3> QED
      BY <1>0, <1>7, <2>4, <3>1 DEF LookForGroup, EndDrain, HelperTypeOK, Works
  <2> QED
    BY <1>9, <2>1, <2>2, <2>3, <2>4 DEF WorkerStep
<1>10. ASSUME NEW r \in Request, WatchdogFires(r) PROVE HelperTypeOK' /\ WireTypeOK'
  BY <1>0, <1>2, <1>7, <1>10 DEF WatchdogFires, HelperTypeOK
<1>11. ASSUME NEW r \in Request, DrainStep(r) PROVE HelperTypeOK' /\ WireTypeOK'
  <2>1. CASE DrainSends(r)
    <3>1. down' \in Seq(DownFrames) /\ UNCHANGED <<up, link, killed>>
      BY <1>4, <2>1 DEF DrainSends
    <3>2. HelperTypeOK'
      BY <1>0, <2>1 DEF DrainSends, HelperTypeOK
    <3> QED
      BY <1>0, <3>1, <3>2 DEF WireTypeOK
  <2>2. CASE DrainReads(r) \/ DrainEof(r)
    BY <1>0, <1>7, <2>2 DEF DrainReads, DrainEof, HelperTypeOK
  <2> QED
    BY <1>11, <2>1, <2>2 DEF DrainStep
<1>12. ASSUME NEW r \in Request, CommandWrites(r) \/ ShellEnds(r) \/ ChildEnds(r)
       PROVE  HelperTypeOK' /\ WireTypeOK'
  <2>1. CASE CommandWrites(r)
    <3>1. unwritten' \in [Request -> 0 .. MaxOutput] /\ pipe' \in [Request -> BOOLEAN]
      BY <1>0, <2>1, WireAssumption DEF CommandWrites, HelperTypeOK, WireAssumption
    <3> QED
      BY <1>0, <1>7, <2>1, <3>1 DEF CommandWrites, HelperTypeOK
  <2>2. CASE ShellEnds(r) \/ ChildEnds(r)
    <3>1. \E k \in Offspring \cup {None} : child' = [child EXCEPT ![r] = k]
      BY <2>2 DEF ShellEnds, ChildEnds
    <3>2. child' \in [Request -> Offspring \cup {None}]
      BY <1>0, <3>1 DEF HelperTypeOK
    <3> QED
      BY <1>0, <1>7, <2>2, <3>2 DEF ShellEnds, ChildEnds, HelperTypeOK
  <2> QED
    BY <1>12, <2>1, <2>2
<1> QED
  BY <1>8, <1>9, <1>10, <1>11, <1>12 DEF HelperNext

LEMMA StepTypes ==
  ASSUME Kinds, [Next]_vars
  PROVE  Kinds'
<1>1. CASE HostNext /\ UNCHANGED helperVars
  BY <1>1, HostTypes DEF Kinds, HelperTypeOK, helperVars
<1>2. CASE HelperNext /\ UNCHANGED hostVars
  BY <1>2, HelperTypes DEF Kinds, HostKinds, hostVars
<1>3. CASE LinkFails
  <2>1. up' \in Seq(UpFrames) /\ down' \in Seq(DownFrames)
    BY <1>3, PrefixType DEF LinkFails, LinkEnds, Kinds, WireTypeOK
  <2> QED
    BY <1>3, <2>1 DEF LinkFails, LinkEnds, Kinds, WireTypeOK, HostKinds, HelperTypeOK,
                      hostVars, helperVars
<1>4. CASE UNCHANGED vars
  BY <1>4 DEF vars, Kinds, WireTypeOK, HostKinds, HelperTypeOK, hostVars, helperVars,
              wireVars
<1> QED
  BY <1>1, <1>2, <1>3, <1>4 DEF Next
-----------------------------------------------------------------------------
(* Nobody is forgotten. *)
Owed == {"sending", "admission", "response", "delivering", "grace"}

\* Every call in progress is in the table, or has been told; and the failure of
\* a closed session has emptied the table, but for calls that are not admitted
\* any more.
TableInv ==
  /\ \A r \in Request : call[r] \in Owed \cup {"entered", "cancelling"} =>
       r \in pending \/ reply[r] # None
  /\ closed /\ failing = {} => \A r \in pending : call[r] \notin Owed

LEMMA NotNone == \A o \in Outcome : o # None
BY WireAssumption DEF WireAssumption, Outcome

LEMMA TableHost ==
  ASSUME Kinds, TableInv, HostNext
  PROVE  TableInv'
<1>0. /\ call \in [Request -> {"idle", "entered", "sending", "admission", "response",
                             "cancelling", "delivering", "grace", "failing", "done"}]
      /\ result \in [Request -> Outcome \cup {None}]
      /\ reply \in [Request -> Outcome \cup {None}]
      /\ pending \subseteq Request
  BY DEF Kinds, HostKinds
<1>1. ASSUME NEW r \in Request,
             execute(r) \/ CheckOpen(r) \/ TakeReady(r) \/ GiveUp(r)
      PROVE  TableInv'
  BY <1>0, <1>1 DEF execute, CheckOpen, TakeReady, GiveUp, Goes, TableInv, Owed
<1>2. ASSUME NEW r \in Request, SendOpen(r) \/ SendCancel(r) PROVE TableInv'
  <2>1. /\ call[r] \in {"sending", "delivering"}
        /\ call' = [call EXCEPT ![r] = "admission"] \/ call' = [call EXCEPT ![r] = "grace"]
        /\ UNCHANGED <<reply, pending, closed, failing>>
    BY <1>2 DEF SendOpen, SendCancel, Goes
  <2> QED
    BY <1>0, <2>1 DEF TableInv, Owed
<1>3. ASSUME NEW r \in Request, CancelUndelivered(r) \/ CancelUnconfirmed(r)
      PROVE  TableInv'
  BY <1>0, <1>3 DEF CancelUndelivered, CancelUnconfirmed, BeginFailure, Goes, TableInv, Owed
<1>4. ASSUME NEW r \in Request, SendFails(r) \/ TakeReply(r) \/ CancelConfirmed(r)
      PROVE  TableInv'
  <2>1. /\ call' = [call EXCEPT ![r] = "done"]
        /\ reply' = [reply EXCEPT ![r] = None]
        /\ pending \ {r} \subseteq pending' /\ pending' \subseteq pending
        /\ UNCHANGED <<closed, failing>>
    BY <1>4 DEF SendFails, TakeReply, CancelConfirmed, Returns, Goes
  <2> QED
    BY <1>0, <2>1 DEF TableInv, Owed
<1>5. ASSUME NEW t \in failing, fail_all(t) PROVE TableInv'
  <2>1. /\ pending' = {} /\ closed' = closed
        /\ \A r \in Request : call'[r] = call[r] \/ call'[r] = "done"
        /\ t \in Request => call'[t] = "done"
    BY <1>0, <1>5 DEF fail_all, Goes
  <2>2. \A r \in Request \ {t} :
          IF r \in pending THEN reply'[r] = [ok |-> FALSE, may |-> TRUE]
                           ELSE reply'[r] = reply[r]
    BY <1>5 DEF fail_all
  <2>3. [ok |-> FALSE, may |-> TRUE] # None
    BY NotNone DEF Outcome
  <2> QED
    BY <2>1, <2>2, <2>3 DEF TableInv, Owed
<1>6. CASE retire_idle
  BY <1>0, <1>6 DEF retire_idle, TableInv, Owed
<1>7. CASE WriterWrites \/ WriterFails \/ ReaderFails \/ child_loop
  <2>1. /\ UNCHANGED <<call, reply, pending>>
        /\ UNCHANGED <<closed, failing>> \/ failing' # {}
    BY <1>7 DEF WriterWrites, WriterFails, ReaderFails, child_loop, BeginFailure
  <2> QED
    BY <2>1 DEF TableInv, Owed
<1>8. CASE dispatch_frame
  <2> DEFINE f == Head(down)
             new == [ok |-> f.kind = "EXIT", may |-> f.may \/ f.kind = "ERROR"]
  <2>1. /\ UNCHANGED <<call, closed, failing>>
        /\ \/ UNCHANGED <<pending, reply>>
           \/ pending' = pending \ {f.id} /\ reply' = [reply EXCEPT ![f.id] = new]
    BY <1>8 DEF dispatch_frame, Delivers
  <2>2. new # None
    <3>1. new.ok \in BOOLEAN /\ new.may \in BOOLEAN
      <4>1. Head(down) \in DownFrames
        BY <1>8, TailType DEF dispatch_frame, Kinds, WireTypeOK
      <4> QED
        BY <4>1 DEF DownFrames
    <3>2. new \in Outcome
      BY <3>1 DEF Outcome
    <3> QED
      BY <3>2, NotNone
  <2> HIDE DEF f, new
  <2> QED
    BY <1>0, <2>1, <2>2 DEF TableInv, Owed
<1> QED
  BY <1>1, <1>2, <1>3, <1>4, <1>5, <1>6, <1>7, <1>8 DEF HostNext, CallStep

LEMMA TableStep ==
  ASSUME Kinds, TableInv, [Next]_vars
  PROVE  TableInv'
<1>1. CASE UNCHANGED hostVars
  BY <1>1 DEF hostVars, TableInv
<1> QED
  BY <1>1, TableHost DEF Next, LinkFails, vars

LEMMA InitTable == Init => TableInv
BY DEF Init, HostInit, TableInv, Owed

\* Whichever of the three tasks and the calls fail the session, and in whatever
\* order, a call that waits for an answer gets one (transport_failure, fail_all,
\* send, execute).
THEOREM NobodyIsForgotten == Spec => []NoneForgotten
<1>1. Spec => [](Kinds /\ TableInv)
  BY InitTypes, StepTypes, InitTable, TableStep, PTL DEF Spec
<1>2. TableInv => NoneForgotten
  BY DEF TableInv, NoneForgotten, Owed
<1> QED
  BY <1>1, <1>2, PTL
-----------------------------------------------------------------------------
(* What a result says of the processes. *)
Has(s, f) == \E i \in 1 .. Len(s) : s[i] = f

Once(s, f) == \A i, j \in 1 .. Len(s) : s[i] = f /\ s[j] = f => i = j

Open(r) == Frame("OPEN", r, FALSE)

Exit(r) == Frame("EXIT", r, FALSE)

\* The helper may still be asked for the request.
Due(r) == Has(queue, Open(r)) \/ Has(up, Open(r))

\* The helper is never asked for the request, or was asked and is through.
Never(r) == ~Due(r) /\ worker[r] \in {"none", "gone"} /\ ~shell[r] /\ child[r] = None

Finished(r) == worker[r] \in {"sent", "gone"} /\ ~GroupAlive(r)

\* A request is opened once.
OpenInv(r) ==
  /\ Once(queue, Open(r)) /\ Once(up, Open(r))
  /\ ~(Has(queue, Open(r)) /\ Has(up, Open(r)))
  /\ Runs /\ Due(r) => worker[r] = "none"
  /\ call[r] \in {"idle", "entered", "sending"} =>
       Never(r) /\ (Runs => worker[r] = "none")

\* What the worker has found out of the group stays true.
GroupInv(r) ==
  /\ worker[r] \in {"none", "ready"} \/ r \notin Command => ~shell[r] /\ child[r] = None
  /\ worker[r] \in {"reaped", "draining", "exiting", "sent"} => ~shell[r]
  /\ worker[r] = "draining" /\ ~alive[r] => ~GroupAlive(r)
  /\ worker[r] = "exiting" /\ ~may[r] => ~GroupAlive(r)

\* An EXIT on its way, an answer and a result tell what the worker has found out.
ToldInv(r) ==
  /\ Has(down, Exit(r)) => Finished(r)
  /\ reply[r] # None /\ ~reply[r].may => Finished(r)
  /\ result[r] # None => call[r] = "done"
  /\ result[r] # None /\ ~result[r].may => Finished(r) \/ Never(r)

RequestInv == \A r \in Request : OpenInv(r) /\ GroupInv(r) /\ ToldInv(r)

LEMMA AppendHas ==
  ASSUME NEW S, NEW s \in Seq(S), NEW g \in S, NEW f
  PROVE  /\ Has(Append(s, g), f) <=> Has(s, f) \/ g = f
         /\ Once(s, f) /\ (g = f => ~Has(s, f)) => Once(Append(s, g), f)
<1> DEFINE t == Append(s, g)
<1>1. /\ Len(s) \in Nat /\ Len(t) = Len(s) + 1 /\ t[Len(s) + 1] = g
      /\ \A i \in 1 .. Len(s) : t[i] = s[i]
  OBVIOUS
<1> HIDE DEF t
<1>2. \A i \in 1 .. Len(t) : i \in 1 .. Len(s) \/ i = Len(s) + 1
  BY <1>1
<1>3. \A i \in 1 .. Len(s) : i \in 1 .. Len(t) /\ Len(s) + 1 \in 1 .. Len(t)
  BY <1>1
<1>4. Len(s) + 1 \in 1 .. Len(t)
  BY <1>1
<1>5. Has(t, f) <=> Has(s, f) \/ g = f
  BY <1>1, <1>2, <1>3, <1>4 DEF Has
<1>6. Once(s, f) /\ (g = f => ~Has(s, f)) => Once(t, f)
  BY <1>1, <1>2, <1>3, <1>4 DEF Has, Once
<1> QED
  BY <1>5, <1>6 DEF t

LEMMA TailHas ==
  ASSUME NEW S, NEW s \in Seq(S), s # <<>>, NEW f
  PROVE  /\ Has(s, f) <=> Has(Tail(s), f) \/ Head(s) = f
         /\ Once(s, f) => Once(Tail(s), f)
         /\ Once(s, f) /\ Head(s) = f => ~Has(Tail(s), f)
<1> DEFINE t == Tail(s)
<1>1. /\ Len(s) \in Nat \ {0} /\ Len(t) = Len(s) - 1 /\ s[1] = Head(s)
      /\ \A i \in 1 .. Len(t) : t[i] = s[i + 1]
  OBVIOUS
<1> HIDE DEF t
<1>2. \A i \in 1 .. Len(t) : i + 1 \in 1 .. Len(s) /\ i + 1 # 1
  BY <1>1
<1>3. \A i \in 1 .. Len(s) : i = 1 \/ (i - 1 \in 1 .. Len(t) /\ s[i] = t[i - 1])
  BY <1>1
<1>4. 1 \in 1 .. Len(s)
  BY <1>1
<1>5. Has(s, f) <=> Has(t, f) \/ Head(s) = f
  BY <1>1, <1>2, <1>3, <1>4 DEF Has
<1>6. Once(s, f) => Once(t, f)
  <2>1. ASSUME Once(s, f), NEW i \in 1 .. Len(t), NEW j \in 1 .. Len(t),
               t[i] = f, t[j] = f
        PROVE  i = j
    <3>1. s[i + 1] = f /\ s[j + 1] = f
      BY <1>1, <2>1
    <3>2. i + 1 = j + 1
      BY <1>2, <2>1, <3>1 DEF Once
    <3> QED
      BY <3>2
  <2> QED
    BY <2>1 DEF Once
<1>7. Once(s, f) /\ Head(s) = f => ~Has(t, f)
  BY <1>1, <1>2, <1>4 DEF Has, Once
<1> QED
  BY <1>5, <1>6, <1>7 DEF t

LEMMA PrefixHas ==
  ASSUME NEW S, NEW s \in Seq(S), NEW n \in 0 .. Len(s), NEW f
  PROVE  /\ Has(SubSeq(s, 1, n), f) => Has(s, f)
         /\ Once(s, f) => Once(SubSeq(s, 1, n), f)
<1> DEFINE t == SubSeq(s, 1, n)
<1>1. Len(s) \in Nat /\ Len(t) = n /\ \A i \in 1 .. n : i \in 1 .. Len(s) /\ t[i] = s[i]
  OBVIOUS
<1> HIDE DEF t
<1>2. Has(t, f) => Has(s, f)
  BY <1>1 DEF Has
<1>3. Once(s, f) => Once(t, f)
  BY <1>1 DEF Once
<1> QED
  BY <1>2, <1>3 DEF t

LEMMA EmptyHas == \A f : ~Has(<<>>, f) /\ Once(<<>>, f)
BY DEF Has, Once

\* What a step of the local end does to a request: OPEN is offered once, and an
\* answer or a result that denies the process repeats what was heard, or belongs
\* to a call that was never offered.
HostMove(r) ==
  /\ UNCHANGED helperVars
  /\ Has(down', Exit(r)) => Has(down, Exit(r))
  /\ Once(queue', Open(r)) /\ Once(up', Open(r))
  /\ ~(Has(queue', Open(r)) /\ Has(up', Open(r)))
  /\ Due(r)' => Due(r) \/ (call[r] = "sending" /\ call'[r] = "admission")
  /\ call'[r] \in {"idle", "entered", "sending"} =>
       call[r] \in {"idle", "entered", "sending"}
  /\ reply'[r] # None /\ ~reply'[r].may =>
       (reply[r] # None /\ ~reply[r].may) \/ Has(down, Exit(r))
  /\ result'[r] # None => call'[r] = "done"
  /\ result'[r] # None /\ ~result'[r].may =>
       \/ result[r] # None /\ ~result[r].may
       \/ reply[r] # None /\ ~reply[r].may
       \/ call[r] \in {"entered", "sending"}

LEMMA HostMoveKeeps ==
  ASSUME NEW r \in Request, OpenInv(r), GroupInv(r), ToldInv(r), HostMove(r)
  PROVE  OpenInv(r)' /\ GroupInv(r)' /\ ToldInv(r)'
<1>1. UNCHANGED helperVars
  BY DEF HostMove
<1>2. /\ worker' = worker /\ shell' = shell /\ child' = child /\ alive' = alive
      /\ may' = may /\ main' = main
  BY <1>1 DEF helperVars
<1>3. /\ Runs' <=> Runs
      /\ GroupAlive(r)' <=> GroupAlive(r)
      /\ Finished(r)' <=> Finished(r)
  BY <1>2 DEF Runs, GroupAlive, Finished
<1>4. GroupInv(r)'
  BY <1>2, <1>3 DEF GroupInv
<1>5. call[r] = "sending" => Never(r) /\ (Runs => worker[r] = "none")
  BY DEF OpenInv
<1>6. call'[r] # "admission" /\ Never(r) => Never(r)'
  BY <1>2 DEF HostMove, Never
<1>7. OpenInv(r)'
  BY <1>2, <1>3, <1>5, <1>6 DEF OpenInv, HostMove
<1>8. ToldInv(r)'
  <2>1. call[r] \in {"entered", "sending"} => Never(r)
    BY DEF OpenInv
  <2> QED
    BY <1>2, <1>3, <1>6, <2>1 DEF ToldInv, HostMove
<1> QED
  BY <1>4, <1>7, <1>8

LEMMA CallMoves ==
  ASSUME Kinds, NEW q \in Request, CallStep(q), UNCHANGED helperVars,
         NEW r \in Request, OpenInv(r), ToldInv(r)
  PROVE  HostMove(r)
<1>0. /\ call \in [Request -> {"idle", "entered", "sending", "admission", "response",
                             "cancelling", "delivering", "grace", "failing", "done"}]
      /\ result \in [Request -> Outcome \cup {None}]
      /\ reply \in [Request -> Outcome \cup {None}]
      /\ queue \in Seq(UpFrames)
  BY DEF Kinds, HostKinds
<1>1. /\ Once(queue, Open(r)) /\ Once(up, Open(r))
      /\ ~(Has(queue, Open(r)) /\ Has(up, Open(r)))
      /\ call[r] = "sending" => ~Due(r)
      /\ result[r] # None => call[r] = "done"
  BY DEF OpenInv, ToldInv, Never
<1>2. CASE execute(q) \/ CheckOpen(q) \/ TakeReady(q) \/ GiveUp(q)
           \/ CancelUndelivered(q) \/ CancelUnconfirmed(q)
  <2>1. /\ UNCHANGED <<reply, result, queue>> /\ UNCHANGED wireVars
        /\ call[q] # "done"
        /\ \E pc : call' = [call EXCEPT ![q] = pc] /\ pc # "idle"
                   /\ (pc \in {"entered", "sending"} => call[q] \in {"idle", "entered"})
    BY <1>2 DEF execute, CheckOpen, TakeReady, GiveUp, CancelUndelivered,
                CancelUnconfirmed, Goes
  <2>2. UNCHANGED <<up, down>>
    BY <2>1 DEF wireVars
  <2>3. Due(r)' <=> Due(r)
    BY <2>1, <2>2 DEF Due
  <2> QED
    BY <1>0, <1>1, <2>1, <2>2, <2>3 DEF HostMove
<1>3. CASE SendFails(q) \/ TakeReply(q) \/ CancelConfirmed(q)
  <2>1. UNCHANGED queue /\ UNCHANGED wireVars
    BY <1>3 DEF SendFails, TakeReply, CancelConfirmed
  <2>2. UNCHANGED <<up, down>>
    BY <2>1 DEF wireVars
  <2>3. Due(r)' <=> Due(r)
    BY <2>1, <2>2 DEF Due
  <2>4. /\ call' = [call EXCEPT ![q] = "done"]
        /\ reply' = [reply EXCEPT ![q] = None]
        /\ \E ok, m : /\ result' = [result EXCEPT ![q] = [ok |-> ok, may |-> m]]
                      /\ m \/ call[q] \in {"entered", "sending"}
                           \/ (reply[q] # None /\ m = reply[q].may)
    BY <1>3 DEF SendFails, TakeReply, CancelConfirmed, Returns, Goes
  <2>5. PICK ok, m : /\ result' = [result EXCEPT ![q] = [ok |-> ok, may |-> m]]
                     /\ m \/ call[q] \in {"entered", "sending"}
                           \/ (reply[q] # None /\ m = reply[q].may)
    BY <2>4
  <2>6. [ok |-> ok, may |-> m].may = m
    OBVIOUS
  <2>7. CASE r = q
    <3>1. call'[r] = "done" /\ reply'[r] = None /\ result'[r].may = m
      BY <1>0, <2>4, <2>5, <2>6, <2>7
    <3> QED
      BY <1>1, <2>1, <2>2, <2>3, <2>5, <2>7, <3>1 DEF HostMove
  <2>8. CASE r # q
    <3>1. call'[r] = call[r] /\ reply'[r] = reply[r] /\ result'[r] = result[r]
      BY <1>0, <2>4, <2>5, <2>8
    <3> QED
      BY <1>1, <2>1, <2>2, <2>3, <3>1 DEF HostMove
  <2> QED
    BY <2>7, <2>8
<1>4. CASE SendOpen(q) \/ SendCancel(q)
  <2>1. /\ UNCHANGED <<reply, result>> /\ UNCHANGED wireVars
        /\ \/ /\ call[q] = "sending" /\ call' = [call EXCEPT ![q] = "admission"]
              /\ queue' = Append(queue, Open(q))
           \/ /\ call[q] = "delivering" /\ call' = [call EXCEPT ![q] = "grace"]
              /\ queue' = Append(queue, Frame("CANCEL", q, FALSE))
    BY <1>4 DEF SendOpen, SendCancel, Goes, Open
  <2>2. UNCHANGED <<up, down>>
    BY <2>1 DEF wireVars
  <2>3. CASE /\ call[q] = "sending" /\ call' = [call EXCEPT ![q] = "admission"]
             /\ queue' = Append(queue, Open(q))
    <3>1. /\ Has(queue', Open(r)) <=> Has(queue, Open(r)) \/ Open(q) = Open(r)
          /\ Once(queue, Open(r)) /\ (Open(q) = Open(r) => ~Has(queue, Open(r))) =>
               Once(queue', Open(r))
      <4>1. Open(q) \in UpFrames
        BY FrameTypes DEF Open
      <4> QED
        BY <1>0, <2>3, <4>1, AppendHas
    <3>2. Open(q) = Open(r) => q = r
      BY DEF Open, Frame
    <3>3. ~Due(r) => ~Has(queue, Open(r)) /\ ~Has(up, Open(r))
      BY DEF Due
    <3>4. Due(r)' <=> Due(r) \/ Open(q) = Open(r)
      BY <2>2, <3>1 DEF Due
    <3> QED
      BY <1>0, <1>1, <2>1, <2>2, <2>3, <3>1, <3>2, <3>3, <3>4 DEF HostMove
  <2>4. CASE /\ call[q] = "delivering" /\ call' = [call EXCEPT ![q] = "grace"]
             /\ queue' = Append(queue, Frame("CANCEL", q, FALSE))
    <3>1. Frame("CANCEL", q, FALSE) # Open(r)
      BY DEF Open, Frame
    <3>2. /\ Has(queue', Open(r)) <=> Has(queue, Open(r))
          /\ Once(queue, Open(r)) => Once(queue', Open(r))
      <4> DEFINE g == Frame("CANCEL", q, FALSE)
      <4>1. g \in UpFrames
        BY FrameTypes
      <4>2. g # Open(r) /\ queue' = Append(queue, g)
        BY <2>4, <3>1
      <4> HIDE DEF g
      <4> QED
        BY <1>0, <4>1, <4>2, AppendHas
    <3>3. Due(r)' <=> Due(r)
      BY <2>2, <3>2 DEF Due
    <3> QED
      BY <1>0, <1>1, <2>1, <2>2, <2>4, <3>2, <3>3 DEF HostMove
  <2> QED
    BY <2>1, <2>3, <2>4
<1> QED
  BY <1>2, <1>3, <1>4 DEF CallStep

LEMMA HostMoves ==
  ASSUME Kinds, HostNext, UNCHANGED helperVars,
         NEW r \in Request, OpenInv(r), ToldInv(r)
  PROVE  HostMove(r)
<1>0. /\ call \in [Request -> {"idle", "entered", "sending", "admission", "response",
                             "cancelling", "delivering", "grace", "failing", "done"}]
      /\ result \in [Request -> Outcome \cup {None}]
      /\ reply \in [Request -> Outcome \cup {None}]
      /\ queue \in Seq(UpFrames) /\ up \in Seq(UpFrames) /\ down \in Seq(DownFrames)
  BY DEF Kinds, HostKinds, WireTypeOK
<1>1. /\ Once(queue, Open(r)) /\ Once(up, Open(r))
      /\ ~(Has(queue, Open(r)) /\ Has(up, Open(r)))
      /\ result[r] # None => call[r] = "done"
  BY DEF OpenInv, ToldInv
<1>2. ASSUME NEW q \in Request, CallStep(q) PROVE HostMove(r)
  BY <1>2, CallMoves
<1>3. ASSUME NEW t \in failing, fail_all(t) PROVE HostMove(r)
  <2>1. UNCHANGED <<queue, up, down>>
    BY <1>3 DEF fail_all
  <2>2. Due(r)' <=> Due(r)
    BY <2>1 DEF Due
  <2>3. \/ call'[r] = call[r] /\ result'[r] = result[r]
        \/ call'[r] = "done" /\ result'[r] = [ok |-> FALSE, may |-> TRUE]
    BY <1>0, <1>3 DEF fail_all, Goes
  <2>4. reply'[r] \in {[ok |-> FALSE, may |-> TRUE], None, reply[r]}
    BY <1>3 DEF fail_all
  <2>5. [ok |-> FALSE, may |-> TRUE].may = TRUE
    OBVIOUS
  <2> QED
    BY <1>1, <2>1, <2>2, <2>3, <2>4, <2>5 DEF HostMove
<1>4. CASE retire_idle \/ ReaderFails \/ child_loop
  <2>1. UNCHANGED <<call, result, reply, queue, up, down>>
    BY <1>4 DEF retire_idle, ReaderFails, child_loop, wireVars
  <2>2. Due(r)' <=> Due(r)
    BY <2>1 DEF Due
  <2> QED
    BY <1>1, <2>1, <2>2 DEF HostMove
<1>5. CASE WriterFails
  <2>1. queue' = <<>> /\ UNCHANGED <<call, result, reply, up, down>>
    BY <1>5 DEF WriterFails, wireVars
  <2>2. ~Has(queue', Open(r)) /\ Once(queue', Open(r))
    BY <2>1, EmptyHas
  <2>3. Due(r)' => Due(r)
    BY <2>1, <2>2 DEF Due
  <2> QED
    BY <1>1, <2>1, <2>2, <2>3 DEF HostMove
<1>6. CASE WriterWrites
  <2> DEFINE f == Head(queue)
  <2>1. /\ queue # <<>> /\ queue' = Tail(queue) /\ up' = Append(up, f)
        /\ UNCHANGED <<call, result, reply, down>>
    BY <1>6 DEF WriterWrites
  <2>2. f \in UpFrames
    BY <1>0, <2>1, TailType
  <2> HIDE DEF f
  <2>3. /\ Has(up', Open(r)) <=> Has(up, Open(r)) \/ f = Open(r)
        /\ Once(up, Open(r)) /\ (f = Open(r) => ~Has(up, Open(r))) => Once(up', Open(r))
    BY <1>0, <2>1, <2>2, AppendHas
  <2>4. /\ Has(queue, Open(r)) <=> Has(queue', Open(r)) \/ f = Open(r)
        /\ Once(queue, Open(r)) => Once(queue', Open(r))
        /\ Once(queue, Open(r)) /\ f = Open(r) => ~Has(queue', Open(r))
    BY <1>0, <2>1, TailHas DEF f
  <2>5. Due(r)' => Due(r)
    BY <2>3, <2>4 DEF Due
  <2> QED
    BY <1>1, <2>1, <2>3, <2>4, <2>5 DEF HostMove
<1>7. CASE dispatch_frame
  <2> DEFINE f == Head(down)
             new == [ok |-> f.kind = "EXIT", may |-> f.may \/ f.kind = "ERROR"]
  <2>1. /\ down # <<>> /\ down' = Tail(down)
        /\ UNCHANGED <<call, result, queue, up>>
        /\ \/ UNCHANGED reply
           \/ f.kind \in {"EXIT", "ERROR"} /\ reply' = [reply EXCEPT ![f.id] = new]
    BY <1>7 DEF dispatch_frame, Delivers
  <2>2. Has(down, Exit(r)) <=> Has(down', Exit(r)) \/ f = Exit(r)
    BY <1>0, <2>1, TailHas DEF f
  <2>3. f \in DownFrames
    BY <1>0, <2>1, TailType
  <2>4. Due(r)' <=> Due(r)
    BY <2>1 DEF Due
  <2>5. f.kind \in {"EXIT", "ERROR"} /\ f.id = r /\ ~new.may => f = Exit(r)
    <3>1. f = [kind |-> f.kind, id |-> f.id, may |-> f.may] /\ f.may \in BOOLEAN
      BY <2>3 DEF DownFrames
    <3>2. f.kind \in {"EXIT", "ERROR"} /\ ~new.may => f.kind = "EXIT" /\ f.may = FALSE
      BY <3>1
    <3> HIDE DEF f, new
    <3> QED
      BY <3>1, <3>2 DEF Exit, Frame
  <2>6. \/ reply'[r] = reply[r]
        \/ f.kind \in {"EXIT", "ERROR"} /\ f.id = r /\ reply'[r] = new
    <3>1. f.id \in Request
      BY <2>3 DEF DownFrames
    <3> HIDE DEF f, new
    <3> QED
      BY <1>0, <2>1, <3>1
  <2> HIDE DEF f, new
  <2> QED
    BY <1>1, <2>1, <2>2, <2>4, <2>5, <2>6 DEF HostMove
<1> QED
  BY <1>2, <1>3, <1>4, <1>5, <1>6, <1>7 DEF HostNext

\* What a step of the remote end, or the end of the connection, does to a
\* request.  OPEN leaves the stream, and nothing is put in its place.
Asked(r) ==
  /\ Has(up', Open(r)) => Has(up, Open(r))
  /\ Once(up, Open(r)) => Once(up', Open(r))

Heard(r) == Has(down', Exit(r)) => Has(down, Exit(r))

\* No process of the request is started, and the worker finds nothing out.
Quiet(r) ==
  /\ worker'[r] = worker[r] \/ (worker[r] = "spawned" /\ worker'[r] = "waiting")
  /\ alive'[r] = alive[r] /\ may'[r] = may[r]
  /\ shell'[r] => shell[r]
  /\ GroupAlive(r)' => GroupAlive(r)
  /\ ~shell[r] /\ child[r] = None => child'[r] = None
  /\ Runs' => Runs
  /\ Heard(r)

\* The threads of the helper end.
Halted(r) ==
  /\ ~Runs' /\ worker'[r] = "gone"
  /\ UNCHANGED <<shell, child>>
  /\ Heard(r)

Same(r) == shell'[r] = shell[r] /\ child'[r] = child[r]

\* The worker goes on.
Moved(r) ==
  /\ Runs
  /\ \/ /\ worker[r] # "ready" /\ worker'[r] = "ready"
        /\ Has(up, Open(r)) /\ ~Has(up', Open(r))
        /\ Same(r) /\ Heard(r)
     \/ /\ worker[r] = "ready" /\ worker'[r] = "spawned"
        /\ r \in Command /\ Heard(r)
     \/ /\ worker[r] = "waiting" /\ worker'[r] = "reaped"
        /\ ~shell[r] /\ Same(r) /\ Heard(r)
     \/ /\ worker[r] = "reaped" /\ worker'[r] = "draining"
        /\ (GroupAlive(r) => alive'[r]) /\ Same(r) /\ Heard(r)
     \/ /\ worker[r] = "draining" /\ worker'[r] = "exiting"
        /\ (alive[r] => may'[r]) /\ Same(r) /\ Heard(r)
     \/ /\ worker[r] = "exiting" /\ worker'[r] = "sent"
        /\ Same(r) /\ (may[r] => Heard(r))
     \/ worker[r] = "ready" /\ worker'[r] = "sent" /\ Same(r)
     \/ worker[r] = "sent" /\ worker'[r] = "gone" /\ Same(r) /\ Heard(r)

HelperMove(r) ==
  /\ UNCHANGED <<call, result, reply, queue>>
  /\ Asked(r)
  /\ Quiet(r) \/ Halted(r) \/ Moved(r)

LEMMA HelperMoveKeeps ==
  ASSUME NEW r \in Request, OpenInv(r), GroupInv(r), ToldInv(r), HelperMove(r)
  PROVE  OpenInv(r)' /\ GroupInv(r)' /\ ToldInv(r)'
<1>1. UNCHANGED <<call, result, reply, queue>> /\ Asked(r)
  BY DEF HelperMove
<1>2. Due(r)' => Due(r)
  BY <1>1 DEF Asked, Due
<1>3. /\ Once(queue', Open(r)) /\ Once(up', Open(r))
      /\ ~(Has(queue', Open(r)) /\ Has(up', Open(r)))
  BY <1>1 DEF OpenInv, Asked
<1>4. ASSUME Quiet(r) PROVE OpenInv(r)' /\ GroupInv(r)' /\ ToldInv(r)'
  <2>1. Never(r) => Never(r)'
    BY <1>2, <1>4 DEF Never, Quiet
  <2>2. Finished(r) => Finished(r)'
    BY <1>4 DEF Finished, Quiet
  <2>3. OpenInv(r)'
    BY <1>1, <1>2, <1>3, <1>4, <2>1 DEF OpenInv, Quiet
  <2>4. GroupInv(r)'
    BY <1>4 DEF GroupInv, Quiet
  <2>5. ToldInv(r)'
    BY <1>1, <1>4, <2>1, <2>2 DEF ToldInv, Quiet, Heard
  <2> QED
    BY <2>3, <2>4, <2>5
<1>5. ASSUME Halted(r) PROVE OpenInv(r)' /\ GroupInv(r)' /\ ToldInv(r)'
  <2>1. Never(r) => Never(r)'
    BY <1>2, <1>5 DEF Never, Halted
  <2>2. Finished(r) => Finished(r)'
    BY <1>5 DEF Finished, Halted, GroupAlive
  <2>3. OpenInv(r)'
    BY <1>1, <1>2, <1>3, <1>5, <2>1 DEF OpenInv, Halted
  <2>4. GroupInv(r)'
    BY <1>5 DEF GroupInv, Halted
  <2>5. ToldInv(r)'
    BY <1>1, <1>5, <2>1, <2>2 DEF ToldInv, Halted, Heard
  <2> QED
    BY <2>3, <2>4, <2>5
<1>6. ASSUME Moved(r) PROVE OpenInv(r)' /\ GroupInv(r)' /\ ToldInv(r)'
  <2>1. Runs
    BY <1>6 DEF Moved
  <2>2. /\ worker[r] # "none" => ~Due(r)
        /\ Never(r) => worker[r] \in {"none", "gone"}
        /\ call[r] \in {"idle", "entered", "sending"} => Never(r) /\ worker[r] = "none"
    BY <2>1 DEF OpenInv, Never
  <2>3. Same(r) => (GroupAlive(r)' <=> GroupAlive(r))
    BY DEF Same, GroupAlive
  <2>4. CASE /\ worker[r] # "ready" /\ worker'[r] = "ready"
             /\ Has(up, Open(r)) /\ ~Has(up', Open(r))
             /\ Same(r) /\ Heard(r)
    <3>1. Due(r)
      BY <2>4 DEF Due
    <3>2. worker[r] = "none" /\ ~Never(r) /\ ~Finished(r)
      BY <2>2, <3>1 DEF Never, Finished
    <3>3. ~Has(queue, Open(r)) /\ ~Due(r)'
      BY <1>1, <2>4 DEF Due, OpenInv
    <3>4. OpenInv(r)'
      BY <1>1, <1>3, <2>2, <3>2, <3>3 DEF OpenInv
    <3>5. GroupInv(r)'
      BY <2>3, <2>4, <3>2 DEF GroupInv, Same
    <3>6. ToldInv(r)'
      BY <1>1, <2>4, <3>2 DEF ToldInv, Heard
    <3> QED
      BY <3>4, <3>5, <3>6
  <2>5. CASE ~(worker[r] # "ready" /\ worker'[r] = "ready")
    <3>1. worker[r] \in {"ready", "waiting", "reaped", "draining", "exiting", "sent"}
      BY <1>6, <2>5 DEF Moved
    <3>2. /\ ~Due(r)' /\ ~Never(r) /\ call[r] \notin {"idle", "entered", "sending"}
      BY <1>2, <2>2, <3>1
    <3>3. OpenInv(r)'
      BY <1>1, <1>3, <3>2 DEF OpenInv
    <3>4. GroupInv(r)' /\ (Finished(r) => Finished(r)')
          /\ (~Heard(r) => Finished(r)')
      <4>1. CASE worker[r] = "ready" /\ worker'[r] = "spawned" /\ r \in Command /\ Heard(r)
        BY <4>1 DEF GroupInv, Finished
      <4>2. CASE /\ worker[r] = "waiting" /\ worker'[r] = "reaped"
                 /\ ~shell[r] /\ Same(r) /\ Heard(r)
        BY <4>2 DEF GroupInv, Finished, Same
      <4>3. CASE /\ worker[r] = "reaped" /\ worker'[r] = "draining"
                 /\ (GroupAlive(r) => alive'[r]) /\ Same(r) /\ Heard(r)
        BY <2>3, <4>3 DEF GroupInv, Finished, Same
      <4>4. CASE /\ worker[r] = "draining" /\ worker'[r] = "exiting"
                 /\ (alive[r] => may'[r]) /\ Same(r) /\ Heard(r)
        BY <2>3, <4>4 DEF GroupInv, Finished, Same
      <4>5. CASE /\ worker[r] = "exiting" /\ worker'[r] = "sent"
                 /\ Same(r) /\ (may[r] => Heard(r))
        BY <2>3, <4>5 DEF GroupInv, Finished, Same
      <4>6. CASE worker[r] = "ready" /\ worker'[r] = "sent" /\ Same(r)
        <5>1. None \notin {"quiet", "output", "stdin", "escaped"}
          BY WireAssumption DEF WireAssumption
        <5>2. ~GroupAlive(r)
          BY <4>6, <5>1 DEF GroupInv, GroupAlive
        <5> QED
          BY <2>3, <4>6, <5>2 DEF GroupInv, Finished, Same
      <4>7. CASE worker[r] = "sent" /\ worker'[r] = "gone" /\ Same(r) /\ Heard(r)
        BY <2>3, <4>7 DEF GroupInv, Finished, Same
      <4> QED
        BY <1>6, <2>5, <4>1, <4>2, <4>3, <4>4, <4>5, <4>6, <4>7 DEF Moved
    <3>5. ToldInv(r)'
      BY <1>1, <3>2, <3>4 DEF ToldInv, Heard
    <3> QED
      BY <3>3, <3>4, <3>5
  <2> QED
    BY <1>6, <2>4, <2>5 DEF Moved
<1> QED
  BY <1>4, <1>5, <1>6 DEF HelperMove

LEMMA KillsQuietly ==
  ASSUME NEW r \in Request, NEW S, Kills(S)
  PROVE  /\ shell'[r] => shell[r]
         /\ child'[r] = None \/ child'[r] = child[r]
         /\ GroupAlive(r)' => GroupAlive(r)
         /\ PipeHeld(r)' => PipeHeld(r)
<1>1. /\ shell'[r] => shell[r]
      /\ child'[r] = None \/ child'[r] = child[r]
  BY DEF Kills
<1>2. None \notin {"quiet", "output", "stdin", "escaped"}
  BY WireAssumption DEF WireAssumption
<1> QED
  BY <1>1, <1>2 DEF GroupAlive, PipeHeld

LEMMA MainCancelsQuietly ==
  ASSUME NEW r \in Request, NEW S, MainCancels(S)
  PROVE  /\ worker'[r] = worker[r] \/ (worker[r] = "spawned" /\ worker'[r] = "waiting")
         /\ shell'[r] => shell[r]
         /\ child'[r] = None \/ child'[r] = child[r]
         /\ GroupAlive(r)' => GroupAlive(r)
         /\ PipeHeld(r)' => PipeHeld(r)
<1>1. PICK missed \in Misses(S) :
        /\ Kills(S \ missed)
        /\ worker' = [q \in Request |-> IF q \in missed THEN "waiting" ELSE worker[q]]
  BY DEF MainCancels
<1>2. r \in missed => worker[r] = "spawned"
  BY <1>1 DEF Misses
<1> QED
  BY <1>1, <1>2, KillsQuietly

\* A frame that is not an EXIT that denies the process says nothing of it.
LEMMA SendsQuietly ==
  ASSUME down \in Seq(DownFrames), NEW r \in Request,
         NEW f \in DownFrames, f # Exit(r), Sends(f) \/ WriteFails
  PROVE  Heard(r)
<1>1. CASE Sends(f)
  BY <1>1, AppendHas DEF Sends, Heard
<1>2. CASE WriteFails
  BY <1>2 DEF WriteFails, Heard
<1> QED
  BY <1>1, <1>2

LEMMA MainMoves ==
  ASSUME Kinds, MainStep \/ HelperWedges, UNCHANGED hostVars,
         NEW r \in Request, OpenInv(r)
  PROVE  HelperMove(r)
<1>0. /\ worker \in [Request -> {"none", "ready", "spawned", "waiting", "reaped",
                               "draining", "exiting", "sent", "gone"}]
      /\ up \in Seq(UpFrames) /\ down \in Seq(DownFrames)
  BY DEF Kinds, HelperTypeOK, WireTypeOK
<1>1. UNCHANGED <<call, result, reply, queue>>
  BY DEF hostVars
<1>2. ASSUME NEW how \in {"ended", "stuck"}, Stops(how), UNCHANGED down PROVE Halted(r)
  BY <1>2 DEF Stops, Halted, Runs, Heard
<1>3. up # <<>> /\ up' = Tail(up) => Asked(r)
  BY <1>0, TailHas DEF Asked
<1>4. up' = up \/ up' = <<>> => Asked(r)
  BY EmptyHas DEF Asked
<1>5. CASE HelperOpen
  <2> DEFINE f == Head(up)
  <2>1. /\ main = "reading" /\ main' = main /\ up # <<>> /\ up' = Tail(up)
        /\ UNCHANGED <<alive, may, shell, child>>
        /\ f.kind = "OPEN"
        /\ \/ Sends(Frame("ERROR", f.id, FALSE)) /\ worker' = worker
           \/ /\ Sends(Frame("READY", f.id, FALSE))
              /\ worker' = [worker EXCEPT ![f.id] = "ready"]
    BY <1>5 DEF HelperOpen, Works
  <2>2. f \in UpFrames
    BY <1>0, <2>1, TailType
  <2>3. f.id \in Request /\ f = Open(f.id)
    BY <2>1, <2>2 DEF UpFrames, Open, Frame
  <2>4. /\ Has(up, Open(r)) <=> Has(up', Open(r)) \/ f = Open(r)
        /\ Once(up, Open(r)) /\ f = Open(r) => ~Has(up', Open(r))
    BY <1>0, <2>1, TailHas DEF f
  <2> HIDE DEF f
  <2>5. Heard(r)
    <3>1. \A kind \in {"ERROR", "READY"} :
            Frame(kind, f.id, FALSE) \in DownFrames /\ Frame(kind, f.id, FALSE) # Exit(r)
      BY <2>3 DEF Frame, DownFrames, Exit
    <3> QED
      BY <1>0, <2>1, <3>1, SendsQuietly
  <2>6. Runs /\ Runs' /\ Same(r) /\ (GroupAlive(r)' <=> GroupAlive(r))
    BY <2>1 DEF Runs, Same, GroupAlive
  <2>7. CASE worker'[r] = worker[r]
    <3>1. Quiet(r)
      BY <2>1, <2>5, <2>6, <2>7 DEF Quiet
    <3> QED
      BY <1>1, <1>3, <2>1, <3>1 DEF HelperMove
  <2>8. CASE worker'[r] # worker[r]
    <3>1. f.id = r /\ worker'[r] = "ready"
      BY <1>0, <2>1, <2>3, <2>8
    <3>2. Has(up, Open(r)) /\ ~Has(up', Open(r))
      BY <2>3, <2>4, <3>1 DEF OpenInv
    <3>3. Moved(r)
      BY <2>5, <2>6, <2>8, <3>1, <3>2 DEF Moved
    <3> QED
      BY <1>1, <1>3, <2>1, <3>3 DEF HelperMove
  <2> QED
    BY <2>7, <2>8
<1>6. CASE HelperFails
  BY <1>1, <1>2, <1>4, <1>6 DEF HelperFails, HelperMove
<1>7. CASE HelperEnds \/ HelperWedges
  BY <1>1, <1>2, <1>4, <1>7 DEF HelperEnds, HelperWedges, HelperMove, wireVars
<1>8. CASE HelperCancel \/ HelperClose
  <2>1. PICK S : MainCancels(S)
    BY <1>8 DEF HelperCancel, HelperClose
  <2>2. /\ UNCHANGED <<alive, may, down>> /\ Runs
        /\ up' = up \/ (up # <<>> /\ up' = Tail(up))
    BY <1>8 DEF HelperCancel, HelperClose, wireVars, Runs
  <2>3. Quiet(r)
    BY <2>1, <2>2, MainCancelsQuietly DEF Quiet, Heard
  <2> QED
    BY <1>1, <1>3, <1>4, <2>2, <2>3 DEF HelperMove
<1> QED
  BY <1>5, <1>6, <1>7, <1>8 DEF MainStep

LEMMA WorkerMoves ==
  ASSUME Kinds, NEW q \in Request, WorkerStep(q), UNCHANGED hostVars,
         NEW r \in Request
  PROVE  HelperMove(r)
<1>0. /\ worker \in [Request -> {"none", "ready", "spawned", "waiting", "reaped",
                               "draining", "exiting", "sent", "gone"}]
      /\ alive \in [Request -> BOOLEAN] /\ may \in [Request -> BOOLEAN]
      /\ shell \in [Request -> BOOLEAN]
      /\ down \in Seq(DownFrames)
  BY DEF Kinds, HelperTypeOK, WireTypeOK
<1>1. UNCHANGED <<call, result, reply, queue>>
  BY DEF hostVars
<1>2. up' = up => Asked(r)
  BY DEF Asked
<1>3. Runs /\ main' = main
  BY DEF WorkerStep, SpawnCommand, CheckCancelled, Reap, LookForGroup, EndDrain, SendExit,
         RequestFails, EndWorker, TaskOutput, TaskExit
<1>4. Runs'
  BY <1>3 DEF Runs
<1>5. Asked(r)
  BY <1>2 DEF WorkerStep, SpawnCommand, CheckCancelled, Reap, LookForGroup, EndDrain, SendExit,
         RequestFails, EndWorker, TaskOutput, TaskExit, wireVars
<1>6. /\ FALSE \in BOOLEAN
      /\ \A kind \in {"READY", "STDOUT", "EXIT", "ERROR"}, m \in BOOLEAN :
           Frame(kind, q, m) \in DownFrames
  BY FrameTypes
<1>7. ASSUME NEW f \in DownFrames, f # Exit(r), Sends(f) \/ WriteFails PROVE Heard(r)
  BY <1>0, <1>7, SendsQuietly
<1>8. \A m : Frame("EXIT", q, m) = Exit(r) => q = r /\ m = FALSE
  BY DEF Exit, Frame
<1>9. UNCHANGED down => Heard(r)
  BY DEF Heard
<1>10. Same(r) => (GroupAlive(r)' <=> GroupAlive(r))
  BY DEF Same, GroupAlive
<1>11. CASE SpawnCommand(q)
  <2>1. /\ worker[q] = "ready" /\ worker' = [worker EXCEPT ![q] = "spawned"] /\ q \in Command
        /\ shell' = [shell EXCEPT ![q] = TRUE]
        /\ UNCHANGED <<alive, may, child, down>>
    BY <1>11 DEF SpawnCommand, Works, wireVars
  <2>2. CASE r = q
    BY <1>0, <1>1, <1>3, <1>5, <1>9, <2>1, <2>2 DEF HelperMove, Moved
  <2>3. CASE r # q
    <3>1. worker'[r] = worker[r] /\ Same(r)
      BY <1>0, <2>1, <2>3 DEF Same
    <3> QED
      BY <1>1, <1>3, <1>4, <1>5, <1>9, <1>10, <2>1, <3>1 DEF HelperMove, Quiet, Same
  <2> QED
    BY <2>2, <2>3
<1>12. CASE CheckCancelled(q)
  <2>1. PICK S : Kills(S)
    BY <1>12 DEF CheckCancelled, Cancels
  <2>2. /\ worker[q] = "spawned" /\ worker' = [worker EXCEPT ![q] = "waiting"]
        /\ UNCHANGED <<alive, may, down>>
    BY <1>12 DEF CheckCancelled, Works, wireVars
  <2>3. worker'[r] = worker[r] \/ (worker[r] = "spawned" /\ worker'[r] = "waiting")
    BY <1>0, <2>2
  <2>4. Quiet(r)
    BY <1>3, <1>9, <2>1, <2>2, <2>3, KillsQuietly DEF Quiet
  <2> QED
    BY <1>1, <1>5, <2>4 DEF HelperMove
<1>13. ASSUME NEW pc, worker' = [worker EXCEPT ![q] = pc],
              \A p \in Request \ {q} : alive'[p] = alive[p] /\ may'[p] = may[p],
              UNCHANGED <<shell, child>>, Heard(r) \/ r = q, r = q => Moved(r)
       PROVE  HelperMove(r)
  <2>1. Same(r)
    BY <1>13 DEF Same
  <2>2. CASE r # q
    <3>1. worker'[r] = worker[r]
      BY <1>0, <1>13, <2>2
    <3>2. Quiet(r)
      BY <1>3, <1>10, <1>13, <2>1, <2>2, <3>1 DEF Quiet, Same
    <3> QED
      BY <1>1, <1>5, <3>2 DEF HelperMove
  <2> QED
    BY <1>1, <1>5, <1>13, <2>2 DEF HelperMove
<1>14. CASE Reap(q)
  <2>1. /\ worker[q] = "waiting" /\ ~shell[q]
        /\ worker' = [worker EXCEPT ![q] = "reaped"]
        /\ UNCHANGED <<alive, may, shell, child, down>>
    BY <1>14 DEF Reap, Works, wireVars
  <2>2. r = q => Moved(r)
    BY <1>0, <1>3, <1>9, <2>1 DEF Moved, Same
  <2> QED
    BY <1>9, <1>13, <2>1, <2>2
<1>15. CASE LookForGroup(q)
  <2>1. /\ worker[q] = "reaped"
        /\ worker' = [worker EXCEPT ![q] = "draining"]
        /\ alive' = [alive EXCEPT ![q] = GroupAlive(q)]
        /\ UNCHANGED <<may, shell, child, down>>
    BY <1>15 DEF LookForGroup, Works, wireVars
  <2>2. r = q => Moved(r)
    BY <1>0, <1>3, <1>9, <2>1 DEF Moved, Same
  <2>3. \A p \in Request \ {q} : alive'[p] = alive[p] /\ may'[p] = may[p]
    BY <1>0, <2>1
  <2> QED
    BY <1>9, <1>13, <2>1, <2>2, <2>3
<1>16. CASE EndDrain(q)
  <2>1. /\ worker[q] = "draining"
        /\ worker' = [worker EXCEPT ![q] = "exiting"]
        /\ may' = [may EXCEPT ![q] = alive[q] \/ drain[q] # "closed"]
        /\ UNCHANGED <<alive, shell, child, down>>
    BY <1>16 DEF EndDrain, Works, wireVars
  <2>2. r = q => Moved(r)
    BY <1>0, <1>3, <1>9, <2>1 DEF Moved, Same
  <2>3. \A p \in Request \ {q} : alive'[p] = alive[p] /\ may'[p] = may[p]
    BY <1>0, <2>1
  <2> QED
    BY <1>9, <1>13, <2>1, <2>2, <2>3
<1>17. CASE SendExit(q)
  <2>1. /\ worker[q] = "exiting"
        /\ worker' = [worker EXCEPT ![q] = "sent"]
        /\ UNCHANGED <<alive, may, shell, child>>
        /\ Sends(Frame("EXIT", q, may[q])) \/ WriteFails
    BY <1>17 DEF SendExit, Works
  <2>2. Frame("EXIT", q, may[q]) \in DownFrames
    BY <1>0, <1>6
  <2>3. Heard(r) \/ (r = q /\ ~may[r])
    BY <1>7, <1>8, <2>1, <2>2
  <2>4. r = q => Moved(r)
    BY <1>0, <1>3, <2>1, <2>3 DEF Moved, Same
  <2> QED
    BY <1>13, <2>1, <2>3, <2>4
<1>18. CASE RequestFails(q) \/ TaskExit(q)
  <2>1. /\ worker[q] = "ready"
        /\ worker' = [worker EXCEPT ![q] = "sent"]
        /\ UNCHANGED <<alive, may, shell, child>>
        /\ \/ Sends(Frame("EXIT", q, FALSE)) \/ Sends(Frame("ERROR", q, FALSE))
           \/ WriteFails
    BY <1>18 DEF RequestFails, TaskExit, Works
  <2>2. Frame("EXIT", q, FALSE) \in DownFrames /\ Frame("ERROR", q, FALSE) \in DownFrames
    BY <1>6
  <2>3. Frame("ERROR", q, FALSE) # Exit(r)
    BY DEF Frame, Exit
  <2>4. Heard(r) \/ r = q
    BY <1>7, <1>8, <2>1, <2>2, <2>3
  <2>5. r = q => Moved(r)
    BY <1>0, <1>3, <2>1 DEF Moved, Same
  <2> QED
    BY <1>13, <2>1, <2>4, <2>5
<1>19. CASE EndWorker(q)
  <2>1. /\ worker[q] = "sent"
        /\ worker' = [worker EXCEPT ![q] = "gone"]
        /\ alive' = [alive EXCEPT ![q] = FALSE] /\ may' = [may EXCEPT ![q] = FALSE]
        /\ UNCHANGED <<shell, child, down>>
    BY <1>19 DEF EndWorker, Works, wireVars
  <2>2. r = q => Moved(r)
    BY <1>0, <1>3, <1>9, <2>1 DEF Moved, Same
  <2>3. \A p \in Request \ {q} : alive'[p] = alive[p] /\ may'[p] = may[p]
    BY <1>0, <2>1
  <2> QED
    BY <1>9, <1>13, <2>1, <2>2, <2>3
<1>20. CASE TaskOutput(q)
  <2>1. /\ UNCHANGED <<worker, alive, may, shell, child>>
        /\ UNCHANGED down \/ Sends(Frame("STDOUT", q, FALSE))
    BY <1>20 DEF TaskOutput
  <2>2. Frame("STDOUT", q, FALSE) \in DownFrames /\ Frame("STDOUT", q, FALSE) # Exit(r)
    BY <1>6 DEF Frame, Exit
  <2>3. Heard(r) /\ Same(r)
    BY <1>7, <1>9, <2>1, <2>2 DEF Same
  <2>4. Quiet(r)
    BY <1>3, <1>10, <2>1, <2>3 DEF Quiet, Same
  <2> QED
    BY <1>1, <1>5, <2>4 DEF HelperMove
<1> QED
  BY <1>11, <1>12, <1>14, <1>15, <1>16, <1>17, <1>18, <1>19, <1>20 DEF WorkerStep

LEMMA HelperMoves ==
  ASSUME Kinds, HelperNext, UNCHANGED hostVars, NEW r \in Request, OpenInv(r)
  PROVE  HelperMove(r)
<1>0. /\ shell \in [Request -> BOOLEAN]
      /\ child \in [Request -> Offspring \cup {None}]
      /\ down \in Seq(DownFrames)
  BY DEF Kinds, HelperTypeOK, WireTypeOK
<1>1. UNCHANGED <<call, result, reply, queue>>
  BY DEF hostVars
<1>2. up' = up => Asked(r)
  BY DEF Asked
<1>3. UNCHANGED down => Heard(r)
  BY DEF Heard
<1>4. CASE MainStep \/ HelperWedges
  BY <1>4, MainMoves
<1>5. ASSUME NEW q \in Request, WorkerStep(q) PROVE HelperMove(r)
  BY <1>5, WorkerMoves
<1>6. ASSUME NEW q \in Request, WatchdogFires(q) PROVE HelperMove(r)
  <2>1. /\ Kills({q}) /\ Runs
        /\ UNCHANGED <<worker, alive, may, up, down>>
    BY <1>6 DEF WatchdogFires, Cancels, wireVars
  <2>2. Quiet(r)
    BY <1>3, <2>1, KillsQuietly DEF Quiet
  <2> QED
    BY <1>1, <1>2, <2>1, <2>2 DEF HelperMove
<1>7. ASSUME NEW q \in Request, DrainStep(q) \/ CommandWrites(q) PROVE HelperMove(r)
  <2>1. /\ Runs
        /\ UNCHANGED <<worker, alive, may, shell, child, up>>
        /\ UNCHANGED down \/ Sends(Frame("STDOUT", q, FALSE))
    BY <1>7 DEF DrainStep, DrainReads, DrainSends, DrainEof, CommandWrites, WriteFails, wireVars
  <2>2. Frame("STDOUT", q, FALSE) \in DownFrames /\ Frame("STDOUT", q, FALSE) # Exit(r)
    <3>1. Frame("STDOUT", q, FALSE) \in DownFrames
      BY FrameTypes
    <3> QED
      BY <3>1 DEF Frame, Exit
  <2>3. Heard(r)
    BY <1>0, <1>3, <2>1, <2>2, SendsQuietly
  <2>4. Quiet(r)
    BY <2>1, <2>3 DEF Quiet, GroupAlive
  <2> QED
    BY <1>1, <1>2, <2>1, <2>4 DEF HelperMove
<1>8. ASSUME NEW q \in Request, ShellEnds(q) \/ ChildEnds(q) PROVE HelperMove(r)
  <2>1. UNCHANGED <<main, worker, alive, may, up, down>>
    BY <1>8 DEF ShellEnds, ChildEnds, wireVars
  <2>2. /\ shell'[r] => shell[r]
        /\ shell[r] \/ child'[r] = None \/ child'[r] = child[r]
    BY <1>0, <1>8 DEF ShellEnds, ChildEnds
  <2>3. None \notin {"quiet", "output", "stdin", "escaped"}
    BY WireAssumption DEF WireAssumption
  <2>4. GroupAlive(r)' => GroupAlive(r)
    BY <2>2, <2>3 DEF GroupAlive
  <2>5. Quiet(r)
    BY <1>3, <2>1, <2>2, <2>4 DEF Quiet, Runs
  <2> QED
    BY <1>1, <1>2, <2>1, <2>5 DEF HelperMove
<1> QED
  BY <1>4, <1>5, <1>6, <1>7, <1>8 DEF HelperNext

LEMMA RequestStep ==
  ASSUME Kinds, RequestInv, [Next]_vars
  PROVE  RequestInv'
<1>0. up \in Seq(UpFrames) /\ down \in Seq(DownFrames)
  BY DEF Kinds, WireTypeOK
<1>1. SUFFICES ASSUME NEW r \in Request, OpenInv(r), GroupInv(r), ToldInv(r)
               PROVE  OpenInv(r)' /\ GroupInv(r)' /\ ToldInv(r)'
  BY DEF RequestInv
<1>2. CASE HostNext /\ UNCHANGED helperVars
  BY <1>1, <1>2, HostMoves, HostMoveKeeps
<1>3. CASE HelperNext /\ UNCHANGED hostVars
  BY <1>1, <1>3, HelperMoves, HelperMoveKeeps
<1>4. CASE LinkFails \/ UNCHANGED vars
  <2>1. UNCHANGED <<call, result, reply, queue, worker, alive, may, shell, child, main>>
    BY <1>4 DEF LinkFails, vars, hostVars, helperVars
  <2>2. \/ UNCHANGED <<up, down>>
        \/ /\ \E n \in 0 .. Len(up) : up' = SubSeq(up, 1, n)
           /\ \E n \in 0 .. Len(down) : down' = SubSeq(down, 1, n)
    BY <1>4 DEF LinkFails, LinkEnds, vars, wireVars
  <2>3. Asked(r) /\ Heard(r)
    <3>1. CASE UNCHANGED <<up, down>>
      BY <3>1 DEF Asked, Heard
    <3>2. ASSUME NEW n \in 0 .. Len(up), up' = SubSeq(up, 1, n) PROVE Asked(r)
      BY <1>0, <3>2, PrefixHas DEF Asked
    <3>3. ASSUME NEW n \in 0 .. Len(down), down' = SubSeq(down, 1, n) PROVE Heard(r)
      BY <1>0, <3>3, PrefixHas DEF Heard
    <3> QED
      BY <2>2, <3>1, <3>2, <3>3
  <2>4. Quiet(r)
    BY <2>1, <2>3 DEF Quiet, GroupAlive, Runs
  <2>5. HelperMove(r)
    BY <2>1, <2>3, <2>4 DEF HelperMove
  <2> QED
    BY <1>1, <2>5, HelperMoveKeeps
<1> QED
  BY <1>2, <1>3, <1>4 DEF Next

LEMMA InitRequest == Init => RequestInv
<1>1. SUFFICES ASSUME Init, NEW r \in Request PROVE OpenInv(r) /\ GroupInv(r) /\ ToldInv(r)
  BY DEF RequestInv
<1>2. /\ queue = <<>> /\ up = <<>> /\ down = <<>>
      /\ call[r] = "idle" /\ result[r] = None /\ reply[r] = None
      /\ worker[r] = "none" /\ ~shell[r] /\ child[r] = None
  BY <1>1 DEF Init, WireInit, HostInit, HelperInit
<1>3. \A f : ~Has(queue, f) /\ Once(queue, f) /\ ~Has(up, f) /\ Once(up, f) /\ ~Has(down, f)
  BY <1>2, EmptyHas
<1>4. Never(r)
  BY <1>2, <1>3 DEF Never, Due
<1> QED
  BY <1>2, <1>3, <1>4 DEF OpenInv, GroupInv, ToldInv, Due

\* A caller that is told that nothing of its request continues can rely on it,
\* whatever cancellations, deadlines, descendants and broken connections there
\* were (the continuation bit of EXIT: execute_request, process_group_alive,
\* dispatch_frame, execute).
THEOREM DenialsAreTrue == Spec => []ContinuationIsTrue
<1>1. Spec => [](Kinds /\ RequestInv)
  BY InitTypes, StepTypes, InitRequest, RequestStep, PTL DEF Spec
<1>2. Kinds /\ RequestInv => ContinuationIsTrue
  <2>1. SUFFICES ASSUME Kinds, RequestInv, NEW r \in Request,
                        result[r] # None, ~result[r].may
                 PROVE  Over(r)
    BY DEF ContinuationIsTrue
  <2>2. Finished(r) \/ Never(r)
    BY <2>1 DEF RequestInv, ToldInv
  <2>3. None \notin {"quiet", "output", "stdin", "escaped"}
    BY WireAssumption DEF WireAssumption
  <2>4. ~GroupAlive(r) /\ worker[r] # "ready"
    BY <2>2, <2>3 DEF Finished, Never, GroupAlive
  <2>5. ASSUME Open(r) \in Range(queue \o up) PROVE Due(r)
    <3> DEFINE s == queue \o up
    <3>1. queue \in Seq(UpFrames) /\ up \in Seq(UpFrames)
      BY <2>1 DEF Kinds, HostKinds, WireTypeOK
    <3>2. /\ DOMAIN s = 1 .. Len(queue) + Len(up)
          /\ Len(queue) \in Nat /\ Len(up) \in Nat
          /\ \A i \in 1 .. Len(queue) + Len(up) :
               s[i] = IF i =< Len(queue) THEN queue[i] ELSE up[i - Len(queue)]
      BY <3>1
    <3> HIDE DEF s
    <3>3. PICK i \in DOMAIN s : s[i] = Open(r)
      BY <2>5 DEF Range, s
    <3>4. CASE i =< Len(queue)
      BY <3>2, <3>3, <3>4 DEF Due, Has
    <3>5. CASE ~(i =< Len(queue))
      <4>1. i - Len(queue) \in 1 .. Len(up) /\ up[i - Len(queue)] = Open(r)
        BY <3>2, <3>3, <3>5
      <4> QED
        BY <4>1 DEF Due, Has
    <3> QED
      BY <3>4, <3>5
  <2>6. worker[r] = "none" => ~Due(r)
    BY <2>2 DEF Finished, Never
  <2> QED
    BY <2>4, <2>5, <2>6 DEF Over, Open
<1> QED
  BY <1>1, <1>2, PTL
-----------------------------------------------------------------------------
(* What a request has on the stream to the local reader. *)
Last == {"EXIT", "ERROR"}

\* The frames of the request on a stream.
Speaks(s, r) == \E i \in 1 .. Len(s) : s[i].id = r
Ends(s, r) == \E i \in 1 .. Len(s) : s[i].id = r /\ s[i].kind \in Last
Opens(s, r) == \E i \in 1 .. Len(s) : s[i].id = r /\ s[i].kind = "READY"

\* READY comes before the others, EXIT and ERROR after them.
Ordered(s, r) ==
  \A i, j \in 1 .. Len(s) :
    i < j /\ s[i].id = r /\ s[j].id = r => s[i].kind \notin Last /\ s[j].kind # "READY"

Pieces(s, r) == {i \in 1 .. Len(s) : s[i].id = r /\ s[i].kind = "STDOUT"}

Early == {"idle", "entered", "sending"}

\* The table holds a request from before it is offered until it is answered.
PendingInv ==
  /\ failing # {} => closed
  /\ \A r \in Request :
       /\ call[r] = "idle" => r \notin pending /\ reply[r] = None
       /\ call[r] \in {"entered", "sending"} /\ ~closed => r \in pending
       /\ reply[r] # None => r \notin pending
       /\ result[r] # None /\ result[r].ok => r \notin pending

\* The drain of the request has nothing more to send.
Silent(r) ==
  \/ drain[r] = "closed" \/ stop[r]
  \/ drain[r] = "waiting" /\ ~pipe[r] /\ ~shell[r] /\ child[r] = None

\* The drain sends between the start of the command and the end of its worker.
DrainInv(r) ==
  /\ worker[r] \in {"none", "ready"} => drain[r] = "waiting" /\ ~pipe[r]
  /\ worker[r] = "none" => r \notin active
  /\ stop[r] => worker[r] \in {"exiting", "sent", "gone"}
  /\ Runs /\ worker[r] \in {"exiting", "sent", "gone"} => Silent(r)
  /\ Runs /\ link /\ drain[r] = "closed" => ~pipe[r] /\ ~PipeHeld(r)
  /\ worker[r] = "exiting" /\ ~may[r] => drain[r] = "closed" /\ ~stop[r]

\* What is on the stream is expected by the reader.
FrameInv(r) ==
  /\ Ordered(down, r)
  /\ Opens(down, r) => ~ready[r]
  /\ call[r] \in Early => ~Speaks(down, r) /\ ~ready[r]
  /\ ~closed /\ Speaks(down, r) => r \in pending
  /\ Runs /\ worker[r] = "none" => ~Speaks(down, r) /\ ~ready[r]
  /\ Runs /\ Ends(down, r) => worker[r] \in {"sent", "gone"}
  /\ Runs /\ ~closed /\ r \notin pending =>
       worker[r] \in {"sent", "gone"} \/ (worker[r] = "none" /\ ~Due(r))

\* Pieces of output that are on their way, those to be written included.
OnTheWay(r) == Cardinality(Pieces(down, r)) + (IF drain[r] = "holding" THEN 1 ELSE 0)
                 + (IF pipe[r] THEN 1 ELSE 0) + unwritten[r]

\* The command has written all it ever will, and nobody has the pipes.
Dry(r) == ~pipe[r] /\ ~PipeHeld(r)

\* No piece is counted twice, and none is lost while the connection stands and
\* the worker lets the drain send.
CountInv(r) ==
  /\ received[r] + OnTheWay(r) =< MaxOutput
  /\ r \in Command /\ Runs /\ link /\ ~stop[r] => received[r] + OnTheWay(r) = MaxOutput
  /\ r \in Command /\ Has(down, Exit(r)) =>
       Dry(r) /\ received[r] + Cardinality(Pieces(down, r)) + unwritten[r] = MaxOutput
  /\ r \in Command /\ reply[r] # None /\ reply[r].ok /\ ~reply[r].may =>
       Dry(r) /\ received[r] + unwritten[r] = MaxOutput
  /\ r \in Command /\ result[r] # None /\ result[r].ok /\ ~result[r].may =>
       Dry(r) /\ received[r] + unwritten[r] = MaxOutput

OutputInv == \A r \in Request : DrainInv(r) /\ FrameInv(r) /\ CountInv(r)

LEMMA AppendSays ==
  ASSUME NEW s \in Seq(DownFrames), NEW f \in DownFrames, NEW r
  PROVE  /\ Speaks(Append(s, f), r) <=> Speaks(s, r) \/ f.id = r
         /\ Ends(Append(s, f), r) <=> Ends(s, r) \/ (f.id = r /\ f.kind \in Last)
         /\ Opens(Append(s, f), r) <=> Opens(s, r) \/ (f.id = r /\ f.kind = "READY")
         /\ Ordered(s, r) /\ (f.id = r => ~Ends(s, r) /\ (f.kind = "READY" => ~Speaks(s, r)))
              => Ordered(Append(s, f), r)
<1> DEFINE t == Append(s, f)
<1>1. /\ Len(s) \in Nat /\ Len(t) = Len(s) + 1 /\ t[Len(s) + 1] = f
      /\ \A i \in 1 .. Len(s) : t[i] = s[i]
  OBVIOUS
<1> HIDE DEF t
<1>2. \A i \in 1 .. Len(t) : i \in 1 .. Len(s) \/ i = Len(s) + 1
  BY <1>1
<1>3. Len(s) + 1 \in 1 .. Len(t) /\ \A i \in 1 .. Len(s) : i \in 1 .. Len(t)
  BY <1>1
<1>4. \A i, j \in 1 .. Len(t) : i < j => i \in 1 .. Len(s)
  BY <1>1
<1>5. Speaks(t, r) <=> Speaks(s, r) \/ f.id = r
  BY <1>1, <1>2, <1>3 DEF Speaks
<1>6. Ends(t, r) <=> Ends(s, r) \/ (f.id = r /\ f.kind \in Last)
  BY <1>1, <1>2, <1>3 DEF Ends
<1>7. Opens(t, r) <=> Opens(s, r) \/ (f.id = r /\ f.kind = "READY")
  BY <1>1, <1>2, <1>3 DEF Opens
<1>8. ASSUME Ordered(s, r), f.id = r => ~Ends(s, r) /\ (f.kind = "READY" => ~Speaks(s, r)),
             NEW i \in 1 .. Len(t), NEW j \in 1 .. Len(t), i < j, t[i].id = r, t[j].id = r
      PROVE  t[i].kind \notin Last /\ t[j].kind # "READY"
  <2>1. i \in 1 .. Len(s) /\ s[i].id = r /\ t[i] = s[i]
    BY <1>1, <1>4, <1>8
  <2>2. CASE j \in 1 .. Len(s)
    BY <1>1, <1>8, <2>1, <2>2 DEF Ordered
  <2>3. CASE j = Len(s) + 1
    BY <1>1, <1>8, <2>1, <2>3 DEF Ends, Speaks
  <2> QED
    BY <1>2, <1>8, <2>2, <2>3
<1>9. Ordered(s, r) /\ (f.id = r => ~Ends(s, r) /\ (f.kind = "READY" => ~Speaks(s, r)))
        => Ordered(t, r)
  BY <1>8 DEF Ordered
<1> QED
  BY <1>5, <1>6, <1>7, <1>9 DEF t

LEMMA TailSays ==
  ASSUME NEW s \in Seq(DownFrames), s # <<>>, NEW r
  PROVE  /\ Speaks(s, r) <=> Speaks(Tail(s), r) \/ Head(s).id = r
         /\ Ends(Tail(s), r) => Ends(s, r)
         /\ Opens(Tail(s), r) => Opens(s, r)
         /\ Head(s).id = r /\ Head(s).kind \in Last => Ends(s, r)
         /\ Head(s).id = r /\ Head(s).kind = "READY" => Opens(s, r)
         /\ Ordered(s, r) => Ordered(Tail(s), r)
         /\ Ordered(s, r) /\ Head(s).id = r => ~Opens(Tail(s), r)
         /\ Ordered(s, r) /\ Head(s).id = r /\ Head(s).kind \in Last => ~Speaks(Tail(s), r)
<1> DEFINE t == Tail(s)
           f == Head(s)
<1>1. /\ Len(s) \in Nat \ {0} /\ Len(t) = Len(s) - 1 /\ s[1] = f
      /\ \A i \in 1 .. Len(t) : t[i] = s[i + 1]
  OBVIOUS
<1> HIDE DEF t, f
<1>2. \A i \in 1 .. Len(t) : i + 1 \in 1 .. Len(s) /\ 1 < i + 1
  BY <1>1
<1>3. \A i \in 1 .. Len(s) : i = 1 \/ (i - 1 \in 1 .. Len(t) /\ s[i] = t[i - 1])
  BY <1>1
<1>4. 1 \in 1 .. Len(s)
  BY <1>1
<1>5. Speaks(s, r) <=> Speaks(t, r) \/ f.id = r
  BY <1>1, <1>2, <1>3, <1>4 DEF Speaks
<1>6. Ends(t, r) => Ends(s, r)
  BY <1>1, <1>2 DEF Ends
<1>7. Opens(t, r) => Opens(s, r)
  BY <1>1, <1>2 DEF Opens
<1>8. /\ f.id = r /\ f.kind \in Last => Ends(s, r)
      /\ f.id = r /\ f.kind = "READY" => Opens(s, r)
  BY <1>1, <1>4 DEF Ends, Opens
<1>9. Ordered(s, r) => Ordered(t, r)
  <2>1. ASSUME Ordered(s, r), NEW i \in 1 .. Len(t), NEW j \in 1 .. Len(t), i < j,
               t[i].id = r, t[j].id = r
        PROVE  t[i].kind \notin Last /\ t[j].kind # "READY"
    <3>1. i + 1 \in 1 .. Len(s) /\ j + 1 \in 1 .. Len(s) /\ i + 1 < j + 1
      BY <1>2, <2>1
    <3> QED
      BY <1>1, <2>1, <3>1 DEF Ordered
  <2> QED
    BY <2>1 DEF Ordered
<1>10. Ordered(s, r) /\ f.id = r => ~Opens(t, r)
  BY <1>1, <1>2, <1>4 DEF Ordered, Opens
<1>11. Ordered(s, r) /\ f.id = r /\ f.kind \in Last => ~Speaks(t, r)
  BY <1>1, <1>2, <1>4 DEF Ordered, Speaks
<1> QED
  BY <1>5, <1>6, <1>7, <1>8, <1>9, <1>10, <1>11 DEF t, f

LEMMA PrefixSays ==
  ASSUME NEW s \in Seq(DownFrames), NEW n \in 0 .. Len(s), NEW r
  PROVE  /\ Speaks(SubSeq(s, 1, n), r) => Speaks(s, r)
         /\ Ends(SubSeq(s, 1, n), r) => Ends(s, r)
         /\ Opens(SubSeq(s, 1, n), r) => Opens(s, r)
         /\ Ordered(s, r) => Ordered(SubSeq(s, 1, n), r)
<1> DEFINE t == SubSeq(s, 1, n)
<1>1. Len(s) \in Nat /\ Len(t) = n /\ \A i \in 1 .. n : i \in 1 .. Len(s) /\ t[i] = s[i]
  OBVIOUS
<1> HIDE DEF t
<1>2. Speaks(t, r) => Speaks(s, r)
  BY <1>1 DEF Speaks
<1>3. Ends(t, r) => Ends(s, r)
  BY <1>1 DEF Ends
<1>4. Opens(t, r) => Opens(s, r)
  BY <1>1 DEF Opens
<1>5. Ordered(s, r) => Ordered(t, r)
  BY <1>1 DEF Ordered
<1> QED
  BY <1>2, <1>3, <1>4, <1>5 DEF t

LEMMA SaysEmpty ==
  ASSUME NEW r
  PROVE  ~Speaks(<<>>, r) /\ ~Ends(<<>>, r) /\ ~Opens(<<>>, r) /\ Ordered(<<>>, r)
BY DEF Speaks, Ends, Opens, Ordered

\* The pieces on a stream are counted.
LEMMA PiecesCount ==
  ASSUME NEW s \in Seq(DownFrames), NEW r
  PROVE  IsFiniteSet(Pieces(s, r)) /\ Cardinality(Pieces(s, r)) \in Nat
<1>1. Len(s) \in Nat
  OBVIOUS
<1>2. IsFiniteSet(1 .. Len(s))
  BY <1>1, FS_Interval
<1>3. Pieces(s, r) \subseteq 1 .. Len(s)
  BY DEF Pieces
<1> QED
  BY <1>2, <1>3, FS_Subset, FS_CardinalityType

LEMMA AppendCount ==
  ASSUME NEW s \in Seq(DownFrames), NEW f \in DownFrames, NEW r
  PROVE  Cardinality(Pieces(Append(s, f), r)) =
           Cardinality(Pieces(s, r)) + (IF f.id = r /\ f.kind = "STDOUT" THEN 1 ELSE 0)
<1> DEFINE t == Append(s, f)
<1>1. /\ Len(s) \in Nat /\ Len(t) = Len(s) + 1 /\ t[Len(s) + 1] = f
      /\ \A i \in 1 .. Len(s) : t[i] = s[i]
  OBVIOUS
<1> HIDE DEF t
<1>2. 1 .. Len(t) = (1 .. Len(s)) \cup {Len(s) + 1} /\ Len(s) + 1 \notin 1 .. Len(s)
  BY <1>1
<1>3. IsFiniteSet(Pieces(s, r)) /\ Cardinality(Pieces(s, r)) \in Nat
  BY PiecesCount
<1>4. CASE f.id = r /\ f.kind = "STDOUT"
  <2>1. Pieces(t, r) = Pieces(s, r) \cup {Len(s) + 1} /\ Len(s) + 1 \notin Pieces(s, r)
    BY <1>1, <1>2, <1>4 DEF Pieces
  <2>2. Cardinality(Pieces(t, r)) = Cardinality(Pieces(s, r)) + 1
    BY <1>3, <2>1, FS_AddElement
  <2> QED
    BY <1>4, <2>2 DEF t
<1>5. CASE ~(f.id = r /\ f.kind = "STDOUT")
  <2>1. Pieces(t, r) = Pieces(s, r)
    BY <1>1, <1>2, <1>5 DEF Pieces
  <2> QED
    BY <1>3, <1>5, <2>1 DEF t
<1> QED
  BY <1>4, <1>5

LEMMA TailCount ==
  ASSUME NEW s \in Seq(DownFrames), s # <<>>, NEW r
  PROVE  Cardinality(Pieces(s, r)) = Cardinality(Pieces(Tail(s), r))
           + (IF Head(s).id = r /\ Head(s).kind = "STDOUT" THEN 1 ELSE 0)
<1> DEFINE t == Tail(s)
           f == Head(s)
           A == Pieces(t, r)
           B == Pieces(s, r) \ {1}
           shift == [i \in A |-> i + 1]
<1>1. /\ Len(s) \in Nat \ {0} /\ Len(t) = Len(s) - 1 /\ s[1] = f
      /\ \A i \in 1 .. Len(t) : t[i] = s[i + 1]
      /\ t \in Seq(DownFrames)
  OBVIOUS
<1> HIDE DEF t, f
<1>2. \A i \in 1 .. Len(t) : i + 1 \in 1 .. Len(s) /\ i + 1 # 1
  BY <1>1
<1>3. \A i \in 1 .. Len(s) : i # 1 => i - 1 \in 1 .. Len(t) /\ s[i] = t[i - 1] /\ (i - 1) + 1 = i
  BY <1>1
<1>4. shift \in Bijection(A, B)
  <2>1. \A i \in A : i \in Nat /\ shift[i] = i + 1 /\ shift[i] \in B
    BY <1>1, <1>2 DEF Pieces
  <2>2. \A i, j \in A : shift[i] = shift[j] => i = j
    BY <2>1
  <2>3. \A k \in B : \E i \in A : shift[i] = k
    <3>1. ASSUME NEW k \in B PROVE k - 1 \in A /\ shift[k - 1] = k
      <4>1. k \in 1 .. Len(s) /\ k # 1 /\ s[k].id = r /\ s[k].kind = "STDOUT"
        BY <3>1 DEF Pieces
      <4>2. k - 1 \in A
        BY <1>3, <4>1 DEF Pieces
      <4> QED
        BY <1>3, <4>1, <4>2
    <3> QED
      BY <3>1
  <2>4. shift \in [A -> B]
    BY <2>1
  <2> HIDE DEF shift
  <2> QED
    BY <2>2, <2>3, <2>4 DEF Bijection, Injection, Surjection, IsInjective
<1>5. IsFiniteSet(A) /\ Cardinality(A) \in Nat /\ IsFiniteSet(Pieces(s, r))
      /\ Cardinality(Pieces(s, r)) \in Nat
  BY <1>1, PiecesCount
<1>6. IsFiniteSet(B) /\ Cardinality(B) = Cardinality(A)
  BY <1>4, <1>5, FS_Bijection DEF ExistsBijection
<1>7. 1 \in Pieces(s, r) <=> f.id = r /\ f.kind = "STDOUT"
  BY <1>1 DEF Pieces
<1>8. CASE 1 \in Pieces(s, r)
  <2>1. Cardinality(B) = Cardinality(Pieces(s, r)) - 1
    BY <1>5, <1>8, FS_RemoveElement
  <2> QED
    BY <1>5, <1>6, <1>7, <1>8, <2>1 DEF t, f
<1>9. CASE 1 \notin Pieces(s, r)
  <2>1. B = Pieces(s, r)
    BY <1>9
  <2>2. Cardinality(Pieces(s, r)) = Cardinality(A)
    BY <1>6, <2>1
  <2>3. ~(f.id = r /\ f.kind = "STDOUT")
    BY <1>7, <1>9
  <2> HIDE DEF B, shift
  <2> QED
    BY <1>5, <2>2, <2>3 DEF t, f
<1> QED
  BY <1>8, <1>9

\* A prefix that still has the last frame of the request has all of its pieces.
LEMMA PrefixCount ==
  ASSUME NEW s \in Seq(DownFrames), NEW n \in 0 .. Len(s), NEW r
  PROVE  /\ Cardinality(Pieces(SubSeq(s, 1, n), r)) =< Cardinality(Pieces(s, r))
         /\ Ordered(s, r) /\ Ends(SubSeq(s, 1, n), r) =>
              Cardinality(Pieces(SubSeq(s, 1, n), r)) = Cardinality(Pieces(s, r))
<1> DEFINE t == SubSeq(s, 1, n)
<1>1. Len(s) \in Nat /\ Len(t) = n /\ \A i \in 1 .. n : i \in 1 .. Len(s) /\ t[i] = s[i]
  OBVIOUS
<1> HIDE DEF t
<1>2. Pieces(t, r) \subseteq Pieces(s, r)
  BY <1>1 DEF Pieces
<1>3. IsFiniteSet(Pieces(s, r))
  BY PiecesCount
<1>4. Cardinality(Pieces(t, r)) =< Cardinality(Pieces(s, r))
  BY <1>2, <1>3, FS_Subset
<1>5. ASSUME Ordered(s, r), Ends(t, r) PROVE Pieces(t, r) = Pieces(s, r)
  <2>1. PICK i \in 1 .. n : s[i].id = r /\ s[i].kind \in Last /\ i \in 1 .. Len(s)
    BY <1>1, <1>5 DEF Ends
  <2>2. ASSUME NEW j \in 1 .. Len(s), s[j].id = r PROVE j =< i
    BY <1>5, <2>1, <2>2 DEF Ordered
  <2>3. \A j \in Pieces(s, r) : j \in 1 .. n
    BY <1>1, <2>1, <2>2 DEF Pieces
  <2> QED
    BY <1>1, <1>2, <2>3 DEF Pieces
<1> QED
  BY <1>4, <1>5 DEF t

LEMMA CountEmpty ==
  ASSUME NEW r
  PROVE  Cardinality(Pieces(<<>>, r)) = 0
<1>1. Pieces(<<>>, r) = {}
  BY DEF Pieces
<1> QED
  BY <1>1, FS_EmptySet

LEMMA PendingHost ==
  ASSUME Kinds, RequestInv, PendingInv, OutputInv, HostNext
  PROVE  PendingInv'
<1>0. /\ call \in [Request -> {"idle", "entered", "sending", "admission", "response",
                             "cancelling", "delivering", "grace", "failing", "done"}]
      /\ result \in [Request -> Outcome \cup {None}]
      /\ reply \in [Request -> Outcome \cup {None}]
      /\ pending \subseteq Request
      /\ down \in Seq(DownFrames)
  BY DEF Kinds, HostKinds, WireTypeOK
<1>1. \A r \in Request : result[r] # None => call[r] = "done"
  BY DEF RequestInv, ToldInv
<1>2. ASSUME NEW q \in Request, execute(q) PROVE PendingInv'
  BY <1>0, <1>1, <1>2 DEF execute, Goes, PendingInv
<1>3. ASSUME NEW q \in Request,
             CheckOpen(q) \/ TakeReady(q) \/ GiveUp(q)
      PROVE  PendingInv'
  BY <1>0, <1>3 DEF CheckOpen, TakeReady, GiveUp, Goes, PendingInv
<1>4. ASSUME NEW q \in Request, SendOpen(q) \/ SendCancel(q) PROVE PendingInv'
  <2>1. /\ call' = [call EXCEPT ![q] = "admission"] \/ call' = [call EXCEPT ![q] = "grace"]
        /\ UNCHANGED <<result, reply, pending, closed, failing>>
    BY <1>4 DEF SendOpen, SendCancel, Goes
  <2> QED
    BY <1>0, <2>1 DEF PendingInv
<1>5. ASSUME NEW q \in Request, CancelUndelivered(q) \/ CancelUnconfirmed(q)
      PROVE  PendingInv'
  BY <1>0, <1>5 DEF CancelUndelivered, CancelUnconfirmed, BeginFailure, Goes, PendingInv
<1>6. ASSUME NEW q \in Request, SendFails(q) \/ TakeReply(q) \/ CancelConfirmed(q)
      PROVE  PendingInv'
  <2>1. /\ call' = [call EXCEPT ![q] = "done"]
        /\ reply' = [reply EXCEPT ![q] = None]
        /\ pending \ {q} \subseteq pending' /\ pending' \subseteq pending
        /\ UNCHANGED <<closed, failing>>
    BY <1>6 DEF SendFails, TakeReply, CancelConfirmed, Returns, Goes
  <2>2. \E ok, m : /\ result' = [result EXCEPT ![q] = [ok |-> ok, may |-> m]]
                   /\ ok = FALSE \/ reply[q] # None
    BY <1>6 DEF SendFails, TakeReply, CancelConfirmed, Returns
  <2>3. PICK ok, m : /\ result' = [result EXCEPT ![q] = [ok |-> ok, may |-> m]]
                     /\ ok = FALSE \/ reply[q] # None
    BY <2>2
  <2>4. [ok |-> ok, may |-> m].ok = ok
    OBVIOUS
  <2>5. ASSUME NEW r \in Request, result'[r] # None, result'[r].ok PROVE r \notin pending'
    <3>1. CASE r = q
      <4>1. result'[r].ok = ok
        BY <1>0, <2>3, <2>4, <3>1
      <4> QED
        BY <2>1, <2>3, <2>5, <3>1, <4>1 DEF PendingInv
    <3>2. CASE r # q
      <4>1. result'[r] = result[r]
        BY <1>0, <2>3, <3>2
      <4> QED
        BY <2>1, <2>5, <4>1 DEF PendingInv
    <3> QED
      BY <3>1, <3>2
  <2> QED
    BY <1>0, <2>1, <2>5 DEF PendingInv
<1>7. ASSUME NEW t \in failing, fail_all(t) PROVE PendingInv'
  <2>1. /\ pending' = {} /\ closed' = closed /\ failing' = failing \ {t}
        /\ \A r \in Request : call'[r] = call[r] \/ call'[r] = "done"
    BY <1>0, <1>7 DEF fail_all, Goes
  <2>2. \A r \in Request : r \notin pending => reply'[r] \in {None, reply[r]}
    BY <1>7 DEF fail_all
  <2> QED
    BY <1>7, <2>1, <2>2 DEF PendingInv
<1>8. CASE retire_idle \/ WriterWrites
  <2>1. UNCHANGED <<call, result, reply, pending, failing>> /\ (closed => closed')
    BY <1>8 DEF retire_idle, WriterWrites
  <2> QED
    BY <2>1 DEF PendingInv
<1>9. CASE WriterFails \/ ReaderFails \/ child_loop
  <2>1. /\ UNCHANGED <<call, result, reply, pending>> /\ (closed => closed')
        /\ closed' \/ UNCHANGED failing
    BY <1>9 DEF WriterFails, ReaderFails, child_loop, BeginFailure
  <2> QED
    BY <2>1 DEF PendingInv
<1>10. CASE dispatch_frame
  <2> DEFINE f == Head(down)
             new == [ok |-> f.kind = "EXIT", may |-> f.may \/ f.kind = "ERROR"]
  <2>1. /\ down # <<>> /\ UNCHANGED <<call, result, closed, failing>>
        /\ \/ UNCHANGED <<pending, reply>>
           \/ /\ f.id \in pending
              /\ pending' = pending \ {f.id} /\ reply' = [reply EXCEPT ![f.id] = new]
    BY <1>10 DEF dispatch_frame, Delivers
  <2>2. Speaks(down, f.id)
    BY <1>0, <2>1, TailSays
  <2>3. f.id \in Request => call[f.id] \notin Early
    BY <2>2 DEF OutputInv, FrameInv
  <2> HIDE DEF f, new
  <2> QED
    BY <1>0, <2>1, <2>3 DEF PendingInv, Early
<1> QED
  BY <1>2, <1>3, <1>4, <1>5, <1>6, <1>7, <1>8, <1>9, <1>10 DEF HostNext, CallStep

\* The claim that a caller can rely on.
Denied(o) == o # None /\ o.ok /\ ~o.may

\* What a step of the local end that reads no frame does to a request.
NoFrame(r) ==
  /\ UNCHANGED <<down, ready, received>> /\ link' = link
  /\ closed => closed'
  /\ r \in pending /\ r \notin pending' =>
       closed' \/ (call[r] \in {"entered", "sending"} /\ call'[r] = "done")
  /\ Denied(reply'[r]) => Denied(reply[r])
  /\ Denied(result'[r]) => Denied(result[r]) \/ Denied(reply[r])

LEMMA CallNoFrame ==
  ASSUME Kinds, NEW q \in Request, CallStep(q), NEW r \in Request
  PROVE  NoFrame(r)
<1>0. /\ call \in [Request -> {"idle", "entered", "sending", "admission", "response",
                             "cancelling", "delivering", "grace", "failing", "done"}]
      /\ result \in [Request -> Outcome \cup {None}]
      /\ reply \in [Request -> Outcome \cup {None}]
  BY DEF Kinds, HostKinds
<1>1. CASE execute(q) \/ CheckOpen(q) \/ TakeReady(q) \/ GiveUp(q) \/ SendOpen(q)
           \/ SendCancel(q) \/ CancelUndelivered(q) \/ CancelUnconfirmed(q)
  <2> USE DEF execute, CheckOpen, TakeReady, GiveUp, SendOpen, SendCancel,
              CancelUndelivered, CancelUnconfirmed
  <2>1. UNCHANGED <<down, ready, received, reply, result, link>>
    BY <1>1 DEF wireVars
  <2>2. UNCHANGED closed \/ closed'
    BY <1>1 DEF BeginFailure
  <2>3. UNCHANGED pending \/ pending' = pending \cup {q}
    BY <1>1
  <2> QED
    BY <2>1, <2>2, <2>3 DEF NoFrame
<1>2. CASE SendFails(q) \/ TakeReply(q) \/ CancelConfirmed(q)
  <2>1. /\ UNCHANGED <<down, ready, received, closed, link>>
        /\ call' = [call EXCEPT ![q] = "done"]
        /\ reply' = [reply EXCEPT ![q] = None]
        /\ \/ pending' = pending
           \/ pending' = pending \ {q} /\ call[q] \in {"entered", "sending"}
    BY <1>2 DEF SendFails, TakeReply, CancelConfirmed, Returns, Goes, wireVars
  <2>2. \E ok, m : /\ result' = [result EXCEPT ![q] = [ok |-> ok, may |-> m]]
                   /\ \/ ok = FALSE
                      \/ reply[q] # None /\ ok = reply[q].ok /\ m = reply[q].may
    BY <1>2 DEF SendFails, TakeReply, CancelConfirmed, Returns
  <2>3. PICK ok, m : /\ result' = [result EXCEPT ![q] = [ok |-> ok, may |-> m]]
                     /\ \/ ok = FALSE
                        \/ reply[q] # None /\ ok = reply[q].ok /\ m = reply[q].may
    BY <2>2
  <2>4. [ok |-> ok, may |-> m].ok = ok /\ [ok |-> ok, may |-> m].may = m
    OBVIOUS
  <2>5. CASE r = q
    <3>1. /\ call'[r] = "done" /\ reply'[r] = None
          /\ result'[r].ok = ok /\ result'[r].may = m
      BY <1>0, <2>1, <2>3, <2>4, <2>5
    <3> QED
      BY <2>1, <2>3, <2>5, <3>1 DEF NoFrame, Denied
  <2>6. CASE r # q
    <3>1. reply'[r] = reply[r] /\ result'[r] = result[r]
      BY <1>0, <2>1, <2>3, <2>6
    <3> QED
      BY <2>1, <2>6, <3>1 DEF NoFrame
  <2> QED
    BY <2>5, <2>6
<1> QED
  BY <1>1, <1>2 DEF CallStep

LEMMA HostNoFrame ==
  ASSUME Kinds, PendingInv, HostNext, ~dispatch_frame, NEW r \in Request
  PROVE  NoFrame(r)
<1>0. result \in [Request -> Outcome \cup {None}]
  BY DEF Kinds, HostKinds
<1>1. ASSUME NEW q \in Request, CallStep(q) PROVE NoFrame(r)
  BY <1>1, CallNoFrame
<1>2. ASSUME NEW t \in failing, fail_all(t) PROVE NoFrame(r)
  <2>1. UNCHANGED <<down, ready, received, closed, link>> /\ closed
    BY <1>2 DEF fail_all, PendingInv
  <2>2. result'[r] = result[r] \/ result'[r] = [ok |-> FALSE, may |-> TRUE]
    BY <1>0, <1>2 DEF fail_all, Goes
  <2>3. reply'[r] \in {[ok |-> FALSE, may |-> TRUE], None, reply[r]}
    BY <1>2 DEF fail_all
  <2>4. ~Denied(None) /\ ~Denied([ok |-> FALSE, may |-> TRUE])
    BY DEF Denied
  <2> QED
    BY <2>1, <2>2, <2>3, <2>4 DEF NoFrame
<1>3. CASE retire_idle \/ ReaderFails \/ child_loop \/ WriterFails \/ WriterWrites
  <2>1. UNCHANGED <<down, ready, received, pending, reply, result, link>> /\ (closed => closed')
    BY <1>3 DEF retire_idle, ReaderFails, child_loop, WriterFails, WriterWrites, BeginFailure,
                wireVars
  <2> QED
    BY <2>1 DEF NoFrame
<1> QED
  BY <1>1, <1>2, <1>3 DEF HostNext

LEMMA NoFrameKeeps ==
  ASSUME NEW r \in Request, PendingInv, OpenInv(r), HostMove(r), NoFrame(r),
         DrainInv(r), FrameInv(r), CountInv(r)
  PROVE  DrainInv(r)' /\ FrameInv(r)' /\ CountInv(r)'
<1>1. UNCHANGED <<worker, shell, child, alive, may, main, drain, stop, pipe, unwritten, active>>
      /\ UNCHANGED <<down, ready, received>> /\ link' = link
  BY DEF HostMove, NoFrame, helperVars
<1>2. (Runs' <=> Runs) /\ (PipeHeld(r)' <=> PipeHeld(r)) /\ (Silent(r)' <=> Silent(r))
  BY <1>1 DEF Runs, PipeHeld, Silent
<1>3. DrainInv(r)'
  BY <1>1, <1>2 DEF DrainInv
<1>4. /\ Ordered(down, r)' <=> Ordered(down, r)
      /\ Opens(down, r)' <=> Opens(down, r)
      /\ Ends(down, r)' <=> Ends(down, r)
      /\ Speaks(down, r)' <=> Speaks(down, r)
  BY <1>1
<1>5. Runs /\ ~closed' /\ r \notin pending' =>
        worker[r] \in {"sent", "gone"} \/ (worker[r] = "none" /\ ~Due(r)')
  <2>1. ASSUME Runs, ~closed', r \notin pending, worker[r] \notin {"sent", "gone"}
        PROVE  worker[r] = "none" /\ ~Due(r)'
    <3>1. ~closed /\ worker[r] = "none" /\ ~Due(r)
      BY <2>1 DEF NoFrame, FrameInv
    <3>2. call[r] # "sending"
      BY <2>1, <3>1 DEF PendingInv
    <3> QED
      BY <3>1, <3>2 DEF HostMove
  <2>2. ASSUME Runs, call[r] \in {"entered", "sending"}, call'[r] = "done"
        PROVE  worker[r] = "none" /\ ~Due(r)'
    BY <2>2 DEF OpenInv, Never, HostMove
  <2> QED
    BY <2>1, <2>2 DEF NoFrame
<1>6. ~closed' /\ Speaks(down, r) => r \in pending'
  <2>1. call[r] \in Early => ~Speaks(down, r)
    BY DEF FrameInv
  <2> QED
    BY <2>1 DEF FrameInv, NoFrame, Early
<1>7. call'[r] \in Early => call[r] \in Early
  BY DEF HostMove, Early
<1>8. FrameInv(r)'
  BY <1>1, <1>2, <1>4, <1>5, <1>6, <1>7 DEF FrameInv
<1>9. OnTheWay(r)' = OnTheWay(r) /\ (Dry(r)' <=> Dry(r))
      /\ Pieces(down, r)' = Pieces(down, r)
  BY <1>1, <1>2 DEF OnTheWay, Dry
<1>10. /\ Denied(reply[r]) /\ r \in Command =>
            Dry(r) /\ received[r] + unwritten[r] = MaxOutput
       /\ Denied(result[r]) /\ r \in Command =>
            Dry(r) /\ received[r] + unwritten[r] = MaxOutput
  BY DEF CountInv, Denied
<1>11. /\ Denied(reply'[r]) /\ r \in Command =>
            Dry(r) /\ received[r] + unwritten[r] = MaxOutput
       /\ Denied(result'[r]) /\ r \in Command =>
            Dry(r) /\ received[r] + unwritten[r] = MaxOutput
  BY <1>10 DEF NoFrame
<1>12. CountInv(r)'
  BY <1>1, <1>2, <1>9, <1>11 DEF CountInv, Denied
<1> QED
  BY <1>3, <1>8, <1>12

LEMMA DispatchKeeps ==
  ASSUME Kinds, PendingInv, dispatch_frame, UNCHANGED helperVars,
         NEW r \in Request, HostMove(r), DrainInv(r), FrameInv(r), CountInv(r)
  PROVE  DrainInv(r)' /\ FrameInv(r)' /\ CountInv(r)'
<1> DEFINE f == Head(down)
           new == [ok |-> f.kind = "EXIT", may |-> f.may \/ f.kind = "ERROR"]
           n == Cardinality(Pieces(down, r))
           m == Cardinality(Pieces(down', r))
<1>0. /\ reply \in [Request -> Outcome \cup {None}]
      /\ ready \in [Request -> BOOLEAN]
      /\ received \in [Request -> Nat]
      /\ unwritten \in [Request -> 0 .. MaxOutput] /\ MaxOutput \in Nat
      /\ down \in Seq(DownFrames) /\ pending \subseteq Request
  BY WireAssumption DEF Kinds, HostKinds, WireTypeOK, HelperTypeOK, WireAssumption
<1>1. /\ down # <<>> /\ down' = Tail(down) /\ f \in DownFrames /\ down' \in Seq(DownFrames)
      /\ UNCHANGED <<call, result, closed, link>>
      /\ f.kind = "ERROR" \/ f.id \in pending
      /\ ready' = IF f.kind = "READY" THEN [ready EXCEPT ![f.id] = TRUE] ELSE ready
      /\ received' = IF f.kind = "STDOUT" THEN [received EXCEPT ![f.id] = @ + 1] ELSE received
      /\ IF f.kind \in Last /\ f.id \in pending
         THEN pending' = pending \ {f.id} /\ reply' = [reply EXCEPT ![f.id] = new]
         ELSE UNCHANGED <<pending, reply>>
  BY <1>0, TailType DEF dispatch_frame, Delivers, Expected, Last
<1>2. UNCHANGED <<worker, shell, child, alive, may, main, drain, stop, pipe, unwritten, active>>
  BY DEF helperVars
<1>3. (Runs' <=> Runs) /\ (PipeHeld(r)' <=> PipeHeld(r)) /\ (Silent(r)' <=> Silent(r))
      /\ (Dry(r)' <=> Dry(r))
  BY <1>2 DEF Runs, PipeHeld, Silent, Dry
<1>4. DrainInv(r)'
  BY <1>1, <1>2, <1>3 DEF DrainInv
<1>5. Due(r)' => Due(r)
  BY <1>1 DEF HostMove
<1>6. /\ Speaks(down, r) <=> Speaks(down', r) \/ f.id = r
      /\ Ends(down', r) => Ends(down, r)
      /\ Opens(down', r) => Opens(down, r)
      /\ f.id = r /\ f.kind \in Last => Ends(down, r)
      /\ f.id = r /\ f.kind = "READY" => Opens(down, r)
      /\ Ordered(down', r)
      /\ f.id = r => ~Opens(down', r)
      /\ f.id = r /\ f.kind \in Last => ~Speaks(down', r)
  BY <1>0, <1>1, TailSays DEF FrameInv, f
<1>7. n \in Nat /\ m \in Nat /\ n = m + (IF f.id = r /\ f.kind = "STDOUT" THEN 1 ELSE 0)
  BY <1>0, <1>1, PiecesCount, TailCount DEF f
<1>8. f.kind \in {"READY", "STDOUT", "EXIT", "ERROR"} /\ f.id \in Request /\ f.may \in BOOLEAN
  BY <1>1 DEF DownFrames
<1>9. Denied(new) => f = Exit(f.id)
  <2>1. f = [kind |-> f.kind, id |-> f.id, may |-> f.may]
    BY <1>1 DEF DownFrames
  <2>2. ASSUME Denied(new) PROVE f.kind = "EXIT" /\ f.may = FALSE
    <3>1. new.ok = (f.kind = "EXIT") /\ new.may = (f.may \/ f.kind = "ERROR")
      OBVIOUS
    <3> QED
      BY <1>8, <2>2, <3>1 DEF Denied
  <2> HIDE DEF f, new
  <2> QED
    BY <2>1, <2>2 DEF Exit, Frame
<1>10. Has(down, Exit(r)) <=> Has(down', Exit(r)) \/ f = Exit(r)
  BY <1>0, <1>1, TailHas DEF f
<1>11. ~Speaks(down', r) => m = 0
  <2>1. ~Speaks(down', r) => Pieces(down', r) = {}
    BY DEF Speaks, Pieces
  <2> QED
    BY <2>1, FS_EmptySet
<1> HIDE DEF f, new, n, m
<1>12. FrameInv(r)'
  <2>1. CASE f.id # r
    <3>1. (ready'[r] = ready[r]) /\ (r \in pending' <=> r \in pending)
      BY <1>0, <1>1, <1>8, <2>1
    <3> QED
      BY <1>1, <1>2, <1>3, <1>5, <1>6, <2>1, <3>1 DEF FrameInv
  <2>2. CASE f.id = r
    <3>1. /\ Speaks(down, r) /\ call[r] \notin Early
          /\ Runs => worker[r] # "none"
      BY <1>6, <2>2 DEF FrameInv
    <3>2. r \in pending => r \in pending' \/ f.kind \in Last
      BY <1>1, <2>2
    <3>3. f.kind \in Last => ~Speaks(down', r) /\ (Runs => worker[r] \in {"sent", "gone"})
      BY <1>6, <2>2 DEF FrameInv
    <3>4. r \notin pending => r \notin pending'
      BY <1>1
    <3>5. Runs /\ ~closed /\ r \notin pending => worker[r] \in {"sent", "gone"}
      BY <3>1 DEF FrameInv
    <3> QED
      BY <1>1, <1>2, <1>3, <1>6, <2>2, <3>1, <3>2, <3>3, <3>4, <3>5 DEF FrameInv
  <2> QED
    BY <2>1, <2>2
<1>13. CountInv(r)'
  <2> DEFINE h == IF drain[r] = "holding" THEN 1 ELSE 0
             p == IF pipe[r] THEN 1 ELSE 0
  <2>1. h \in Nat /\ p \in Nat /\ unwritten[r] \in Nat
    BY <1>0
  <2>2. /\ OnTheWay(r) = n + h + p + unwritten[r]
        /\ OnTheWay(r)' = m + h + p + unwritten[r]
    BY <1>2 DEF OnTheWay, n, m
  <2> HIDE DEF h, p
  <2>3. CASE f.id # r \/ f.kind = "READY"
    <3>1. received'[r] = received[r] /\ reply'[r] = reply[r]
      BY <1>0, <1>1, <1>8, <2>3 DEF Last
    <3>2. m = n /\ OnTheWay(r)' = OnTheWay(r)
      BY <1>7, <2>2, <2>3
    <3>3. Has(down', Exit(r)) => Has(down, Exit(r))
      BY <1>10
    <3> QED
      BY <1>1, <1>2, <1>3, <3>1, <3>2, <3>3 DEF CountInv, n, m
  <2>4. CASE f.id = r /\ f.kind = "STDOUT"
    <3>1. received'[r] = received[r] + 1 /\ reply'[r] = reply[r] /\ received[r] \in Nat
      BY <1>0, <1>1, <2>4 DEF Last
    <3>2. n = m + 1
      BY <1>7, <2>4
    <3>3. r \in pending
      BY <1>1, <2>4
    <3>4. reply[r] = None /\ ~(result[r] # None /\ result[r].ok)
      BY <3>3 DEF PendingInv
    <3>5. received'[r] + OnTheWay(r)' = received[r] + OnTheWay(r)
      BY <1>7, <2>1, <2>2, <3>1, <3>2
    <3>6. Has(down', Exit(r)) => Has(down, Exit(r))
      BY <1>10
    <3>7. received'[r] + m + unwritten[r] = received[r] + n + unwritten[r]
      BY <1>7, <2>1, <3>1, <3>2
    <3> QED
      BY <1>1, <1>2, <1>3, <3>1, <3>4, <3>5, <3>6, <3>7 DEF CountInv, n, m
  <2>5. CASE f.id = r /\ f.kind \in Last
    <3>1. received'[r] = received[r] /\ received[r] \in Nat
      BY <1>0, <1>1, <2>5 DEF Last
    <3>2. m = n /\ m = 0
      BY <1>6, <1>7, <1>11, <2>5 DEF Last
    <3>3. OnTheWay(r)' = OnTheWay(r)
      BY <2>2, <3>2
    <3>4. ~Has(down', Exit(r))
      <4>1. ~Speaks(down', r)
        BY <1>6, <2>5
      <4> QED
        BY <4>1 DEF Speaks, Has, Exit, Frame
    <3>5. reply'[r] = reply[r] \/ reply'[r] = new
      BY <1>0, <1>1, <2>5
    <3>6. Denied(new) /\ r \in Command => Dry(r) /\ received[r] + unwritten[r] = MaxOutput
      <4>1. Denied(new) => Has(down, Exit(r))
        BY <1>9, <1>10, <2>5
      <4>2. r \in Command /\ Has(down, Exit(r)) =>
              Dry(r) /\ received[r] + n + unwritten[r] = MaxOutput
        BY DEF CountInv, n
      <4> QED
        BY <2>1, <3>1, <3>2, <4>1, <4>2
    <3>7. Denied(reply'[r]) /\ r \in Command =>
            Dry(r) /\ received[r] + unwritten[r] = MaxOutput
      BY <3>5, <3>6 DEF CountInv, Denied
    <3> QED
      BY <1>1, <1>2, <1>3, <3>1, <3>3, <3>4, <3>7 DEF CountInv, Denied
  <2> QED
    BY <1>8, <2>3, <2>4, <2>5 DEF Last
<1> QED
  BY <1>4, <1>12, <1>13

\* The remote end.  A step says nothing to the reader about the request.
Mute(r) ==
  /\ Speaks(down', r) <=> Speaks(down, r)
  /\ Ends(down', r) => Ends(down, r)
  /\ Opens(down', r) => Opens(down, r)
  /\ Ordered(down, r) => Ordered(down', r)
  /\ Has(down', Exit(r)) => Has(down, Exit(r))
  /\ Cardinality(Pieces(down', r)) = Cardinality(Pieces(down, r))

LEMMA MuteStep ==
  ASSUME down \in Seq(DownFrames), NEW r,
         \/ UNCHANGED down
         \/ \E f \in DownFrames : f.id # r /\ Sends(f)
  PROVE  Mute(r)
<1>1. CASE UNCHANGED down
  BY <1>1 DEF Mute
<1>2. ASSUME NEW f \in DownFrames, f.id # r, Sends(f) PROVE Mute(r)
  <2>1. down' = Append(down, f) /\ f # Exit(r)
    BY <1>2 DEF Sends, Exit, Frame
  <2>2. Has(down', Exit(r)) => Has(down, Exit(r))
    BY <2>1, AppendHas
  <2>3. Cardinality(Pieces(down', r)) = Cardinality(Pieces(down, r))
    <3>1. Cardinality(Pieces(down, r)) \in Nat
      BY PiecesCount
    <3> QED
      BY <1>2, <2>1, <3>1, AppendCount
  <2> QED
    BY <1>2, <2>1, <2>2, <2>3, AppendSays DEF Mute
<1> QED
  BY <1>1, <1>2

LEMMA FrameMute ==
  ASSUME NEW r \in Request, FrameInv(r), Mute(r),
         UNCHANGED <<call, ready, pending, closed>>,
         Due(r)' => Due(r), Runs' => Runs,
         Runs' => (worker'[r] = "none" <=> worker[r] = "none"),
         worker[r] \in {"sent", "gone"} => worker'[r] \in {"sent", "gone"}
  PROVE  FrameInv(r)'
BY DEF FrameInv, Mute

LEMMA FrameSpeaks ==
  ASSUME Kinds, NEW r \in Request, FrameInv(r), OpenInv(r),
         NEW f \in DownFrames, f.id = r, f.kind # "READY", Sends(f),
         UNCHANGED <<call, ready, pending, closed, main>>, Runs,
         worker[r] \notin {"none", "sent", "gone"}, worker'[r] # "none",
         f.kind \in Last => worker'[r] \in {"sent", "gone"}
  PROVE  FrameInv(r)'
<1>1. down \in Seq(DownFrames) /\ down' = Append(down, f)
  BY DEF Kinds, WireTypeOK, Sends
<1>2. /\ Speaks(down', r)
      /\ Ends(down', r) <=> Ends(down, r) \/ f.kind \in Last
      /\ Opens(down', r) <=> Opens(down, r)
      /\ Ordered(down, r) /\ ~Ends(down, r) => Ordered(down', r)
  BY <1>1, AppendSays
<1>3. ~Ends(down, r) /\ call[r] \notin Early /\ (closed \/ r \in pending)
  BY DEF FrameInv, OpenInv, Early
<1>4. Runs'
  BY DEF Runs
<1> QED
  BY <1>2, <1>3, <1>4 DEF FrameInv

LEMMA CountMove ==
  ASSUME Kinds, NEW r \in Request, ToldInv(r), CountInv(r),
         UNCHANGED <<reply, result, received>>,
         OnTheWay(r) \in Nat, OnTheWay(r)' \in Nat, OnTheWay(r)' =< OnTheWay(r),
         r \in Command /\ Runs' /\ link' /\ ~stop'[r] =>
           Runs /\ link /\ ~stop[r] /\ OnTheWay(r)' = OnTheWay(r),
         Has(down', Exit(r)) => Has(down, Exit(r)),
         worker[r] \in {"none", "sent", "gone"} /\ ~shell[r] /\ Dry(r) =>
           /\ Dry(r)' /\ unwritten'[r] = unwritten[r]
           /\ Cardinality(Pieces(down', r)) = Cardinality(Pieces(down, r))
  PROVE  CountInv(r)'
<1>1. received[r] \in Nat /\ MaxOutput \in Nat
  BY WireAssumption DEF Kinds, HostKinds, WireAssumption
<1>2. /\ Has(down, Exit(r)) => Finished(r)
      /\ Denied(reply[r]) \/ Denied(result[r]) => Finished(r) \/ Never(r)
  BY DEF ToldInv, Denied
<1>3. Finished(r) \/ Never(r) => worker[r] \in {"none", "sent", "gone"} /\ ~shell[r]
  BY DEF Finished, Never, GroupAlive
<1>4. received[r] + OnTheWay(r)' =< MaxOutput
  BY <1>1 DEF CountInv
<1>5. r \in Command /\ Runs' /\ link' /\ ~stop'[r] => received[r] + OnTheWay(r)' = MaxOutput
  BY DEF CountInv
<1>6. r \in Command /\ Has(down', Exit(r)) =>
        Dry(r)' /\ received[r] + Cardinality(Pieces(down', r)) + unwritten'[r] = MaxOutput
  BY <1>2, <1>3 DEF CountInv
<1>7. /\ r \in Command /\ Denied(reply[r]) =>
            Dry(r)' /\ received[r] + unwritten'[r] = MaxOutput
      /\ r \in Command /\ Denied(result[r]) =>
            Dry(r)' /\ received[r] + unwritten'[r] = MaxOutput
  BY <1>2, <1>3 DEF CountInv, Denied
<1> QED
  BY <1>4, <1>5, <1>6, <1>7 DEF CountInv, Denied

LEMMA WayType ==
  ASSUME Kinds, NEW r \in Request
  PROVE  /\ Cardinality(Pieces(down, r)) \in Nat
         /\ unwritten[r] \in Nat
         /\ OnTheWay(r) \in Nat
<1>1. /\ unwritten \in [Request -> 0 .. MaxOutput] /\ MaxOutput \in Nat
      /\ down \in Seq(DownFrames)
  BY WireAssumption DEF Kinds, HelperTypeOK, WireTypeOK, WireAssumption
<1>2. Cardinality(Pieces(down, r)) \in Nat /\ unwritten[r] \in Nat
  BY <1>1, PiecesCount
<1> QED
  BY <1>2 DEF OnTheWay

LEMMA WayNext ==
  ASSUME Kinds', NEW r \in Request
  PROVE  /\ Cardinality(Pieces(down', r)) \in Nat
         /\ unwritten'[r] \in Nat
         /\ OnTheWay(r)' \in Nat
<1>1. /\ unwritten' \in [Request -> 0 .. MaxOutput] /\ MaxOutput \in Nat
      /\ down' \in Seq(DownFrames)
  BY WireAssumption DEF Kinds, HelperTypeOK, WireTypeOK, WireAssumption
<1>2. Cardinality(Pieces(down', r)) \in Nat /\ unwritten'[r] \in Nat
  BY <1>1, PiecesCount
<1> QED
  BY <1>2 DEF OnTheWay

\* The request is left alone, or its processes end.
Still(r) ==
  /\ worker'[r] = worker[r] \/ (worker[r] = "spawned" /\ worker'[r] = "waiting")
  /\ drain'[r] = drain[r] /\ stop'[r] = stop[r] /\ pipe'[r] = pipe[r]
  /\ unwritten'[r] = unwritten[r] /\ may'[r] = may[r]
  /\ r \in active' => r \in active
  /\ shell'[r] => shell[r]
  /\ PipeHeld(r)' => PipeHeld(r)
  /\ ~shell[r] /\ child[r] = None => child'[r] = None
  /\ Runs' => Runs
  /\ link' = link
  /\ Mute(r)

LEMMA StillKeeps ==
  ASSUME Kinds, Kinds', NEW r \in Request, ToldInv(r), Still(r), UNCHANGED hostVars,
         Due(r)' => Due(r), DrainInv(r), FrameInv(r), CountInv(r)
  PROVE  DrainInv(r)' /\ FrameInv(r)' /\ CountInv(r)'
<1>1. UNCHANGED <<call, ready, pending, closed, reply, result, received>>
  BY DEF hostVars
<1>2. Runs' => Runs
  BY DEF Still, Runs
<1>3. Silent(r) => Silent(r)'
  BY DEF Still, Silent
<1>4. DrainInv(r)'
  BY <1>2, <1>3 DEF DrainInv, Still
<1>5. FrameInv(r)'
  BY <1>1, <1>2, FrameMute DEF Still
<1>6. OnTheWay(r)' = OnTheWay(r) /\ OnTheWay(r) \in Nat
  BY WayType DEF OnTheWay, Still, Mute
<1>7. Dry(r) => Dry(r)'
  BY DEF Dry, Still
<1>8. CountInv(r)'
  BY <1>1, <1>2, <1>6, <1>7, CountMove DEF Still, Mute
<1> QED
  BY <1>4, <1>5, <1>8

LEMMA HaltKeeps ==
  ASSUME Kinds, Kinds', NEW r \in Request, ToldInv(r), UNCHANGED hostVars,
         NEW how \in {"ended", "stuck"}, Stops(how), UNCHANGED <<down, link>>,
         Due(r)' => Due(r), DrainInv(r), FrameInv(r), CountInv(r)
  PROVE  DrainInv(r)' /\ FrameInv(r)' /\ CountInv(r)'
<1>1. UNCHANGED <<call, ready, pending, closed, reply, result, received>>
  BY DEF hostVars
<1>2. /\ ~Runs' /\ worker'[r] = "gone" /\ drain'[r] = "closed" /\ stop'[r] = FALSE
      /\ UNCHANGED <<shell, child, unwritten, pipe>>
  BY DEF Stops, Runs
<1>3. Mute(r)
  BY MuteStep DEF Kinds, WireTypeOK
<1>4. DrainInv(r)'
  BY <1>2 DEF DrainInv
<1>5. FrameInv(r)'
  BY <1>1, <1>2, <1>3, FrameMute
<1>6. OnTheWay(r)' =< OnTheWay(r) /\ OnTheWay(r) \in Nat /\ OnTheWay(r)' \in Nat
  BY <1>2, WayType DEF OnTheWay
<1>7. Dry(r) => Dry(r)'
  BY <1>2 DEF Dry, PipeHeld
<1>8. CountInv(r)'
  BY <1>1, <1>2, <1>3, <1>6, <1>7, CountMove DEF Mute
<1> QED
  BY <1>4, <1>5, <1>8

LEMMA WorkerKeeps ==
  ASSUME Kinds, Kinds', NEW r \in Request, WorkerStep(r), UNCHANGED hostVars,
         OpenInv(r), GroupInv(r), ToldInv(r), DrainInv(r), FrameInv(r), CountInv(r)
  PROVE  DrainInv(r)' /\ FrameInv(r)' /\ CountInv(r)'
<1>0. /\ worker \in [Request -> {"none", "ready", "spawned", "waiting", "reaped",
                               "draining", "exiting", "sent", "gone"}]
      /\ alive \in [Request -> BOOLEAN] /\ may \in [Request -> BOOLEAN]
      /\ shell \in [Request -> BOOLEAN] /\ pipe \in [Request -> BOOLEAN]
      /\ stop \in [Request -> BOOLEAN]
      /\ drain \in [Request -> {"waiting", "holding", "closed"}]
      /\ unwritten \in [Request -> 0 .. MaxOutput] /\ MaxOutput \in Nat
      /\ down \in Seq(DownFrames)
  BY WireAssumption DEF Kinds, HelperTypeOK, WireTypeOK, WireAssumption
<1>1. UNCHANGED <<call, ready, pending, closed, reply, result, received, queue>>
  BY DEF hostVars
<1>2. /\ Runs /\ main' = main /\ Runs'
      /\ UNCHANGED <<up, link, drain, pipe>>
  BY DEF WorkerStep, SpawnCommand, CheckCancelled, Reap, LookForGroup, EndDrain, SendExit,
         RequestFails, EndWorker, TaskOutput, TaskExit, Runs, wireVars
<1>3. Due(r)' => Due(r)
  BY <1>1, <1>2 DEF Due
<1>4. /\ \A kind \in {"READY", "STDOUT", "EXIT", "ERROR"}, m \in BOOLEAN :
           /\ Frame(kind, r, m) \in DownFrames
           /\ Frame(kind, r, m).id = r /\ Frame(kind, r, m).kind = kind
  <2>1. \A kind \in {"READY", "STDOUT", "EXIT", "ERROR"}, m \in BOOLEAN :
           Frame(kind, r, m) \in DownFrames
    BY FrameTypes
  <2> QED
    BY <2>1 DEF Frame
<1>5. UNCHANGED down => Mute(r)
  BY <1>0, MuteStep
<1>6. OnTheWay(r) \in Nat /\ OnTheWay(r)' \in Nat
  BY WayType, WayNext
<1>7. CASE SpawnCommand(r)
  <2>1. /\ worker[r] = "ready" /\ worker'[r] = "spawned"
        /\ UNCHANGED <<stop, unwritten, active, down, may>>
    BY <1>0, <1>7 DEF SpawnCommand, Works, wireVars
  <2>2. FrameInv(r)'
    BY <1>1, <1>2, <1>3, <1>5, <2>1, FrameMute
  <2>3. drain[r] = "waiting"
    BY <2>1 DEF DrainInv
  <2>4. DrainInv(r)'
    BY <1>2, <2>1, <2>3 DEF DrainInv
  <2>5. OnTheWay(r)' = OnTheWay(r)
    BY <1>2, <2>1 DEF OnTheWay
  <2>6. CountInv(r)'
    BY <1>1, <1>2, <1>5, <1>6, <2>1, <2>5, CountMove DEF Mute
  <2> QED
    BY <2>2, <2>4, <2>6
<1>8. CASE CheckCancelled(r)
  <2>1. PICK S : Kills(S)
    BY <1>8 DEF CheckCancelled, Cancels
  <2>2. /\ worker[r] = "spawned" /\ worker'[r] = "waiting"
        /\ UNCHANGED <<stop, unwritten, active, down, may>>
    BY <1>0, <1>8 DEF CheckCancelled, Works, wireVars
  <2>3. PipeHeld(r)' => PipeHeld(r)
    BY <2>1, KillsQuietly
  <2>4. Still(r)
    BY <1>2, <1>5, <2>1, <2>2, <2>3, KillsQuietly DEF Still
  <2> QED
    BY <1>3, <2>4, StillKeeps
<1>9. CASE Reap(r) \/ LookForGroup(r)
  <2>1. /\ worker[r] \in {"waiting", "reaped"} /\ worker'[r] \in {"reaped", "draining"}
        /\ UNCHANGED <<stop, unwritten, active, down, may, shell, child>>
    BY <1>0, <1>9 DEF Reap, LookForGroup, Works, wireVars
  <2>2. FrameInv(r)'
    BY <1>1, <1>2, <1>3, <1>5, <2>1, FrameMute
  <2>3. DrainInv(r)'
    BY <1>2, <2>1 DEF DrainInv, PipeHeld
  <2>4. OnTheWay(r)' = OnTheWay(r)
    BY <1>2, <2>1 DEF OnTheWay
  <2>5. CountInv(r)'
    BY <1>1, <1>2, <1>5, <1>6, <2>1, <2>4, CountMove DEF Mute
  <2> QED
    BY <2>2, <2>3, <2>5
<1>10. CASE EndDrain(r)
  <2>1. /\ worker[r] = "draining" /\ worker'[r] = "exiting"
        /\ may'[r] = (alive[r] \/ drain[r] # "closed")
        /\ stop'[r] = (drain[r] # "closed")
        /\ UNCHANGED <<unwritten, active, down, shell, child>>
    BY <1>0, <1>10 DEF EndDrain, Works, wireVars
  <2>2. FrameInv(r)'
    BY <1>1, <1>2, <1>3, <1>5, <2>1, FrameMute
  <2>3. DrainInv(r)'
    BY <1>2, <2>1 DEF DrainInv, PipeHeld, Silent
  <2>4. OnTheWay(r)' = OnTheWay(r)
    BY <1>2, <2>1 DEF OnTheWay
  <2>5. ~stop[r]
    BY <2>1 DEF DrainInv
  <2>6. CountInv(r)'
    BY <1>1, <1>2, <1>5, <1>6, <2>1, <2>4, <2>5, CountMove DEF Mute
  <2> QED
    BY <2>2, <2>3, <2>6
<1>11. CASE EndWorker(r)
  <2>1. /\ worker[r] = "sent" /\ worker'[r] = "gone" /\ active' = active \ {r}
        /\ UNCHANGED <<stop, unwritten, down, shell, child>>
    BY <1>0, <1>11 DEF EndWorker, Works, wireVars
  <2>2. FrameInv(r)'
    BY <1>1, <1>2, <1>3, <1>5, <2>1, FrameMute
  <2>3. DrainInv(r)'
    BY <1>2, <2>1 DEF DrainInv, PipeHeld, Silent
  <2>4. OnTheWay(r)' = OnTheWay(r)
    BY <1>2, <2>1 DEF OnTheWay
  <2>5. Dry(r) => Dry(r)'
    BY <1>2, <2>1 DEF Dry, PipeHeld
  <2>6. CountInv(r)'
    BY <1>1, <1>2, <1>5, <1>6, <2>1, <2>4, <2>5, CountMove DEF Mute
  <2> QED
    BY <2>2, <2>3, <2>6
<1>12. CASE TaskOutput(r)
  <2>1. /\ r \notin Command /\ worker[r] = "ready" /\ worker' = worker
        /\ unwritten'[r] = unwritten[r] - 1
        /\ UNCHANGED <<stop, active, may, shell, child>>
        /\ UNCHANGED down \/ Sends(Frame("STDOUT", r, FALSE))
    BY <1>0, <1>12 DEF TaskOutput
  <2> DEFINE g == Frame("STDOUT", r, FALSE)
  <2>2. g \in DownFrames /\ g.id = r /\ g.kind = "STDOUT" /\ g # Exit(r)
    BY <1>4 DEF Exit, Frame
  <2> HIDE DEF g
  <2>3. DrainInv(r)'
    BY <1>2, <2>1 DEF DrainInv, PipeHeld, Silent
  <2>4. CASE UNCHANGED down
    <3>1. FrameInv(r)'
      BY <1>1, <1>2, <1>3, <1>5, <2>1, <2>4, FrameMute
    <3>2. OnTheWay(r)' =< OnTheWay(r)
      BY <1>2, <1>6, <2>1, <2>4, WayType DEF OnTheWay
    <3>3. CountInv(r)'
      BY <1>1, <1>5, <1>6, <2>1, <2>4, <3>2, CountMove DEF Mute
    <3> QED
      BY <2>3, <3>1, <3>3
  <2>5. CASE Sends(g)
    <3>1. FrameInv(r)'
      BY <1>1, <1>2, <2>1, <2>2, <2>5, FrameSpeaks DEF Last
    <3>2. down' = Append(down, g)
      BY <2>5 DEF Sends
    <3>3. Cardinality(Pieces(down', r)) = Cardinality(Pieces(down, r)) + 1
      BY <1>0, <2>2, <3>2, AppendCount
    <3>4. OnTheWay(r)' = OnTheWay(r)
      BY <1>2, <2>1, <3>3, WayType DEF OnTheWay
    <3>5. Has(down', Exit(r)) => Has(down, Exit(r))
      BY <1>0, <2>2, <3>2, AppendHas
    <3>6. CountInv(r)'
      BY <1>1, <1>6, <2>1, <3>4, <3>5, CountMove
    <3> QED
      BY <2>3, <3>1, <3>6
  <2> QED
    BY <2>1, <2>4, <2>5 DEF g
<1>13. ASSUME NEW f \in DownFrames, f.id = r, f.kind \in Last,
              Sends(f) \/ UNCHANGED down,
              worker[r] \in {"ready", "exiting"}, worker'[r] = "sent",
              UNCHANGED <<stop, active, may, shell, child, unwritten>>,
              f = Exit(r) /\ r \in Command /\ Sends(f) => worker[r] = "exiting" /\ ~may[r]
       PROVE  DrainInv(r)' /\ FrameInv(r)' /\ CountInv(r)'
  <2>1. DrainInv(r)'
    BY <1>2, <1>13 DEF DrainInv, PipeHeld, Silent, GroupInv
  <2>2. FrameInv(r)'
    <3>1. CASE UNCHANGED down
      BY <1>1, <1>2, <1>3, <1>5, <1>13, <3>1, FrameMute
    <3>2. CASE Sends(f)
      BY <1>1, <1>2, <1>13, <3>2, FrameSpeaks DEF Last
    <3> QED
      BY <1>13, <3>1, <3>2
  <2>3. Cardinality(Pieces(down', r)) = Cardinality(Pieces(down, r))
    <3>1. CASE UNCHANGED down
      BY <3>1
    <3>2. CASE Sends(f)
      BY <1>0, <1>13, <3>2, AppendCount, WayType DEF Sends, Last
    <3> QED
      BY <1>13, <3>1, <3>2
  <2>4. OnTheWay(r)' = OnTheWay(r)
    BY <1>2, <1>13, <2>3 DEF OnTheWay
  <2>5. Dry(r) => Dry(r)'
    <3>1. UNCHANGED <<shell, child, pipe>>
      BY <1>2, <1>13
    <3> QED
      BY <3>1 DEF Dry, PipeHeld
  <2>6. ASSUME Has(down', Exit(r)) => Has(down, Exit(r)) PROVE CountInv(r)'
    BY <1>1, <1>2, <1>6, <1>13, <2>3, <2>4, <2>5, <2>6, CountMove
  <2>7. ASSUME r \notin Command PROVE CountInv(r)'
    BY <1>1, <1>13, <2>4, <2>7 DEF CountInv
  <2>8. ASSUME Has(down', Exit(r)), ~Has(down, Exit(r)), r \in Command
        PROVE  CountInv(r)'
    <3>1. Sends(f) /\ f = Exit(r)
      <4>1. Sends(f)
        BY <1>13, <2>8
      <4> QED
        BY <1>0, <1>13, <2>8, <4>1, AppendHas DEF Sends
    <3>2. worker[r] = "exiting" /\ ~may[r] /\ link
      BY <1>13, <2>8, <3>1 DEF Sends
    <3>3. drain[r] = "closed" /\ ~stop[r] /\ Dry(r) /\ ~pipe[r]
      BY <1>2, <3>2 DEF DrainInv, Dry
    <3>4. received[r] + OnTheWay(r) = MaxOutput
      BY <1>2, <2>8, <3>2, <3>3 DEF CountInv
    <3>5. OnTheWay(r) = Cardinality(Pieces(down, r)) + unwritten[r]
      BY <3>3, WayType DEF OnTheWay
    <3>6. reply[r] # None /\ ~reply[r].may => FALSE
      BY <3>2 DEF ToldInv, Finished
    <3>7. result[r] # None /\ ~result[r].may => FALSE
      BY <3>2 DEF ToldInv, Finished, Never
    <3>8. received[r] \in Nat
      BY DEF Kinds, HostKinds
    <3>9. received[r] + Cardinality(Pieces(down', r)) + unwritten'[r] = MaxOutput
      BY <1>13, <2>3, <3>4, <3>5, <3>8, WayType
    <3>10. received[r] + OnTheWay(r)' =< MaxOutput
      BY <1>0, <2>4, <3>4
    <3> QED
      BY <1>1, <2>4, <2>5, <3>3, <3>4, <3>6, <3>7, <3>9, <3>10 DEF CountInv
  <2> QED
    BY <2>1, <2>2, <2>6, <2>7, <2>8
<1>14. CASE SendExit(r)
  <2> DEFINE g == Frame("EXIT", r, may[r])
  <2>1. /\ worker[r] = "exiting" /\ worker'[r] = "sent"
        /\ UNCHANGED <<stop, active, may, shell, child, unwritten>>
        /\ Sends(g) \/ UNCHANGED down
    BY <1>0, <1>14 DEF SendExit, Works, WriteFails
  <2>2. /\ g \in DownFrames /\ g.id = r /\ g.kind \in Last
        /\ g = Exit(r) => ~may[r]
    BY <1>0, <1>4 DEF Exit, Frame, Last
  <2> HIDE DEF g
  <2> QED
    BY <1>13, <2>1, <2>2
<1>15. CASE RequestFails(r)
  <2> DEFINE g == Frame("ERROR", r, FALSE)
  <2>1. /\ worker[r] = "ready" /\ worker'[r] = "sent"
        /\ UNCHANGED <<stop, active, may, shell, child, unwritten>>
        /\ Sends(g) \/ UNCHANGED down
    BY <1>0, <1>15 DEF RequestFails, Works, WriteFails
  <2>2. /\ g \in DownFrames /\ g.id = r /\ g.kind \in Last /\ g # Exit(r)
    BY <1>4 DEF Exit, Frame, Last
  <2> HIDE DEF g
  <2> QED
    BY <1>13, <2>1, <2>2
<1>16. CASE TaskExit(r)
  <2> DEFINE g == Frame("EXIT", r, FALSE)
  <2>1. /\ worker[r] = "ready" /\ worker'[r] = "sent" /\ r \notin Command
        /\ UNCHANGED <<stop, active, may, shell, child, unwritten>>
        /\ Sends(g) \/ UNCHANGED down
    BY <1>0, <1>16 DEF TaskExit, Works, WriteFails
  <2>2. /\ g \in DownFrames /\ g.id = r /\ g.kind \in Last
    BY <1>4 DEF Last
  <2> HIDE DEF g
  <2> QED
    BY <1>13, <2>1, <2>2
<1> QED
  BY <1>7, <1>8, <1>9, <1>10, <1>11, <1>12, <1>14, <1>15, <1>16 DEF WorkerStep

LEMMA OpenKeeps ==
  ASSUME Kinds, Kinds', NEW r \in Request, HelperOpen, UNCHANGED hostVars,
         OpenInv(r), ToldInv(r), DrainInv(r), FrameInv(r), CountInv(r)
  PROVE  DrainInv(r)' /\ FrameInv(r)' /\ CountInv(r)'
<1> DEFINE f == Head(up)
<1>0. /\ worker \in [Request -> {"none", "ready", "spawned", "waiting", "reaped",
                               "draining", "exiting", "sent", "gone"}]
      /\ up \in Seq(UpFrames) /\ down \in Seq(DownFrames)
  BY DEF Kinds, HelperTypeOK, WireTypeOK
<1>1. UNCHANGED <<call, ready, pending, closed, reply, result, received, queue>>
  BY DEF hostVars
<1>2. /\ main = "reading" /\ main' = main /\ up # <<>> /\ up' = Tail(up) /\ link' = link
      /\ UNCHANGED <<alive, may, shell, child, unwritten, pipe, drain, stop>>
      /\ f.kind = "OPEN"
      /\ IF f.id \in active
         THEN Sends(Frame("ERROR", f.id, FALSE)) /\ UNCHANGED <<active, worker>>
         ELSE /\ active' = active \cup {f.id}
              /\ Sends(Frame("READY", f.id, FALSE))
              /\ worker' = [worker EXCEPT ![f.id] = "ready"]
  BY DEF HelperOpen, Works
<1>3. f \in UpFrames
  BY <1>0, <1>2, TailType
<1>4. f.id \in Request /\ f = Open(f.id)
  BY <1>2, <1>3 DEF UpFrames, Open, Frame
<1>5. /\ Has(up, Open(r)) <=> Has(up', Open(r)) \/ f = Open(r)
      /\ Once(up, Open(r)) /\ f = Open(r) => ~Has(up', Open(r))
  BY <1>0, <1>2, TailHas DEF f
<1>6. Due(r)' => Due(r)
  BY <1>1, <1>5 DEF Due
<1>7. Runs /\ Runs' /\ (PipeHeld(r)' <=> PipeHeld(r))
  BY <1>2 DEF Runs, PipeHeld
<1> HIDE DEF f
<1>8. \A kind \in {"ERROR", "READY"} :
        /\ Frame(kind, f.id, FALSE) \in DownFrames
        /\ Frame(kind, f.id, FALSE).id = f.id /\ Frame(kind, f.id, FALSE).kind = kind
  <2>1. \A kind \in {"ERROR", "READY"} : Frame(kind, f.id, FALSE) \in DownFrames
    BY <1>4, FrameTypes
  <2> QED
    BY <2>1 DEF Frame
<1>9. CASE f.id # r
  <2>1. Mute(r)
    BY <1>0, <1>2, <1>8, <1>9, MuteStep
  <2>2. worker'[r] = worker[r] /\ (r \in active' => r \in active)
    BY <1>0, <1>2, <1>4, <1>9
  <2>3. Still(r)
    BY <1>2, <1>7, <2>1, <2>2 DEF Still
  <2> QED
    BY <1>6, <2>3, StillKeeps
<1>10. CASE f.id = r
  <2> DEFINE g == Frame("READY", r, FALSE)
  <2>1. Due(r) /\ worker[r] = "none" /\ r \notin active
    BY <1>4, <1>5, <1>7, <1>10 DEF Due, OpenInv, DrainInv
  <2>2. /\ Sends(g) /\ g \in DownFrames /\ g.id = r /\ g.kind = "READY"
        /\ worker'[r] = "ready"
    BY <1>0, <1>2, <1>8, <1>10, <2>1
  <2>3. g # Exit(r)
    BY DEF Frame, Exit
  <2> HIDE DEF g
  <2>4. /\ ~Speaks(down, r) /\ ~ready[r] /\ call[r] \notin Early
        /\ closed \/ r \in pending
    BY <1>7, <2>1 DEF FrameInv, OpenInv, Never, Early
  <2>5. down' = Append(down, g) /\ ~Ends(down, r)
    BY <2>2, <2>4 DEF Sends, Speaks, Ends
  <2>6. Ordered(down', r) /\ ~Ends(down', r)
    BY <1>0, <2>2, <2>4, <2>5, AppendSays DEF FrameInv, Last
  <2>7. FrameInv(r)'
    BY <1>1, <1>7, <2>2, <2>4, <2>6 DEF FrameInv
  <2>8. DrainInv(r)'
    BY <1>2, <1>7, <2>1, <2>2 DEF DrainInv
  <2>9. Cardinality(Pieces(down', r)) = Cardinality(Pieces(down, r))
    BY <1>0, <2>2, <2>5, AppendCount, WayType
  <2>10. OnTheWay(r)' = OnTheWay(r) /\ OnTheWay(r) \in Nat
    BY <1>2, <2>9, WayType DEF OnTheWay
  <2>11. Has(down', Exit(r)) => Has(down, Exit(r))
    BY <1>0, <2>2, <2>3, <2>5, AppendHas
  <2>12. Dry(r) => Dry(r)'
    BY <1>2, <1>7 DEF Dry
  <2>13. CountInv(r)'
    BY <1>1, <1>2, <1>7, <2>9, <2>10, <2>11, <2>12, CountMove
  <2> QED
    BY <2>7, <2>8, <2>13
<1> QED
  BY <1>9, <1>10

LEMMA MainKeeps ==
  ASSUME Kinds, Kinds', NEW r \in Request, MainStep \/ HelperWedges, UNCHANGED hostVars,
         OpenInv(r), ToldInv(r), DrainInv(r), FrameInv(r), CountInv(r)
  PROVE  DrainInv(r)' /\ FrameInv(r)' /\ CountInv(r)'
<1>1. Due(r)' => Due(r)
  BY MainMoves DEF HelperMove, Asked, Due
<1>2. CASE HelperOpen
  BY <1>2, OpenKeeps
<1>3. CASE HelperFails \/ HelperEnds \/ HelperWedges
  <2>1. /\ Stops("ended") \/ Stops("stuck")
        /\ UNCHANGED <<down, link>>
    BY <1>3 DEF HelperFails, HelperEnds, HelperWedges, wireVars
  <2> QED
    BY <1>1, <2>1, HaltKeeps
<1>4. CASE HelperCancel \/ HelperClose
  <2>1. PICK S : MainCancels(S)
    BY <1>4 DEF HelperCancel, HelperClose
  <2>2. /\ UNCHANGED <<may, down, link, active, unwritten, pipe, drain, stop>> /\ Runs
    BY <1>4 DEF HelperCancel, HelperClose, wireVars, Runs
  <2>3. Mute(r)
    BY <2>2, MuteStep DEF Kinds, WireTypeOK
  <2>4. Still(r)
    BY <2>1, <2>2, <2>3, MainCancelsQuietly DEF Still
  <2> QED
    BY <1>1, <2>4, StillKeeps
<1> QED
  BY <1>2, <1>3, <1>4 DEF MainStep

LEMMA DrainKeeps ==
  ASSUME Kinds, Kinds', NEW r \in Request, DrainStep(r) \/ CommandWrites(r),
         UNCHANGED hostVars,
         OpenInv(r), GroupInv(r), ToldInv(r), DrainInv(r), FrameInv(r), CountInv(r)
  PROVE  DrainInv(r)' /\ FrameInv(r)' /\ CountInv(r)'
<1>0. /\ pipe \in [Request -> BOOLEAN] /\ stop \in [Request -> BOOLEAN]
      /\ shell \in [Request -> BOOLEAN]
      /\ drain \in [Request -> {"waiting", "holding", "closed"}]
      /\ unwritten \in [Request -> 0 .. MaxOutput] /\ MaxOutput \in Nat
      /\ down \in Seq(DownFrames)
  BY WireAssumption DEF Kinds, HelperTypeOK, WireTypeOK, WireAssumption
<1>1. UNCHANGED <<call, ready, pending, closed, reply, result, received, queue>>
  BY DEF hostVars
<1>2. /\ Runs /\ main' = main /\ Runs'
      /\ UNCHANGED <<up, link, worker, may, stop, shell, child, active>>
  BY DEF DrainStep, DrainReads, DrainSends, DrainEof, CommandWrites, Runs, wireVars
<1>3. (Due(r)' <=> Due(r)) /\ (PipeHeld(r)' <=> PipeHeld(r))
  BY <1>1, <1>2 DEF Due, PipeHeld
<1>4. UNCHANGED down => Mute(r)
  BY <1>0, MuteStep
<1>5. UNCHANGED down => FrameInv(r)'
  BY <1>1, <1>2, <1>3, <1>4, FrameMute
<1>6. OnTheWay(r) \in Nat /\ OnTheWay(r)' \in Nat
  BY WayType, WayNext
<1>7. None \notin {"quiet", "output", "stdin", "escaped"}
  BY WireAssumption DEF WireAssumption
<1>8. CASE DrainReads(r)
  <2>1. /\ drain[r] = "waiting" /\ pipe[r] /\ ~pipe'[r]
        /\ drain'[r] = IF stop[r] THEN "waiting" ELSE "holding"
        /\ UNCHANGED <<unwritten, down>>
    BY <1>0, <1>8 DEF DrainReads, wireVars
  <2>2. DrainInv(r)'
    BY <1>2, <1>3, <2>1 DEF DrainInv, Silent
  <2>3. OnTheWay(r)' =< OnTheWay(r) /\ (~stop[r] => OnTheWay(r)' = OnTheWay(r))
    BY <2>1, WayType DEF OnTheWay
  <2>4. ~Dry(r)
    BY <2>1 DEF Dry
  <2>5. CountInv(r)'
    BY <1>1, <1>2, <1>4, <1>6, <2>1, <2>3, <2>4, CountMove DEF Mute
  <2> QED
    BY <1>5, <2>1, <2>2, <2>5
<1>9. CASE DrainEof(r)
  <2>1. /\ drain[r] = "waiting" /\ drain'[r] = "closed"
        /\ worker[r] \notin {"none", "ready"} /\ ~pipe[r] /\ ~PipeHeld(r)
        /\ UNCHANGED <<unwritten, down, pipe>>
    BY <1>0, <1>9 DEF DrainEof, wireVars
  <2>2. DrainInv(r)'
    BY <1>2, <1>3, <2>1 DEF DrainInv, Silent
  <2>3. OnTheWay(r)' = OnTheWay(r)
    BY <2>1 DEF OnTheWay
  <2>4. Dry(r) => Dry(r)'
    BY <1>3, <2>1 DEF Dry
  <2>5. CountInv(r)'
    BY <1>1, <1>2, <1>4, <1>6, <2>1, <2>3, <2>4, CountMove DEF Mute
  <2> QED
    BY <1>5, <2>1, <2>2, <2>5
<1>10. CASE CommandWrites(r)
  <2>1. /\ PipeHeld(r) /\ ~pipe[r] /\ pipe'[r]
        /\ unwritten'[r] = unwritten[r] - 1
        /\ UNCHANGED <<drain, down>>
    BY <1>0, <1>10 DEF CommandWrites, wireVars
  <2>2. worker[r] \notin {"none", "ready"}
    BY <1>7, <2>1 DEF GroupInv, PipeHeld
  <2>3. DrainInv(r)'
    BY <1>2, <1>3, <1>7, <2>1, <2>2 DEF DrainInv, Silent, PipeHeld
  <2>4. OnTheWay(r)' = OnTheWay(r)
    <3> DEFINE n == Cardinality(Pieces(down, r))
               h == IF drain[r] = "holding" THEN 1 ELSE 0
    <3>1. n \in Nat /\ h \in Nat /\ unwritten[r] \in Nat
      BY WayType
    <3>2. OnTheWay(r) = n + h + 0 + unwritten[r]
      BY <2>1 DEF OnTheWay
    <3>3. OnTheWay(r)' = n + h + 1 + unwritten'[r]
      BY <2>1 DEF OnTheWay
    <3> HIDE DEF n, h
    <3> QED
      BY <2>1, <3>1, <3>2, <3>3
  <2>5. ~Dry(r)
    BY <2>1 DEF Dry
  <2>6. CountInv(r)'
    BY <1>1, <1>2, <1>4, <1>6, <2>1, <2>4, <2>5, CountMove DEF Mute
  <2> QED
    BY <1>5, <2>1, <2>3, <2>6
<1>11. CASE DrainSends(r)
  <2> DEFINE g == Frame("STDOUT", r, FALSE)
  <2>1. /\ drain[r] = "holding" /\ UNCHANGED <<unwritten, pipe>>
        /\ \/ ~stop[r] /\ Sends(g) /\ drain'[r] = "waiting"
           \/ ~link /\ UNCHANGED down /\ drain'[r] = "closed"
           \/ stop[r] /\ UNCHANGED down /\ drain'[r] = "waiting"
    BY <1>0, <1>11 DEF DrainSends, MaySend, WriteFails
  <2>2. g \in DownFrames /\ g.id = r /\ g.kind = "STDOUT" /\ g # Exit(r)
    <3>1. g \in DownFrames
      BY FrameTypes
    <3> QED
      BY <3>1 DEF Frame, Exit
  <2> HIDE DEF g
  <2>3. DrainInv(r)'
    BY <1>2, <1>3, <2>1 DEF DrainInv, Silent
  <2>4. (Dry(r) => Dry(r)') /\ worker[r] \notin {"none", "ready"}
    BY <1>3, <2>1 DEF Dry, DrainInv
  <2>5. CASE UNCHANGED down /\ (~link \/ stop[r])
    <3>1. OnTheWay(r)' =< OnTheWay(r)
      BY <1>2, <2>1, <2>5, WayType DEF OnTheWay
    <3>2. CountInv(r)'
      BY <1>1, <1>2, <1>4, <1>6, <2>1, <2>4, <2>5, <3>1, CountMove DEF Mute
    <3> QED
      BY <1>5, <2>3, <2>5, <3>2
  <2>6. CASE ~stop[r] /\ Sends(g) /\ drain'[r] = "waiting"
    <3>1. worker[r] \notin {"exiting", "sent", "gone"}
      BY <1>2, <2>1, <2>6 DEF DrainInv, Silent
    <3>2. FrameInv(r)'
      BY <1>1, <1>2, <2>2, <2>4, <2>6, <3>1, FrameSpeaks DEF Last
    <3>3. down' = Append(down, g)
      BY <2>6 DEF Sends
    <3>4. Cardinality(Pieces(down', r)) = Cardinality(Pieces(down, r)) + 1
      BY <1>0, <2>2, <3>3, AppendCount
    <3>5. OnTheWay(r)' = OnTheWay(r)
      BY <2>1, <2>6, <3>4, WayType DEF OnTheWay
    <3>6. Has(down', Exit(r)) => Has(down, Exit(r))
      BY <1>0, <2>2, <3>3, AppendHas
    <3>7. CountInv(r)'
      BY <1>1, <1>2, <1>6, <2>4, <3>1, <3>5, <3>6, CountMove
    <3> QED
      BY <2>3, <3>2, <3>7
  <2> QED
    BY <2>1, <2>5, <2>6
<1> QED
  BY <1>8, <1>9, <1>10, <1>11 DEF DrainStep

\* What one request's worker, drain and processes do leaves the others alone.
LEMMA OthersStill ==
  ASSUME Kinds, NEW q \in Request,
         WorkerStep(q) \/ WatchdogFires(q) \/ DrainStep(q)
           \/ CommandWrites(q) \/ ShellEnds(q) \/ ChildEnds(q),
         NEW r \in Request, r # q
  PROVE  Still(r)
<1>0. /\ worker \in [Request -> {"none", "ready", "spawned", "waiting", "reaped",
                               "draining", "exiting", "sent", "gone"}]
      /\ may \in [Request -> BOOLEAN] /\ shell \in [Request -> BOOLEAN]
      /\ child \in [Request -> Offspring \cup {None}]
      /\ pipe \in [Request -> BOOLEAN] /\ stop \in [Request -> BOOLEAN]
      /\ drain \in [Request -> {"waiting", "holding", "closed"}]
      /\ unwritten \in [Request -> 0 .. MaxOutput]
      /\ down \in Seq(DownFrames)
  BY DEF Kinds, HelperTypeOK, WireTypeOK
<1> USE DEF SpawnCommand, CheckCancelled, Reap, LookForGroup, EndDrain, SendExit,
            RequestFails, EndWorker, TaskOutput, TaskExit, WatchdogFires, DrainReads,
            DrainSends, DrainEof, CommandWrites, ShellEnds, ChildEnds, WorkerStep, DrainStep
<1>1. main' = main /\ link' = link /\ active' \subseteq active
  <2>1. main' = main /\ link' = link
    BY DEF wireVars
  <2>2. active' = active \/ active' = active \ {q}
    OBVIOUS
  <2> QED
    BY <2>1, <2>2
<1>2. worker'[r] = worker[r]
  BY <1>0 DEF Works
<1>3. may'[r] = may[r] /\ drain'[r] = drain[r] /\ stop'[r] = stop[r]
      /\ pipe'[r] = pipe[r] /\ unwritten'[r] = unwritten[r]
  BY <1>0
<1>4. /\ shell'[r] => shell[r]
      /\ PipeHeld(r)' => PipeHeld(r)
      /\ ~shell[r] /\ child[r] = None => child'[r] = None
  <2>1. CASE CheckCancelled(q) \/ WatchdogFires(q)
    <3>1. \E S : Kills(S)
      BY <2>1 DEF Cancels
    <3> QED
      BY <3>1, KillsQuietly
  <2>2. CASE ~(CheckCancelled(q) \/ WatchdogFires(q))
    <3>1. shell'[r] = shell[r] /\ child'[r] = child[r]
      BY <1>0, <2>2
    <3> QED
      BY <3>1 DEF PipeHeld
  <2> QED
    BY <2>1, <2>2
<1>5. Mute(r)
  <2>1. \/ UNCHANGED down
        \/ \E kind \in {"STDOUT", "EXIT", "ERROR"}, b \in BOOLEAN : Sends(Frame(kind, q, b))
    BY <1>0 DEF WriteFails, wireVars
  <2>2. ASSUME NEW kind \in {"STDOUT", "EXIT", "ERROR"}, NEW b \in BOOLEAN,
               Sends(Frame(kind, q, b))
        PROVE  Mute(r)
    <3>1. Frame(kind, q, b) \in DownFrames
      BY FrameTypes
    <3>2. Frame(kind, q, b).id # r
      BY DEF Frame
    <3> QED
      BY <1>0, <2>2, <3>1, <3>2, MuteStep
  <2>3. CASE UNCHANGED down
    BY <1>0, <2>3, MuteStep
  <2> QED
    BY <2>1, <2>2, <2>3
<1>6. Runs' => Runs
  BY <1>1 DEF Runs
<1> QED
  BY <1>1, <1>2, <1>3, <1>4, <1>5, <1>6 DEF Still

LEMMA ProcessesStill ==
  ASSUME Kinds, NEW r \in Request, WatchdogFires(r) \/ ShellEnds(r) \/ ChildEnds(r)
  PROVE  Still(r)
<1>0. /\ shell \in [Request -> BOOLEAN]
      /\ child \in [Request -> Offspring \cup {None}]
      /\ down \in Seq(DownFrames)
  BY DEF Kinds, HelperTypeOK, WireTypeOK
<1>1. UNCHANGED <<main, active, worker, may, unwritten, pipe, drain, stop, down, link>>
  BY DEF WatchdogFires, ShellEnds, ChildEnds, wireVars
<1>2. Mute(r)
  BY <1>0, <1>1, MuteStep
<1>3. /\ shell'[r] => shell[r]
      /\ PipeHeld(r)' => PipeHeld(r)
      /\ ~shell[r] /\ child[r] = None => child'[r] = None
  <2>1. CASE WatchdogFires(r)
    <3>1. \E S : Kills(S)
      BY <2>1 DEF WatchdogFires, Cancels
    <3> QED
      BY <3>1, KillsQuietly
  <2>2. CASE ShellEnds(r)
    <3>1. shell[r] /\ ~shell'[r]
      BY <1>0, <2>2 DEF ShellEnds
    <3> QED
      BY <3>1 DEF PipeHeld
  <2>3. CASE ChildEnds(r)
    <3>1. shell'[r] = shell[r] /\ child'[r] = None
      BY <1>0, <2>3 DEF ChildEnds
    <3>2. None \notin {"quiet", "output", "stdin", "escaped"}
      BY WireAssumption DEF WireAssumption
    <3> QED
      BY <3>1, <3>2 DEF PipeHeld
  <2> QED
    BY <2>1, <2>2, <2>3
<1>4. Runs' => Runs
  BY <1>1 DEF Runs
<1> QED
  BY <1>1, <1>2, <1>3, <1>4 DEF Still

LEMMA HelperKeeps ==
  ASSUME Kinds, Kinds', NEW r \in Request, HelperNext, UNCHANGED hostVars,
         OpenInv(r), GroupInv(r), ToldInv(r), DrainInv(r), FrameInv(r), CountInv(r)
  PROVE  DrainInv(r)' /\ FrameInv(r)' /\ CountInv(r)'
<1>1. Due(r)' => Due(r)
  BY HelperMoves DEF HelperMove, Asked, Due
<1>2. CASE MainStep \/ HelperWedges
  BY <1>2, MainKeeps
<1>3. ASSUME NEW q \in Request,
             WorkerStep(q) \/ WatchdogFires(q) \/ DrainStep(q)
               \/ CommandWrites(q) \/ ShellEnds(q) \/ ChildEnds(q)
      PROVE  DrainInv(r)' /\ FrameInv(r)' /\ CountInv(r)'
  <2>1. CASE q # r
    BY <1>1, <1>3, <2>1, OthersStill, StillKeeps
  <2>2. CASE q = r /\ WorkerStep(r)
    BY <2>2, WorkerKeeps
  <2>3. CASE q = r /\ (DrainStep(r) \/ CommandWrites(r))
    BY <2>3, DrainKeeps
  <2>4. CASE q = r /\ (WatchdogFires(r) \/ ShellEnds(r) \/ ChildEnds(r))
    BY <1>1, <2>4, ProcessesStill, StillKeeps
  <2> QED
    BY <1>3, <2>1, <2>2, <2>3, <2>4
<1> QED
  BY <1>2, <1>3 DEF HelperNext

LEMMA LinkKeeps ==
  ASSUME Kinds, NEW r \in Request, LinkFails,
         DrainInv(r), FrameInv(r), CountInv(r)
  PROVE  DrainInv(r)' /\ FrameInv(r)' /\ CountInv(r)'
<1>0. /\ up \in Seq(UpFrames) /\ down \in Seq(DownFrames) /\ received[r] \in Nat
      /\ unwritten[r] \in Nat /\ MaxOutput \in Nat /\ Cardinality(Pieces(down, r)) \in Nat
  BY WayType, WireAssumption DEF Kinds, WireTypeOK, HostKinds, WireAssumption
<1>1. /\ UNCHANGED <<call, ready, pending, closed, reply, result, received, queue>>
      /\ UNCHANGED <<main, active, worker, may, shell, child, unwritten, pipe, drain, stop>>
      /\ ~link'
  BY DEF LinkFails, LinkEnds, hostVars, helperVars
<1>2. PICK k \in 0 .. Len(up) : up' = SubSeq(up, 1, k)
  BY DEF LinkFails, LinkEnds
<1>3. PICK n \in 0 .. Len(down) : down' = SubSeq(down, 1, n)
  BY DEF LinkFails, LinkEnds
<1>4. Due(r)' => Due(r)
  BY <1>0, <1>1, <1>2, PrefixHas DEF Due
<1>5. /\ Speaks(down', r) => Speaks(down, r)
      /\ Ends(down', r) => Ends(down, r)
      /\ Opens(down', r) => Opens(down, r)
      /\ Ordered(down', r)
  BY <1>0, <1>3, PrefixSays DEF FrameInv
<1>6. /\ (Runs' <=> Runs) /\ (PipeHeld(r)' <=> PipeHeld(r)) /\ (Silent(r)' <=> Silent(r))
      /\ (Dry(r)' <=> Dry(r))
  BY <1>1 DEF Runs, PipeHeld, Silent, Dry
<1>7. DrainInv(r)'
  BY <1>1, <1>6 DEF DrainInv
<1>8. FrameInv(r)'
  BY <1>1, <1>4, <1>5, <1>6 DEF FrameInv
<1>9. Has(down', Exit(r)) => Has(down, Exit(r)) /\ Ends(down', r)
  <2>1. Has(down', Exit(r)) => Has(down, Exit(r))
    BY <1>0, <1>3, PrefixHas
  <2>2. Has(down', Exit(r)) => Ends(down', r)
    BY DEF Has, Ends, Exit, Frame, Last
  <2> QED
    BY <2>1, <2>2
<1>10. /\ Cardinality(Pieces(down', r)) =< Cardinality(Pieces(down, r))
       /\ Has(down', Exit(r)) => Cardinality(Pieces(down', r)) = Cardinality(Pieces(down, r))
  BY <1>0, <1>3, <1>9, PrefixCount DEF FrameInv
<1>11. Cardinality(Pieces(down', r)) \in Nat
  <2>1. down' \in Seq(DownFrames)
    BY <1>0, <1>3, PrefixType
  <2> QED
    BY <2>1, PiecesCount
<1>12. OnTheWay(r)' =< OnTheWay(r) /\ OnTheWay(r) \in Nat /\ OnTheWay(r)' \in Nat
  <2> DEFINE a == Cardinality(Pieces(down, r))
             b == Cardinality(Pieces(down', r))
             h == IF drain[r] = "holding" THEN 1 ELSE 0
             p == IF pipe[r] THEN 1 ELSE 0
  <2>1. a \in Nat /\ b \in Nat /\ b =< a /\ h \in Nat /\ p \in Nat
    BY <1>0, <1>10, <1>11
  <2>2. OnTheWay(r) = a + h + p + unwritten[r] /\ OnTheWay(r)' = b + h + p + unwritten[r]
    BY <1>1 DEF OnTheWay
  <2> HIDE DEF a, b, h, p
  <2> QED
    BY <1>0, <2>1, <2>2
<1>13. received[r] + OnTheWay(r)' =< MaxOutput
  BY <1>0, <1>12 DEF CountInv
<1>14. CountInv(r)'
  BY <1>1, <1>6, <1>9, <1>10, <1>13 DEF CountInv
<1> QED
  BY <1>7, <1>8, <1>14

LEMMA OutputStep ==
  ASSUME Kinds, Kinds', RequestInv, PendingInv, OutputInv, [Next]_vars
  PROVE  PendingInv' /\ OutputInv'
<1>1. PendingInv'
  <2>1. CASE HostNext /\ UNCHANGED helperVars
    BY <2>1, PendingHost
  <2>2. CASE UNCHANGED hostVars
    BY <2>2 DEF hostVars, PendingInv
  <2> QED
    BY <2>1, <2>2 DEF Next, LinkFails, vars
<1>2. ASSUME NEW r \in Request PROVE DrainInv(r)' /\ FrameInv(r)' /\ CountInv(r)'
  <2>1. /\ OpenInv(r) /\ GroupInv(r) /\ ToldInv(r)
        /\ DrainInv(r) /\ FrameInv(r) /\ CountInv(r)
    BY DEF RequestInv, OutputInv
  <2>2. CASE HostNext /\ UNCHANGED helperVars
    <3>1. HostMove(r)
      BY <2>1, <2>2, HostMoves
    <3>2. CASE dispatch_frame
      BY <2>1, <2>2, <3>1, <3>2, DispatchKeeps
    <3>3. CASE ~dispatch_frame
      BY <2>1, <2>2, <3>1, <3>3, HostNoFrame, NoFrameKeeps
    <3> QED
      BY <3>2, <3>3
  <2>3. CASE HelperNext /\ UNCHANGED hostVars
    BY <2>1, <2>3, HelperKeeps
  <2>4. CASE LinkFails
    BY <2>1, <2>4, LinkKeeps
  <2>5. CASE UNCHANGED vars
    BY <2>1, <2>5 DEF vars, hostVars, helperVars, wireVars, DrainInv, FrameInv, CountInv,
       Runs, PipeHeld, Silent, Due, OnTheWay, Dry
  <2> QED
    BY <2>2, <2>3, <2>4, <2>5 DEF Next
<1> QED
  BY <1>1, <1>2 DEF OutputInv

LEMMA InitOutput == Init => PendingInv /\ OutputInv
<1>1. SUFFICES ASSUME Init PROVE PendingInv /\ OutputInv
  OBVIOUS
<1>2. /\ queue = <<>> /\ up = <<>> /\ down = <<>> /\ failing = {} /\ pending = {}
      /\ active = {}
      /\ \A r \in Request :
           /\ call[r] = "idle" /\ result[r] = None /\ reply[r] = None
           /\ ready[r] = FALSE /\ received[r] = 0
           /\ worker[r] = "none" /\ shell[r] = FALSE /\ child[r] = None
           /\ drain[r] = "waiting" /\ pipe[r] = FALSE /\ stop[r] = FALSE
           /\ unwritten[r] = MaxOutput
  BY <1>1 DEF Init, WireInit, HostInit, HelperInit
<1>3. PendingInv
  BY <1>2 DEF PendingInv
<1>4. ASSUME NEW r \in Request PROVE DrainInv(r) /\ FrameInv(r) /\ CountInv(r)
  <2>1. /\ ~Speaks(down, r) /\ ~Ends(down, r) /\ ~Opens(down, r) /\ Ordered(down, r)
        /\ ~Has(down, Exit(r)) /\ ~Due(r)
        /\ Cardinality(Pieces(down, r)) = 0
    BY <1>2, SaysEmpty, EmptyHas, CountEmpty DEF Due
  <2>2. DrainInv(r)
    BY <1>2 DEF DrainInv
  <2>3. FrameInv(r)
    BY <1>2, <2>1 DEF FrameInv
  <2>4. MaxOutput \in Nat
    BY WireAssumption DEF WireAssumption
  <2>5. OnTheWay(r) = MaxOutput
    BY <1>2, <2>1, <2>4 DEF OnTheWay
  <2>6. CountInv(r)
    BY <1>2, <2>1, <2>4, <2>5 DEF CountInv
  <2> QED
    BY <2>2, <2>3, <2>6
<1> QED
  BY <1>3, <1>4 DEF OutputInv

LEMMA SessionInvariant == Spec => [](Kinds /\ RequestInv /\ PendingInv /\ OutputInv)
<1>1. Init => Kinds /\ RequestInv /\ PendingInv /\ OutputInv
  BY InitTypes, InitRequest, InitOutput
<1>2. Kinds /\ RequestInv /\ PendingInv /\ OutputInv /\ [Next]_vars =>
        Kinds' /\ RequestInv' /\ PendingInv' /\ OutputInv'
  BY StepTypes, RequestStep, OutputStep
<1> QED
  BY <1>1, <1>2, PTL DEF Spec

\* Every variable of the two ends and the streams keeps to its kind, and no call
\* is given more output than its request has.
THEOREM SessionTypes == Spec => []TypeOK
<1>1. Kinds /\ OutputInv => TypeOK
  <2>1. SUFFICES ASSUME Kinds, OutputInv, NEW r \in Request PROVE received[r] =< MaxOutput
    BY DEF TypeOK, Kinds, HostTypeOK
  <2>2. received[r] \in Nat /\ OnTheWay(r) \in Nat /\ MaxOutput \in Nat
    BY <2>1, WayType, WireAssumption DEF Kinds, HostKinds, WireAssumption
  <2>3. received[r] + OnTheWay(r) =< MaxOutput
    BY <2>1 DEF OutputInv, CountInv
  <2> QED
    BY <2>2, <2>3
<1> QED
  BY <1>1, SessionInvariant, PTL

\* The output of a command is complete when its EXIT arrives, and the reader of
\* an open session never meets a frame that dispatch_frame takes for an error of
\* the protocol (drain_stream, stop_sending, execute_request; dispatch_frame).
THEOREM OutputArrives == Spec => []OutputComplete
<1>1. Kinds /\ OutputInv => OutputComplete
  <2>1. SUFFICES ASSUME Kinds, OutputInv PROVE OutputComplete
    OBVIOUS
  <2>2. ASSUME NEW r \in Request, r \in Command, result[r] # None, result[r].ok, ~result[r].may
        PROVE  ~pipe[r] /\ received[r] = MaxOutput - unwritten[r]
    <3>1. Dry(r) /\ received[r] + unwritten[r] = MaxOutput
      BY <2>1, <2>2 DEF OutputInv, CountInv
    <3>2. received[r] \in Nat /\ unwritten[r] \in Nat
      BY <2>1, WayType DEF Kinds, HostKinds
    <3> QED
      BY <3>1, <3>2 DEF Dry
  <2>3. ASSUME ~closed, down # <<>> PROVE Expected(Head(down))
    <3> DEFINE f == Head(down)
    <3>1. down \in Seq(DownFrames) /\ f \in DownFrames
      BY <2>1, <2>3, TailType DEF Kinds, WireTypeOK
    <3>2. f.id \in Request
      BY <3>1 DEF DownFrames
    <3>3. /\ Speaks(down, f.id)
          /\ f.kind = "READY" => Opens(down, f.id)
      BY <2>3, <3>1, TailSays
    <3> HIDE DEF f
    <3>4. f.id \in pending /\ (f.kind = "READY" => ~ready[f.id])
      BY <2>1, <2>3, <3>2, <3>3 DEF OutputInv, FrameInv
    <3> QED
      BY <3>4 DEF Expected, f
  <2> QED
    BY <2>2, <2>3 DEF OutputComplete
<1> QED
  BY <1>1, SessionInvariant, PTL
=============================================================================
