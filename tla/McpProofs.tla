----------------------------- MODULE McpProofs ------------------------------
(***************************************************************************)
(* Proofs about the MCP server with its port forwards (McpSystem): for any *)
(* number of requests, whatever ids the client gives them, and wherever    *)
(* cancellations, time-outs and lost connections meet them, answers come   *)
(* in order, and an orderly end leaves nothing of a forward behind.        *)
(***************************************************************************)
EXTENDS McpSystem, TLAPS

-----------------------------------------------------------------------------
(* The inductive invariant: the order of the answers.                      *)

Inputs == {"loop", "reap", "control", "respond"}
Places == Inputs \cup {"parse error", "closing", "cleanup", "drain", "service", "join", "ended"}
TaskStates == {"none", "running", "aborting", "ended", "joined"}

ServerTypes ==
  /\ input \in Seq([type : Other \cup Asks \cup {"cancel"},
                    request : Request \cup {None}, of : Id])
  /\ sent \in 0 .. Requests /\ id \in [Request -> Id]
  /\ open \in {"open", "eof", "partial eof", "failed"}
  /\ pc \in Places /\ message \in Message
  /\ active \in [Id -> Request \cup {None}]
  /\ task \in [Request -> TaskStates]
  /\ ready \in Seq(Request) /\ answers \in Seq(Request)

(* The numbers of the requests that are not read yet go up.                *)
InputInOrder ==
  \A k \in 1 .. Len(input) :
    /\ input[k].type \in Asks => input[k].request # None
    /\ input[k].request # None => input[k].request <= sent
                                  /\ input[k].of = id[input[k].request]
    /\ \A j \in 1 .. (k - 1) : input[j].request # None /\ input[k].request # None =>
                                   input[j].request < input[k].request

(* A request that was read, and one that comes after all answers with its  *)
(* id.                                                                     *)
Old(r) == /\ r <= sent
          /\ \A k \in 1 .. Len(input) : input[k].request # None => r < input[k].request

Later(r) == \A k \in 1 .. Len(answers) : id[answers[k]] = id[r] => answers[k] < r

AnswersOld == \A k \in 1 .. Len(answers) : Old(answers[k])

(* The call in flight with an id, and the answer on its way to the channel,*)
(* come after the answers with the id, and not both at once.               *)
ActiveInOrder ==
  \A i \in Id : active[i] # None =>
                  id[active[i]] = i /\ Old(active[i]) /\ Later(active[i])

MessageInOrder ==
  message.to # None => /\ pc \in {"control", "respond"} /\ active[id[message.to]] = None
                       /\ Old(message.to) /\ Later(message.to)

(* A task that has ended is joined once.                                   *)
EndedOnce ==
  \A k \in 1 .. Len(ready) : /\ task[ready[k]] = "ended"
                            /\ \A j \in 1 .. (k - 1) : ready[j] # ready[k]

(* While calls are answered, every task that is not joined is that of the  *)
(* call in flight with its id.                                             *)
TasksAreActive ==
  pc \in Inputs =>
    /\ \A r \in Request : task[r] \in {"running", "aborting"} => active[id[r]] = r
    /\ \A k \in 1 .. Len(ready) : active[id[ready[k]]] = ready[k]

OrderInv == /\ ServerTypes /\ InputInOrder /\ AnswersOld /\ ActiveInOrder
            /\ MessageInOrder /\ EndedOnce /\ TasksAreActive /\ AnswersInOrder

(* What is left of the forwards.                                           *)
CallStates == {"start", "bound", "closing", "returned"}
Ports == {"none", "bound", "serving", "draining", "stopped"}

ForwardTypes ==
  /\ call \in [Request -> CallStates] /\ port \in [Request -> Ports]
  /\ relays \in [Request -> Nat] /\ entries \subseteq Request /\ taken \subseteq Request
  /\ dropped \subseteq lifetime
  /\ closes \in [Request \cup {0} -> Request \cup {0}] /\ ending \in BOOLEAN

(* A task that has ended waits to be joined.                               *)
EndedIsReady == \A r \in Request : task[r] = "ended" => \E k \in 1 .. Len(ready) : ready[k] = r

(* Where a call is, and what it has.                                       *)
CallHas(r) ==
  /\ task[r] = "none" => call[r] = "start"
  /\ call[r] = "start" => port[r] = "none"
  /\ call[r] \in {"bound", "closing"} => r \in Running
  /\ port[r] = "bound" <=> call[r] = "bound"
  /\ closes[r] # 0 <=> call[r] = "closing"
  /\ relays[r] > 0 => port[r] \in {"serving", "draining"} \/ (port[r] = "stopped" /\ r \in dropped)

(* A forward that lives has an entry, is about to be shut down, has        *)
(* somebody who waits for its end, or lost its entry and is to be aborted. *)
SomebodyCares ==
  \A f \in Request : port[f] \in {"serving", "draining"} =>
    f \in entries \cup taken \cup dropped \/ \E r \in Request \cup {0} : closes[r] = f

(* Whatever is to be closed has been opened.                               *)
OnlyOpened ==
  \A f \in Request : f \in entries \cup taken \/ (\E r \in Request \cup {0} : closes[r] = f) =>
                     call[f] = "returned"

AllJoinedNow == \A r \in Request : task[r] \in {"none", "joined"}

Finished == AllJoinedNow /\ entries = {} /\ taken = {} /\ closes[0] = 0

ShutdownIsLast ==
  /\ ~ending => taken = {}
  /\ pc = "service" => AllJoinedNow
  /\ ending => pc \in {"service", "join", "ended"} /\ AllJoinedNow /\ entries = {}
  /\ pc = "join" /\ ~failed /\ ~partial /\ result # "service" => Finished
  /\ result = "ok" => pc = "ended" /\ Finished

ForwardInv == /\ ForwardTypes /\ EndedIsReady /\ (\A r \in Request : CallHas(r))
              /\ SomebodyCares /\ OnlyOpened /\ ShutdownIsLast

-----------------------------------------------------------------------------
(* Sequences.                                                              *)

LEMMA AppendIs ==
  ASSUME NEW S, NEW s \in Seq(S), NEW e \in S
  PROVE  /\ Append(s, e) \in Seq(S) /\ Len(Append(s, e)) = Len(s) + 1 /\ Len(s) \in Nat
         /\ \A k \in 1 .. Len(s) : Append(s, e)[k] = s[k]
         /\ Append(s, e)[Len(s) + 1] = e
OBVIOUS

LEMMA TailIs ==
  ASSUME NEW S, NEW s \in Seq(S), s # <<>>
  PROVE  /\ Tail(s) \in Seq(S) /\ Len(Tail(s)) = Len(s) - 1 /\ Len(s) \in Nat \ {0}
         /\ \A k \in 1 .. (Len(s) - 1) : Tail(s)[k] = s[k + 1]
         /\ Head(s) = s[1] /\ Head(s) \in S
OBVIOUS

LEMMA ItemIs ==
  ASSUME NEW S, NEW s \in Seq(S), NEW k \in 1 .. Len(s)
  PROVE  s[k] \in S
OBVIOUS

-----------------------------------------------------------------------------
(* The order of the answers: the steps of the client and of the loop.      *)

Frames == [type : Other \cup Asks \cup {"cancel"}, request : Request \cup {None}, of : Id]

LEMMA RequestsAre ==
  /\ Request \subseteq Nat /\ None \notin Request /\ None \in Nat
  /\ Requests \in Nat /\ 1 \in Request
<1>1. Requests \in Nat \ {0}
  BY McpAssumption DEF McpAssumption
<1> QED
  BY <1>1 DEF Request, None

(* The order depends on these variables alone.                             *)
orderVars == <<input, sent, id, open, pc, message, active, task, ready, answers>>

LEMMA OrderStays ==
  ASSUME OrderInv, UNCHANGED orderVars PROVE OrderInv'
BY DEF OrderInv, orderVars, ServerTypes, InputInOrder, AnswersOld, Old, ActiveInOrder, Later,
       MessageInOrder, EndedOnce, TasksAreActive, AnswersInOrder

(* A step of the loop, or of a timer, that reads and answers nothing: while *)
(* calls are answered it leaves them alone.                                *)
LEMMA LoopMoves ==
  ASSUME OrderInv, UNCHANGED <<input, sent, id, open, answers>>, pc' \in Places,
         message' = NoMessage \/ (message' = message /\ (pc' = pc \/ message.to = None)),
         active' \in [Id -> Request \cup {None}], \A i \in Id : active'[i] \in {None, active[i]},
         task' \in [Request -> TaskStates], ready' \in Seq(Request), EndedOnce',
         pc' \in Inputs => pc \in Inputs /\ UNCHANGED <<active, task, ready>>
  PROVE  OrderInv'
<1>1. input' = input /\ sent' = sent /\ id' = id /\ open' = open /\ answers' = answers
  OBVIOUS
<1>2. message' \in Message /\ (message'.to # None => message' = message /\ pc' = pc)
  <2>1. message \in Message
    BY DEF OrderInv, ServerTypes
  <2>2. NoMessage \in Message /\ NoMessage.to = None
    BY DEF NoMessage, Message
  <2> QED
    BY <2>1, <2>2
<1>3. ServerTypes'
  BY <1>1, <1>2 DEF OrderInv, ServerTypes
<1>4. InputInOrder' /\ AnswersOld' /\ AnswersInOrder'
  BY <1>1 DEF OrderInv, InputInOrder, AnswersOld, Old, AnswersInOrder
<1>5. ActiveInOrder'
  BY <1>1 DEF OrderInv, ActiveInOrder, Old, Later
<1>6. MessageInOrder'
  <2>1. SUFFICES ASSUME message'.to # None PROVE MessageInOrder'
    BY DEF MessageInOrder
  <2>2. message' = message /\ pc' = pc /\ message.to \in Request /\ id[message.to] \in Id
    BY <1>2, <2>1 DEF OrderInv, ServerTypes, Message
  <2> QED
    BY <1>1, <2>1, <2>2 DEF OrderInv, MessageInOrder, Old, Later
<1>7. TasksAreActive'
  BY <1>1 DEF OrderInv, TasksAreActive
<1> QED
  BY <1>3, <1>4, <1>5, <1>6, <1>7 DEF OrderInv

LEMMA ClientInOrder ==
  ASSUME OrderInv, SendRequest \/ SendOther PROVE OrderInv'
<1>1. UNCHANGED <<id, open, pc, message, active, task, ready, answers>>
  BY DEF SendRequest, SendOther, owner, tasks, output
<1>2. PICK f \in Frames :
        /\ input' = Append(input, f)
        /\ f.type \in Asks => f.request # None
        /\ \/ sent < Requests /\ sent' = sent + 1 /\ f.request = sent + 1 /\ f.of = id[sent + 1]
           \/ sent' = sent /\ f.request = None
  <2>1. CASE SendRequest
    <3>1. sent + 1 \in Request /\ id[sent + 1] \in Id /\ sent + 1 # None
      BY <2>1, RequestsAre DEF SendRequest, OrderInv, ServerTypes, Request
    <3>2. PICK a \in Asks :
            input' = Append(input, [type |-> a, request |-> sent + 1, of |-> id[sent + 1]])
      BY <2>1 DEF SendRequest
    <3>3. [type |-> a, request |-> sent + 1, of |-> id[sent + 1]] \in Frames
      BY <3>1 DEF Frames
    <3> QED
      BY <2>1, <3>1, <3>2, <3>3 DEF SendRequest
  <2>2. CASE SendOther
    <3>1. (CHOOSE i \in Id : TRUE) \in Id
      <4>1. id[1] \in Id
        BY RequestsAre DEF OrderInv, ServerTypes
      <4> QED
        BY <4>1
    <3>2. \E n \in Other \cup {"cancel"}, i \in Id :
            input' = Append(input, [type |-> n, request |-> None, of |-> i])
      BY <2>2, <3>1 DEF SendOther
    <3>3. PICK n \in Other \cup {"cancel"}, i \in Id :
            input' = Append(input, [type |-> n, request |-> None, of |-> i])
      BY <3>2
    <3>4. [type |-> n, request |-> None, of |-> i] \in Frames /\ n \notin Asks
      BY DEF Frames, Other, Asks
    <3>5. sent' = sent
      BY <2>2 DEF SendOther
    <3> QED
      BY <3>3, <3>4, <3>5
  <2> QED
    BY <2>1, <2>2
<1>3. input \in Seq(Frames) /\ sent \in 0 .. Requests /\ Requests \in Nat
  BY RequestsAre DEF OrderInv, ServerTypes, Frames
<1>4. /\ input' \in Seq(Frames) /\ Len(input') = Len(input) + 1 /\ Len(input) \in Nat
      /\ \A k \in 1 .. Len(input) : input'[k] = input[k]
      /\ input'[Len(input) + 1] = f
  BY <1>2, <1>3, AppendIs
<1>5. ServerTypes'
  <2>1. sent' \in 0 .. Requests
    BY <1>2, <1>3
  <2> QED
    BY <1>1, <1>4, <2>1 DEF OrderInv, ServerTypes, Frames
<1>6. \A k \in 1 .. Len(input) : input[k] \in Frames /\ input[k].request \in Nat
  <2>1. \A k \in 1 .. Len(input) : input[k] \in Frames
    BY <1>3, ItemIs
  <2> QED
    BY <2>1, RequestsAre DEF Frames
<1>7. InputInOrder'
  <2>1. SUFFICES ASSUME NEW k \in 1 .. Len(input')
        PROVE  /\ input'[k].type \in Asks => input'[k].request # None
               /\ input'[k].request # None => input'[k].request <= sent'
                                              /\ input'[k].of = id[input'[k].request]
               /\ \A j \in 1 .. (k - 1) : input'[j].request # None /\ input'[k].request # None =>
                                              input'[j].request < input'[k].request
    BY <1>1 DEF InputInOrder
  <2>2. CASE k \in 1 .. Len(input)
    <3>1. input'[k] = input[k] /\ \A j \in 1 .. (k - 1) : input'[j] = input[j]
      BY <1>4, <2>2
    <3>2. input[k].request \in Nat /\ sent' \in Nat /\ sent <= sent'
      BY <1>2, <1>3, <1>6, <2>2
    <3>3. /\ input[k].type \in Asks => input[k].request # None
          /\ input[k].request # None => input[k].request <= sent
                                        /\ input[k].of = id[input[k].request]
          /\ \A j \in 1 .. (k - 1) : input[j].request # None /\ input[k].request # None =>
                                         input[j].request < input[k].request
      BY <2>2 DEF OrderInv, InputInOrder
    <3>4. input[k].request <= sent => input[k].request <= sent'
      BY <1>3, <3>2
    <3> QED
      BY <3>1, <3>3, <3>4
  <2>3. CASE k = Len(input) + 1
    <3>1. input'[k] = f /\ \A j \in 1 .. (k - 1) : j \in 1 .. Len(input) /\ input'[j] = input[j]
      BY <1>4, <2>3
    <3>2. \A j \in 1 .. Len(input) : input[j].request # None => input[j].request <= sent
      BY DEF OrderInv, InputInOrder
    <3>3. f.request # None => f.request = sent + 1 /\ sent' = sent + 1 /\ f.of = id[sent + 1]
      BY <1>2
    <3> QED
      BY <1>2, <1>3, <1>6, <3>1, <3>2, <3>3
  <2> QED
    BY <1>4, <2>1, <2>2, <2>3
<1>8. ASSUME NEW r \in Request, Old(r) PROVE Old(r)'
  <2>1. r \in Nat /\ r <= sent
    BY <1>8, RequestsAre DEF Old
  <2>2. r <= sent'
    BY <1>2, <1>3, <2>1
  <2>3. ASSUME NEW k \in 1 .. Len(input'), input'[k].request # None PROVE r < input'[k].request
    <3>1. CASE k \in 1 .. Len(input)
      BY <1>4, <1>8, <2>3, <3>1 DEF Old
    <3>2. CASE k = Len(input) + 1
      BY <1>2, <1>3, <1>4, <2>1, <2>3, <3>2
    <3> QED
      BY <1>4, <3>1, <3>2
  <2> QED
    BY <2>2, <2>3 DEF Old
<1>9. AnswersOld'
  <2>1. \A k \in 1 .. Len(answers) : answers[k] \in Request
    BY ItemIs DEF OrderInv, ServerTypes
  <2> QED
    BY <1>1, <1>8, <2>1 DEF OrderInv, AnswersOld
<1>10. ActiveInOrder'
  BY <1>1, <1>8 DEF OrderInv, ActiveInOrder, ServerTypes, Later
<1>11. MessageInOrder'
  BY <1>1, <1>8 DEF OrderInv, MessageInOrder, ServerTypes, Message, Later
<1>12. EndedOnce' /\ TasksAreActive' /\ AnswersInOrder'
  BY <1>1 DEF OrderInv, EndedOnce, TasksAreActive, AnswersInOrder
<1> QED
  BY <1>5, <1>7, <1>9, <1>10, <1>11, <1>12 DEF OrderInv

LEMMA SentInOrder ==
  ASSUME OrderInv, Sent PROVE OrderInv'
<1>1. /\ UNCHANGED <<input, sent, id, open, active, task, ready>> /\ message' = NoMessage
      /\ pc' \in Places /\ (pc' \in Inputs => pc \in Inputs)
      /\ answers' = answers \/ (message.to # None /\ answers' = Append(answers, message.to))
  <2>1. pc \in {"control", "respond", "parse error"} /\ pc' \in {"closing", "reap", "loop"}
    BY DEF Sent, Goes
  <2>2. pc = "parse error" => pc' = "closing"
    BY DEF Sent, Goes
  <2> QED
    BY <2>1, <2>2 DEF Sent, client, tasks, Places, Inputs
<1>2. CASE answers' = answers
  <2>1. active' = active /\ task' = task /\ ready' = ready
    BY <1>1
  <2> QED
    BY <1>1, <1>2, <2>1, LoopMoves DEF EndedOnce, OrderInv, ServerTypes
<1>3. CASE message.to # None /\ answers' = Append(answers, message.to)
  <2>. DEFINE r == message.to
  <2>1. /\ r \in Request /\ pc \in {"control", "respond"} /\ active[id[r]] = None
        /\ Old(r) /\ Later(r)
    BY <1>3 DEF OrderInv, ServerTypes, Message, MessageInOrder
  <2>2. /\ answers' \in Seq(Request) /\ Len(answers') = Len(answers) + 1 /\ Len(answers) \in Nat
        /\ \A k \in 1 .. Len(answers) : answers'[k] = answers[k]
        /\ answers'[Len(answers) + 1] = r
    <3>1. answers \in Seq(Request)
      BY DEF OrderInv, ServerTypes
    <3> QED
      BY <1>3, <2>1, <3>1, AppendIs
  <2>. HIDE DEF r
  <2>3. \A k \in 1 .. Len(answers') : k \in 1 .. Len(answers) \/ k = Len(answers) + 1
    BY <2>2
  <2>4. ServerTypes'
    <3>1. NoMessage \in Message
      BY DEF NoMessage, Message
    <3> QED
      BY <1>1, <2>2, <3>1 DEF OrderInv, ServerTypes
  <2>5. InputInOrder'
    BY <1>1 DEF OrderInv, InputInOrder
  <2>6. AnswersOld'
    BY <1>1, <2>1, <2>2, <2>3 DEF OrderInv, AnswersOld, Old
  <2>7. ActiveInOrder'
    <3>1. SUFFICES ASSUME NEW i \in Id, active[i] # None
          PROVE  id[active[i]] = i /\ Old(active[i])' /\ Later(active[i])'
      BY <1>1 DEF ActiveInOrder, Old, Later
    <3>2. id[active[i]] = i /\ Old(active[i]) /\ Later(active[i]) /\ id[r] # i
      BY <2>1, <3>1 DEF OrderInv, ActiveInOrder
    <3>3. Old(active[i])'
      BY <1>1, <3>2 DEF Old
    <3>4. Later(active[i])'
      BY <1>1, <2>2, <2>3, <3>2 DEF Later
    <3> QED
      BY <3>2, <3>3, <3>4
  <2>8. MessageInOrder' /\ EndedOnce' /\ TasksAreActive'
    <3>1. pc' \in Inputs => pc \in Inputs
      BY <1>1
    <3> QED
      BY <1>1, <3>1 DEF OrderInv, MessageInOrder, NoMessage, EndedOnce, TasksAreActive
  <2>9. AnswersInOrder'
    <3>1. SUFFICES ASSUME NEW j \in 1 .. Len(answers'), NEW k \in 1 .. Len(answers'),
                          j < k, id[answers'[j]] = id[answers'[k]]
          PROVE  answers'[j] < answers'[k]
      BY <1>1 DEF AnswersInOrder
    <3>2. CASE k \in 1 .. Len(answers)
      BY <2>2, <3>1, <3>2 DEF OrderInv, AnswersInOrder
    <3>3. CASE k = Len(answers) + 1
      <4>1. j \in 1 .. Len(answers) /\ answers'[j] = answers[j] /\ answers'[k] = r
        BY <2>2, <2>3, <3>1, <3>3
      <4> QED
        BY <2>1, <3>1, <4>1 DEF Later
    <3> QED
      BY <2>3, <3>2, <3>3
  <2> QED
    BY <2>4, <2>5, <2>6, <2>7, <2>8, <2>9 DEF OrderInv
<1> QED
  BY <1>1, <1>2, <1>3

(* What the loop reads: nothing in the input comes before it.              *)
LEMMA FrameIsNext ==
  ASSUME OrderInv, input # <<>>, input' = Tail(input), UNCHANGED <<sent, id>>
  PROVE  /\ input' \in Seq(Frames) /\ InputInOrder'
         /\ \A r \in Request : Old(r) => Old(r)'
         /\ \E f \in Frames :
              /\ Frame = f
              /\ f.type \in Asks => f.request # None
              /\ f.request # None =>
                   /\ f.request \in Request /\ f.of = id[f.request]
                   /\ \A k \in 1 .. Len(answers) : answers[k] < f.request
                   /\ Old(f.request)'
<1>1. input \in Seq(Frames) /\ id' = id /\ sent' = sent
  BY DEF OrderInv, ServerTypes, Frames
<1>2. PICK f \in Frames :
      /\ input' \in Seq(Frames) /\ Len(input') = Len(input) - 1 /\ Len(input) \in Nat \ {0}
      /\ \A k \in 1 .. (Len(input) - 1) : input'[k] = input[k + 1]
      /\ Frame = f /\ input[1] = f
  BY <1>1, TailIs DEF Frame
<1>3. 1 \in 1 .. Len(input) /\ \A k \in 1 .. Len(input') : k + 1 \in 1 .. Len(input) /\ input'[k] = input[k + 1]
  BY <1>2
<1>4. \A k \in 1 .. Len(input) : input[k].request \in Nat
  <2>1. \A k \in 1 .. Len(input) : input[k] \in Frames
    BY <1>1, ItemIs
  <2> QED
    BY <2>1, RequestsAre DEF Frames
<1>5. InputInOrder'
  <2>1. SUFFICES ASSUME NEW k \in 1 .. Len(input')
        PROVE  /\ input'[k].type \in Asks => input'[k].request # None
               /\ input'[k].request # None => input'[k].request <= sent
                                              /\ input'[k].of = id[input'[k].request]
               /\ \A j \in 1 .. (k - 1) : input'[j].request # None /\ input'[k].request # None =>
                                              input'[j].request < input'[k].request
    BY <1>1 DEF InputInOrder
  <2>2. \A j \in 1 .. (k - 1) : j + 1 \in 1 .. k /\ input'[j] = input[j + 1]
    BY <1>2, <1>3, <2>1
  <2>3. (k + 1) - 1 = k
    BY <2>1
  <2> QED
    BY <1>3, <2>2, <2>3 DEF OrderInv, InputInOrder
<1>6. f.type \in Asks => f.request # None
  BY <1>2, <1>3 DEF OrderInv, InputInOrder
<1>7. ASSUME f.request # None
      PROVE  /\ f.request \in Request /\ f.of = id[f.request]
             /\ \A k \in 1 .. Len(answers) : answers[k] < f.request
             /\ Old(f.request)'
  <2>1. f.request \in Request
    BY <1>2, <1>7 DEF Frames
  <2>2. f.of = id[f.request] /\ f.request <= sent
    BY <1>2, <1>3, <1>7 DEF OrderInv, InputInOrder
  <2>3. \A k \in 1 .. Len(answers) : answers[k] < f.request
    BY <1>2, <1>3, <1>7 DEF OrderInv, AnswersOld, Old
  <2>4. \A k \in 1 .. Len(input') : input'[k].request # None => f.request < input'[k].request
    <3>1. \A k \in 1 .. Len(input') : 1 \in 1 .. ((k + 1) - 1)
      BY <1>2
    <3> QED
      BY <1>2, <1>3, <1>7, <3>1 DEF OrderInv, InputInOrder
  <2> QED
    BY <1>1, <2>1, <2>2, <2>3, <2>4 DEF Old
<1>8. \A r \in Request : Old(r) => Old(r)'
  BY <1>1, <1>3 DEF Old
<1> QED
  BY <1>2, <1>5, <1>6, <1>7, <1>8

LEMMA ReadsInOrder ==
  ASSUME OrderInv, pc = "loop", input # <<>>, input' = Tail(input),
         UNCHANGED <<sent, id, open, answers, ready>>, pc' \in Inputs,
         \/ message' \in Message /\ message'.to = None /\ UNCHANGED <<active, task>>
         \/ /\ Frame.request # None /\ active[Frame.of] = None
            /\ message' = [to |-> Frame.request, call |-> FALSE] /\ pc' = "control"
            /\ UNCHANGED <<active, task>>
         \/ /\ Frame.request # None /\ active[Frame.of] = None
            /\ message' = message
            /\ active' = [active EXCEPT ![Frame.of] = Frame.request]
            /\ task' = [task EXCEPT ![Frame.request] = "running"]
  PROVE  OrderInv'
<1>0. PICK f \in Frames :
        /\ input' \in Seq(Frames) /\ InputInOrder'
        /\ \A q \in Request : Old(q) => Old(q)'
        /\ Frame = f
        /\ f.request # None => /\ f.request \in Request /\ f.of = id[f.request]
                               /\ \A k \in 1 .. Len(answers) : answers[k] < f.request
                               /\ Old(f.request)'
  BY FrameIsNext
<1>. DEFINE r == f.request
<1>1. /\ input' \in Seq(Frames) /\ InputInOrder'
      /\ r # None => /\ r \in Request /\ f.of = id[r]
                     /\ \A k \in 1 .. Len(answers) : answers[k] < r
                     /\ Old(r)'
      /\ \A q \in Request : Old(q) => Old(q)'
      /\ r \in Request \cup {None}
  BY <1>0 DEF Frames
<1>2. sent' = sent /\ id' = id /\ open' = open /\ answers' = answers /\ ready' = ready
  OBVIOUS
<1>3. message \in Message /\ message.to = None
  BY DEF OrderInv, ServerTypes, MessageInOrder
<1>. HIDE DEF r
<1>4. /\ r # None => Later(r)'
      /\ \A q \in Request : Later(q) => Later(q)'
  BY <1>1, <1>2 DEF Later
<1>5. \A i \in Id : active[i] # None =>
        active[i] \in Request /\ id[active[i]] = i /\ Old(active[i])' /\ Later(active[i])'
  BY <1>1, <1>4 DEF OrderInv, ServerTypes, ActiveInOrder
<1>6. CASE UNCHANGED <<active, task>>
  <2>1. active' = active /\ task' = task
    BY <1>6
  <2>2. \/ message' \in Message /\ message'.to = None
        \/ r # None /\ active[f.of] = None /\ message' = [to |-> r, call |-> FALSE] /\ pc' = "control"
    <3>1. message' = message => message' \in Message /\ message'.to = None
      BY <1>3
    <3> QED
      BY <1>0, <3>1 DEF r
  <2>3. message' \in Message
    <3>1. r # None => [to |-> r, call |-> FALSE] \in Message
      BY <1>1 DEF Message
    <3> QED
      BY <2>2, <3>1
  <2>4. ServerTypes'
    BY <1>1, <1>2, <2>1, <2>3 DEF OrderInv, ServerTypes, Frames, Places
  <2>5. AnswersOld'
    <3>1. \A k \in 1 .. Len(answers) : answers[k] \in Request
      BY ItemIs DEF OrderInv, ServerTypes
    <3> QED
      BY <1>1, <1>2, <3>1 DEF OrderInv, AnswersOld
  <2>6. ActiveInOrder'
    BY <1>2, <1>5, <2>1 DEF ActiveInOrder
  <2>7. MessageInOrder'
    <3>1. CASE message'.to = None
      BY <3>1 DEF MessageInOrder
    <3>2. CASE r # None /\ active[f.of] = None /\ message' = [to |-> r, call |-> FALSE] /\ pc' = "control"
      <4>1. message'.to = r /\ active'[id'[r]] = None /\ Old(r)' /\ Later(r)'
        BY <1>1, <1>2, <1>4, <2>1, <3>2
      <4> QED
        BY <3>2, <4>1 DEF MessageInOrder
    <3> QED
      BY <2>2, <3>1, <3>2
  <2>8. EndedOnce' /\ TasksAreActive' /\ AnswersInOrder'
    <3>1. pc \in Inputs
      BY DEF Inputs
    <3>2. EndedOnce' /\ AnswersInOrder'
      BY <1>2, <2>1 DEF OrderInv, EndedOnce, AnswersInOrder
    <3>3. TasksAreActive'
      BY <1>2, <2>1, <3>1 DEF OrderInv, TasksAreActive
    <3> QED
      BY <3>2, <3>3
  <2> QED
    BY <1>1, <2>4, <2>5, <2>6, <2>7, <2>8 DEF OrderInv
<1>7. CASE /\ r # None /\ active[f.of] = None /\ message' = message
           /\ active' = [active EXCEPT ![f.of] = r] /\ task' = [task EXCEPT ![r] = "running"]
  <2>1. r \in Request /\ f.of \in Id /\ f.of = id[r]
    BY <1>0, <1>1, <1>7 DEF Frames
  <2>2. /\ active' \in [Id -> Request \cup {None}] /\ active'[id[r]] = r
        /\ \A i \in Id : i # id[r] => active'[i] = active[i]
    BY <1>7, <2>1 DEF OrderInv, ServerTypes
  <2>3. /\ task' \in [Request -> TaskStates] /\ task'[r] = "running"
        /\ \A q \in Request : q # r => task'[q] = task[q]
    BY <1>7, <2>1 DEF OrderInv, ServerTypes, TaskStates
  <2>4. ServerTypes'
    <3>1. pc' \in Places /\ message' \in Message
      BY <1>3, <1>7 DEF Places
    <3> QED
      BY <1>1, <1>2, <2>2, <2>3, <3>1 DEF OrderInv, ServerTypes, Frames
  <2>5. AnswersOld'
    <3>1. \A k \in 1 .. Len(answers) : answers[k] \in Request
      BY ItemIs DEF OrderInv, ServerTypes
    <3> QED
      BY <1>1, <1>2, <3>1 DEF OrderInv, AnswersOld
  <2>6. ActiveInOrder'
    BY <1>1, <1>2, <1>4, <1>5, <1>7, <2>1, <2>2 DEF ActiveInOrder
  <2>7. MessageInOrder'
    BY <1>3, <1>7 DEF MessageInOrder
  <2>8. EndedOnce' /\ TasksAreActive'
    <3>1. /\ \A q \in Request : task[q] \in {"running", "aborting"} => active[id[q]] = q
          /\ \A k \in 1 .. Len(ready) :
               /\ active[id[ready[k]]] = ready[k] /\ task[ready[k]] = "ended"
               /\ \A j \in 1 .. (k - 1) : ready[j] # ready[k]
      BY DEF OrderInv, EndedOnce, TasksAreActive, Inputs
    <3>2. \A q \in Request : id[q] \in Id /\ q # None
      BY RequestsAre DEF OrderInv, ServerTypes
    <3>3. \A q \in Request : task'[q] \in {"running", "aborting"} => active'[id[q]] = q
      <4>1. SUFFICES ASSUME NEW q \in Request, task'[q] \in {"running", "aborting"}, q # r
            PROVE  active'[id[q]] = q
        BY <2>2
      <4>2. task[q] \in {"running", "aborting"}
        BY <2>3, <4>1
      <4>3. active[id[q]] = q /\ id[q] # id[r]
        BY <1>7, <2>1, <3>1, <3>2, <4>2
      <4> QED
        BY <2>2, <3>2, <4>3
    <3>4. \A k \in 1 .. Len(ready) : ready[k] \in Request
      BY ItemIs DEF OrderInv, ServerTypes
    <3>5. \A k \in 1 .. Len(ready) : active'[id[ready[k]]] = ready[k] /\ task'[ready[k]] = "ended"
      <4>1. TAKE k \in 1 .. Len(ready)
      <4>2. ready[k] \in Request /\ active[id[ready[k]]] = ready[k] /\ task[ready[k]] = "ended"
        BY <3>1, <3>4
      <4>3. id[ready[k]] # id[r] /\ ready[k] # r
        BY <1>7, <2>1, <3>2, <4>2
      <4> QED
        BY <2>2, <2>3, <3>2, <4>2, <4>3
    <3> QED
      BY <1>2, <3>1, <3>3, <3>5 DEF EndedOnce, TasksAreActive
  <2>9. AnswersInOrder'
    BY <1>2 DEF OrderInv, AnswersInOrder
  <2> QED
    BY <1>1, <2>4, <2>5, <2>6, <2>7, <2>8, <2>9 DEF OrderInv
<1> QED
  BY <1>0, <1>6, <1>7 DEF r

(* Joining the task that ended first.                                      *)
LEMMA JoinedOnce ==
  ASSUME task \in [Request -> TaskStates], ready \in Seq(Request), EndedOnce, ready # <<>>,
         task' = [task EXCEPT ![Head(ready)] = "joined"], ready' = Tail(ready)
  PROVE  /\ task' \in [Request -> TaskStates] /\ ready' \in Seq(Request) /\ EndedOnce'
         /\ \E r \in Request : /\ ready[1] = r /\ task[r] = "ended" /\ task'[r] = "joined"
                               /\ \A q \in Request : q # r => task'[q] = task[q]
         /\ EndedIsReady => EndedIsReady'
<1>1. PICK r \in Request :
        /\ Head(ready) = r /\ ready[1] = r
        /\ ready' \in Seq(Request) /\ Len(ready') = Len(ready) - 1 /\ Len(ready) \in Nat \ {0}
        /\ \A k \in 1 .. (Len(ready) - 1) : ready'[k] = ready[k + 1]
  BY TailIs
<1>2. /\ task' \in [Request -> TaskStates] /\ task'[r] = "joined" /\ task[r] = "ended"
      /\ \A q \in Request : q # r => task'[q] = task[q]
  <2>1. 1 \in 1 .. Len(ready)
    BY <1>1
  <2> QED
    BY <1>1, <2>1 DEF TaskStates, EndedOnce
<1>3. ASSUME NEW k \in 1 .. Len(ready')
      PROVE  task'[ready'[k]] = "ended" /\ \A j \in 1 .. (k - 1) : ready'[j] # ready'[k]
  <2>1. /\ k + 1 \in 1 .. Len(ready) /\ 1 \in 1 .. ((k + 1) - 1) /\ ready'[k] = ready[k + 1]
        /\ \A j \in 1 .. (k - 1) : j + 1 \in 1 .. ((k + 1) - 1) /\ ready'[j] = ready[j + 1]
    BY <1>1, <1>3
  <2>2. ready[k + 1] \in Request /\ task[ready[k + 1]] = "ended"
        /\ \A j \in 1 .. ((k + 1) - 1) : ready[j] # ready[k + 1]
    BY <2>1, ItemIs DEF EndedOnce
  <2> QED
    BY <1>1, <1>2, <2>1, <2>2
<1>4. ASSUME EndedIsReady, NEW q \in Request, task'[q] = "ended"
      PROVE  \E k \in 1 .. Len(ready') : ready'[k] = q
  <2>1. PICK k \in 1 .. Len(ready) : ready[k] = q
    BY <1>2, <1>4 DEF EndedIsReady
  <2>2. k - 1 \in 1 .. Len(ready') /\ (k - 1) + 1 = k
    BY <1>1, <1>2, <1>4, <2>1
  <2> QED
    BY <1>1, <2>1, <2>2
<1> QED
  BY <1>1, <1>2, <1>3, <1>4 DEF EndedOnce, EndedIsReady

(* A task that has ended is joined while calls are answered: its answer is *)
(* the one that is due.                                                    *)
LEMMA CompletionInOrder ==
  ASSUME OrderInv, pc \in {"loop", "reap"}, Completes("loop") PROVE OrderInv'
<1>1. ready \in Seq(Request) /\ ready # <<>> /\ message \in Message /\ message.to = None
  BY DEF OrderInv, ServerTypes, Completes, MessageInOrder
<1>2. PICK r \in Request :
        /\ Head(ready) = r /\ ready[1] = r
        /\ ready' \in Seq(Request) /\ Len(ready') = Len(ready) - 1 /\ Len(ready) \in Nat \ {0}
        /\ \A k \in 1 .. (Len(ready) - 1) : ready'[k] = ready[k + 1]
  BY <1>1, TailIs DEF Completes
<1>3. /\ UNCHANGED <<input, sent, id, open, answers>>
      /\ task' = [task EXCEPT ![r] = "joined"] /\ active' = [active EXCEPT ![id[r]] = None]
      /\ \/ message' = message /\ pc' = "loop"
         \/ message' = [to |-> r, call |-> TRUE] /\ pc' = "respond"
  BY <1>2 DEF Completes, Goes, Sends, client, output
<1>4. /\ active[id[r]] = r /\ id[r] \in Id /\ Old(r) /\ Later(r)
      /\ \A q \in Request : task[q] \in {"running", "aborting"} => active[id[q]] = q
      /\ \A k \in 1 .. Len(ready) :
           /\ active[id[ready[k]]] = ready[k] /\ task[ready[k]] = "ended"
           /\ \A j \in 1 .. (k - 1) : ready[j] # ready[k]
  <2>1. pc \in Inputs /\ 1 \in 1 .. Len(ready) /\ r # None
    BY <1>2, RequestsAre DEF Inputs
  <2>2. id[r] \in Id
    BY DEF OrderInv, ServerTypes
  <2> QED
    BY <1>2, <2>1, <2>2 DEF OrderInv, EndedOnce, TasksAreActive, ActiveInOrder
<1>5. /\ active' \in [Id -> Request \cup {None}] /\ active'[id[r]] = None
      /\ \A i \in Id : i # id[r] => active'[i] = active[i]
  BY <1>3, <1>4 DEF OrderInv, ServerTypes
<1>6. /\ task' \in [Request -> TaskStates] /\ task'[r] = "joined"
      /\ \A q \in Request : q # r => task'[q] = task[q]
  BY <1>3 DEF OrderInv, ServerTypes, TaskStates
<1>7. ServerTypes'
  <2>1. message' \in Message
    <3>1. [to |-> r, call |-> TRUE] \in Message
      BY DEF Message
    <3> QED
      BY <1>1, <1>3, <3>1
  <2>2. pc' \in Places
    BY <1>3 DEF Places, Inputs
  <2> QED
    BY <1>2, <1>3, <1>5, <1>6, <2>1, <2>2 DEF OrderInv, ServerTypes
<1>8. InputInOrder' /\ AnswersOld' /\ AnswersInOrder'
  BY <1>3 DEF OrderInv, InputInOrder, AnswersOld, Old, AnswersInOrder
<1>9. ActiveInOrder'
  BY <1>3, <1>5 DEF OrderInv, ActiveInOrder, Old, Later
<1>10. MessageInOrder'
  <2>1. CASE message' = message
    BY <1>1, <2>1 DEF MessageInOrder
  <2>2. CASE message' = [to |-> r, call |-> TRUE] /\ pc' = "respond"
    <3>1. message'.to = r /\ active'[id'[r]] = None /\ Old(r)' /\ Later(r)'
      BY <1>3, <1>4, <1>5, <2>2 DEF Old, Later
    <3> QED
      BY <2>2, <3>1 DEF MessageInOrder
  <2> QED
    BY <1>3, <2>1, <2>2
<1>11. EndedOnce' /\ TasksAreActive'
  <2>1. \A q \in Request : q \in Nat /\ q # None /\ id[q] \in Id
    BY RequestsAre DEF OrderInv, ServerTypes
  <2>2. \A q \in Request : task'[q] \in {"running", "aborting"} => active'[id[q]] = q
    <3>1. SUFFICES ASSUME NEW q \in Request, task'[q] \in {"running", "aborting"}
          PROVE  active'[id[q]] = q
      OBVIOUS
    <3>2. q # r /\ active[id[q]] = q
      BY <1>4, <1>6, <3>1
    <3>3. id[q] # id[r] /\ id[q] \in Id
      BY <1>4, <2>1, <3>2
    <3> QED
      BY <1>5, <3>2, <3>3
  <2>3. ASSUME NEW k \in 1 .. Len(ready')
        PROVE  /\ active'[id[ready'[k]]] = ready'[k] /\ task'[ready'[k]] = "ended"
               /\ \A j \in 1 .. (k - 1) : ready'[j] # ready'[k]
    <3>1. /\ k + 1 \in 1 .. Len(ready) /\ 1 \in 1 .. ((k + 1) - 1) /\ ready'[k] = ready[k + 1]
          /\ \A j \in 1 .. (k - 1) : j + 1 \in 1 .. ((k + 1) - 1) /\ ready'[j] = ready[j + 1]
      BY <1>2, <2>3
    <3>2. /\ active[id[ready[k + 1]]] = ready[k + 1] /\ task[ready[k + 1]] = "ended"
          /\ \A j \in 1 .. ((k + 1) - 1) : ready[j] # ready[k + 1]
      BY <1>4, <3>1
    <3>3. ready[k + 1] \in Request /\ ready[k + 1] # r
      <4>1. ready[k + 1] \in Request
        BY <1>1, <3>1, ItemIs
      <4> QED
        BY <1>2, <3>1, <3>2, <4>1
    <3>4. id[ready[k + 1]] \in Id /\ id[ready[k + 1]] # id[r]
      BY <1>4, <2>1, <3>2, <3>3
    <3> QED
      BY <1>5, <1>6, <3>1, <3>2, <3>3, <3>4
  <2> QED
    BY <1>3, <2>2, <2>3 DEF EndedOnce, TasksAreActive
<1> QED
  BY <1>7, <1>8, <1>9, <1>10, <1>11 DEF OrderInv

LEMMA EndInOrder ==
  ASSUME OrderInv, NEW r \in Request, TaskEnds(r) \/ TaskAborted(r) PROVE OrderInv'
<1>1. /\ UNCHANGED <<input, sent, id, open, pc, message, active, answers>>
      /\ task[r] \in {"running", "aborting"}
      /\ task' = [task EXCEPT ![r] = "ended"] /\ ready' = Append(ready, r)
  BY DEF TaskEnds, TaskAborted, client, owner, output
<1>2. /\ ready' \in Seq(Request) /\ Len(ready') = Len(ready) + 1 /\ Len(ready) \in Nat
      /\ \A k \in 1 .. Len(ready) : ready'[k] = ready[k]
      /\ ready'[Len(ready) + 1] = r
  <2>1. ready \in Seq(Request)
    BY DEF OrderInv, ServerTypes
  <2> QED
    BY <1>1, <2>1, AppendIs
<1>3. /\ task' \in [Request -> TaskStates] /\ task'[r] = "ended"
      /\ \A q \in Request : q # r => task'[q] = task[q]
  BY <1>1 DEF OrderInv, ServerTypes, TaskStates
<1>4. ServerTypes'
  BY <1>1, <1>2, <1>3 DEF OrderInv, ServerTypes
<1>5. InputInOrder' /\ AnswersOld' /\ ActiveInOrder' /\ MessageInOrder' /\ AnswersInOrder'
  BY <1>1 DEF OrderInv, InputInOrder, AnswersOld, Old, ActiveInOrder, Later, MessageInOrder,
              AnswersInOrder
<1>6. EndedOnce' /\ TasksAreActive'
  <2>1. \A k \in 1 .. Len(ready) : /\ task[ready[k]] = "ended"
                                   /\ \A j \in 1 .. (k - 1) : ready[j] # ready[k]
    BY DEF OrderInv, EndedOnce
  <2>2. \A k \in 1 .. Len(ready) : ready[k] \in Request /\ ready[k] # r
    <3>1. \A k \in 1 .. Len(ready) : ready[k] \in Request
      BY ItemIs DEF OrderInv, ServerTypes
    <3> QED
      BY <1>1, <2>1, <3>1
  <2>3. pc \in Inputs => \A q \in Request : task'[q] \in {"running", "aborting"} => active[id[q]] = q
    BY <1>1, <1>3 DEF OrderInv, TasksAreActive
  <2>4. ASSUME NEW k \in 1 .. Len(ready')
        PROVE  /\ pc \in Inputs => active[id[ready'[k]]] = ready'[k]
               /\ task'[ready'[k]] = "ended"
               /\ \A j \in 1 .. (k - 1) : ready'[j] # ready'[k]
    <3>1. CASE k \in 1 .. Len(ready)
      <4>1. ready'[k] = ready[k] /\ \A j \in 1 .. (k - 1) : ready'[j] = ready[j]
        BY <1>2, <3>1
      <4> QED
        BY <1>3, <2>1, <2>2, <3>1, <4>1 DEF OrderInv, TasksAreActive
    <3>2. CASE k = Len(ready) + 1
      <4>1. ready'[k] = r /\ \A j \in 1 .. (k - 1) : j \in 1 .. Len(ready) /\ ready'[j] = ready[j]
        BY <1>2, <3>2
      <4>2. pc \in Inputs => active[id[r]] = r
        BY <1>1 DEF OrderInv, TasksAreActive
      <4> QED
        BY <1>3, <2>2, <4>1, <4>2
    <3> QED
      BY <1>2, <2>4, <3>1, <3>2
  <2> QED
    BY <1>1, <2>3, <2>4 DEF EndedOnce, TasksAreActive
<1> QED
  BY <1>4, <1>5, <1>6 DEF OrderInv

(* Every step of the loop and of its timers.                               *)
LEMMA OwnerInOrder ==
  ASSUME OrderInv, Owner \/ Expires PROVE OrderInv'
<1>. USE DEF Goes, client, owner, tasks, output
<1>1. CASE Sent
  BY <1>1, SentInOrder
<1>2. ASSUME ReadsFrame({"malformed"}) \/ ReadsFrame(Asks) \/ ReadsFrame({"initialize"})
               \/ ReadsFrame({"initialized"})
      PROVE  /\ pc = "loop" /\ input # <<>> /\ input' = Tail(input)
             /\ UNCHANGED <<sent, id, open, answers>> /\ message \in Message /\ message.to = None
  BY <1>2 DEF ReadsFrame, OrderInv, ServerTypes, MessageInOrder
<1>3. NoMessage \in Message /\ NoMessage.to = None /\ NoMessage = [to |-> None, call |-> FALSE]
  BY DEF NoMessage, Message
<1>4. CASE ReadsMalformed \/ ReadsInitialize
  <2>1. /\ ReadsFrame({"malformed"}) \/ ReadsFrame({"initialize"})
        /\ message' = NoMessage /\ pc' = "control" /\ UNCHANGED <<active, task, ready>>
    BY <1>3, <1>4 DEF ReadsMalformed, ReadsInitialize, Sends
  <2> QED
    BY <1>2, <1>3, <2>1, ReadsInOrder DEF Inputs
<1>5. CASE ReadsInitialized
  <2>1. ReadsFrame({"initialized"}) /\ message' = message /\ pc' = "reap" /\ UNCHANGED <<active, task, ready>>
    BY <1>5 DEF ReadsInitialized
  <2> QED
    BY <1>2, <2>1, ReadsInOrder DEF Inputs
<1>6. CASE ReadsCancel
  <2>1. /\ pc = "loop" /\ input # <<>> /\ input' = Tail(input) /\ pc' = "reap"
        /\ UNCHANGED <<sent, id, open, answers, ready, message, active, task>>
    BY <1>6 DEF ReadsCancel
  <2>2. message \in Message /\ message.to = None
    BY <2>1 DEF OrderInv, ServerTypes, MessageInOrder
  <2> QED
    BY <2>1, <2>2, ReadsInOrder DEF Inputs
<1>7. CASE ReadsRequest
  <2>1. ReadsFrame(Asks) /\ Frame.type \in Asks /\ ready' = ready /\ pc' \in {"control", "reap"}
    BY <1>7 DEF ReadsRequest, ReadsFrame, Sends
  <2>2. Frame.request # None
    BY <1>2, <2>1, FrameIsNext
  <2>3. \/ message' = NoMessage /\ UNCHANGED <<active, task>>
        \/ /\ active[Frame.of] = None
           /\ message' = [to |-> Frame.request, call |-> FALSE] /\ pc' = "control"
           /\ UNCHANGED <<active, task>>
        \/ /\ active[Frame.of] = None /\ message' = message
           /\ active' = [active EXCEPT ![Frame.of] = Frame.request]
           /\ task' = [task EXCEPT ![Frame.request] = "running"]
    BY <1>3, <1>7, <2>2 DEF ReadsRequest, Sends, Duplicate
  <2> QED
    BY <1>2, <1>3, <2>1, <2>2, <2>3, ReadsInOrder DEF Inputs
<1>8. CASE TakesCompletion
  BY <1>8, CompletionInOrder DEF TakesCompletion
<1>9. CASE Reaps
  <2>1. CASE ready # <<>>
    BY <1>9, <2>1, CompletionInOrder DEF Reaps
  <2>2. CASE ready = <<>>
    <3>1. /\ UNCHANGED <<input, sent, id, open, answers, message, active, task, ready>>
          /\ pc = "reap" /\ pc' = "loop"
      BY <1>9, <2>2 DEF Reaps
    <3>2. message.to = None
      BY <3>1 DEF OrderInv, MessageInOrder
    <3> QED
      BY <3>1, <3>2, LoopMoves DEF OrderInv, ServerTypes, EndedOnce, Inputs, Places
  <2> QED
    BY <2>1, <2>2
<1>10. CASE ReadsEnd \/ SeesWriter \/ Closing \/ Joins \/ AllJoined \/ JoinsWriter \/ Expires
  <2>0. open \in {"open", "eof", "partial eof", "failed"}
    BY DEF OrderInv, ServerTypes
  <2>1. /\ UNCHANGED <<input, sent, id, open, answers>> /\ pc \notin {"control", "respond"}
        /\ pc' \in Places \ Inputs
    <3>1. CASE ReadsEnd
      BY <2>0, <3>1 DEF ReadsEnd, Sends, Places, Inputs
    <3>2. CASE SeesWriter \/ Closing
      BY <3>2 DEF SeesWriter, Closing, Places, Inputs
    <3>3. CASE Joins
      BY <3>3 DEF Joins, Places, Inputs
    <3>4. CASE AllJoined \/ CleanupExpires \/ DrainExpires
      BY <3>4 DEF AllJoined, CleanupExpires, DrainExpires, Cleaned, Places, Inputs
    <3>5. CASE JoinsWriter \/ JoinExpires
      BY <3>5 DEF JoinsWriter, JoinExpires, Ends, Places, Inputs
    <3> QED
      BY <1>10, <3>1, <3>2, <3>3, <3>4, <3>5 DEF Expires
  <2>2. message.to = None
    BY <2>1 DEF OrderInv, MessageInOrder
  <2>3. message' = NoMessage \/ message' = message
    <3>1. CASE ReadsEnd
      BY <1>3, <2>0, <3>1 DEF ReadsEnd, Sends
    <3>2. CASE ~ReadsEnd
      BY <1>10, <3>2 DEF SeesWriter, Closing, Joins, AllJoined, JoinsWriter, Expires, CleanupExpires,
                         DrainExpires, JoinExpires, Ends
    <3> QED
      BY <3>1, <3>2
  <2>4. /\ task' \in [Request -> TaskStates] /\ ready' \in Seq(Request)
        /\ active' \in [Id -> Request \cup {None}]
        /\ \A i \in Id : active'[i] \in {None, active[i]}
        /\ EndedOnce'
    <3>1. /\ task \in [Request -> TaskStates] /\ ready \in Seq(Request)
          /\ active \in [Id -> Request \cup {None}] /\ EndedOnce
      BY DEF OrderInv, ServerTypes
    <3>2. CASE Joins
      <4>1. task' = [task EXCEPT ![Head(ready)] = "joined"] /\ ready # <<>> /\ ready' = Tail(ready)
        BY <3>2 DEF Joins
      <4>2. task' \in [Request -> TaskStates] /\ ready' \in Seq(Request) /\ EndedOnce'
        BY <3>1, <4>1, JoinedOnce
      <4>3. active' = [active EXCEPT ![id[Head(ready)]] = None]
        BY <3>2 DEF Joins
      <4> QED
        BY <3>1, <4>2, <4>3
    <3>3. CASE CleanupExpires
      <4>1. \A k \in 1 .. Len(ready) : ready[k] \in Request
        BY <3>1, ItemIs
      <4> QED
        BY <3>1, <3>3, <4>1 DEF CleanupExpires, TaskStates, EndedOnce
    <3>4. CASE DrainExpires
      BY <3>1, <3>4 DEF DrainExpires, EndedOnce
    <3>5. CASE UNCHANGED <<active, task, ready>>
      BY <3>1, <3>5 DEF EndedOnce
    <3> QED
      BY <1>10, <3>2, <3>3, <3>4, <3>5 DEF ReadsEnd, SeesWriter, Closing, AllJoined, JoinsWriter,
         Expires, JoinExpires, Ends
  <2> QED
    BY <2>1, <2>2, <2>3, <2>4, LoopMoves
<1> QED
  BY <1>1, <1>4, <1>5, <1>6, <1>7, <1>8, <1>9, <1>10 DEF Owner

LEMMA OrderStep ==
  ASSUME OrderInv, [SysNext]_all PROVE OrderInv'
<1>1. CASE SendRequest \/ SendOther
  BY <1>1, ClientInOrder
<1>2. CASE Owner \/ Expires
  BY <1>2, OwnerInOrder
<1>3. CASE UNCHANGED orderVars
  BY <1>3, OrderStays
<1>4. ASSUME NEW r \in Request, TaskEnds(r) \/ TaskAborted(r)
      PROVE  OrderInv'
  BY <1>4, EndInOrder
<1>5. CASE ServiceReturns \/ ServiceExpires
  <2>1. /\ UNCHANGED <<input, sent, id, open, answers, message, active, task, ready>>
        /\ pc = "service" /\ pc' = "join"
    BY <1>5 DEF ServiceReturns, ServiceExpires, Goes, client, tasks, output
  <2>2. message.to = None
    BY <2>1 DEF OrderInv, MessageInOrder
  <2> QED
    BY <2>1, <2>2, LoopMoves DEF OrderInv, ServerTypes, EndedOnce, Inputs, Places
<1>6. CASE CloseInput
  <2>1. open' \in {"open", "eof", "partial eof", "failed"}
    BY <1>6 DEF CloseInput
  <2>2. UNCHANGED <<input, sent, id, pc, message, active, task, ready, answers>>
    BY <1>6 DEF CloseInput, owner, tasks, output
  <2> QED
    BY <2>1, <2>2 DEF OrderInv, ServerTypes, InputInOrder, AnswersOld, Old, ActiveInOrder, Later,
       MessageInOrder, EndedOnce, TasksAreActive, AnswersInOrder
<1>7. CASE Writer \/ WriterFails \/ UNCHANGED vars
  <2>1. UNCHANGED orderVars
    BY <1>7 DEF Writer, WriterTakes, WriterWrites, WriterEnds, WriterFails, vars,
                client, owner, tasks, output, orderVars
  <2> QED
    BY <1>3, <2>1
<1> QED
  BY <1>1, <1>2, <1>4, <1>5, <1>6, <1>7
     DEF SysNext, Alone, Client, Works, CallReturns, CallAborted, InForward, ServiceShuts,
         ServiceShut, ServiceDropped, all

LEMMA OrderInit ==
  ASSUME Init PROVE OrderInv
<1>1. ServerTypes
  <2>1. NoMessage \in Message
    BY DEF NoMessage, Message
  <2>2. id \in [Request -> Id]
    BY McpAssumption DEF McpAssumption, Init, Request
  <2>3. 0 \in 0 .. Requests
    BY RequestsAre
  <2> QED
    BY <2>1, <2>2, <2>3 DEF Init, ServerTypes, Places, Inputs, TaskStates
<1>2. InputInOrder /\ AnswersOld /\ EndedOnce /\ AnswersInOrder
  BY DEF Init, InputInOrder, AnswersOld, EndedOnce, AnswersInOrder
<1>3. MessageInOrder /\ ActiveInOrder /\ TasksAreActive
  BY DEF Init, MessageInOrder, NoMessage, ActiveInOrder, TasksAreActive
<1> QED
  BY <1>1, <1>2, <1>3 DEF OrderInv

-----------------------------------------------------------------------------
(* What is left of the forwards.                                           *)

Last == {"service", "join", "ended"}

LEMMA ServerMoves ==
  ASSUME ForwardInv, UNCHANGED forwardVars, Running \subseteq Running',
         \A r \in Request : task'[r] = "none" => task[r] = "none",
         EndedIsReady', ShutdownIsLast'
  PROVE  ForwardInv'
<1>1. ForwardTypes' /\ SomebodyCares' /\ OnlyOpened'
  BY DEF ForwardInv, forwardVars, ForwardTypes, SomebodyCares, OnlyOpened
<1>2. \A r \in Request : CallHas(r)'
  BY DEF ForwardInv, forwardVars, CallHas
<1> QED
  BY <1>1, <1>2 DEF ForwardInv

LEMMA BeforeTheEnd ==
  ASSUME ForwardInv, pc \notin Last, pc' \notin Last, result' = result,
         UNCHANGED <<ending, taken>>
  PROVE  ShutdownIsLast'
BY DEF ForwardInv, ShutdownIsLast, Last

LEMMA AllJoinedIsNow ==
  ASSUME OrderInv, ForwardInv, ready = <<>>, Running = {} PROVE AllJoinedNow
<1>1. \A r \in Request : task[r] \in TaskStates /\ task[r] \notin {"running", "aborting"}
  BY DEF OrderInv, ServerTypes, Running
<1>2. \A r \in Request : task[r] # "ended"
  BY DEF ForwardInv, EndedIsReady
<1> QED
  BY <1>1, <1>2 DEF TaskStates, AllJoinedNow

LEMMA ServerForward ==
  ASSUME OrderInv, ForwardInv, UNCHANGED forwardVars,
         Client \/ Owner \/ Expires \/ Writer \/ WriterFails
  PROVE  ForwardInv'
<1>. USE DEF client, owner, tasks, output, Goes
<1>0. UNCHANGED <<ending, taken, entries, closes>>
  BY DEF forwardVars
<1>1. CASE UNCHANGED <<pc, failed, partial, result, task, ready>>
  <2>1. Running \subseteq Running' /\ \A r \in Request : task'[r] = "none" => task[r] = "none"
    BY <1>1 DEF Running
  <2>2. EndedIsReady' /\ ShutdownIsLast'
    BY <1>0, <1>1 DEF ForwardInv, EndedIsReady, ShutdownIsLast, AllJoinedNow, Finished
  <2> QED
    BY <2>1, <2>2, ServerMoves
<1>2. CASE pc \notin Last /\ pc' \notin Last /\ result' = result /\ UNCHANGED <<task, ready>>
  <2>1. Running \subseteq Running' /\ \A r \in Request : task'[r] = "none" => task[r] = "none"
    BY <1>2 DEF Running
  <2>2. EndedIsReady' /\ ShutdownIsLast'
    BY <1>0, <1>2, BeforeTheEnd DEF ForwardInv, EndedIsReady
  <2> QED
    BY <2>1, <2>2, ServerMoves
<1>3. CASE /\ pc \notin Last /\ pc' \notin Last /\ result' = result
           /\ ready # <<>> /\ ready' = Tail(ready)
           /\ task' = [task EXCEPT ![Head(ready)] = "joined"]
  <2>1. /\ EndedIsReady' /\ \E r \in Request :
             /\ ready[1] = r /\ task[r] = "ended" /\ task'[r] = "joined"
             /\ \A q \in Request : q # r => task'[q] = task[q]
    BY <1>3, JoinedOnce DEF OrderInv, ServerTypes, ForwardInv
  <2>2. Running \subseteq Running' /\ \A r \in Request : task'[r] = "none" => task[r] = "none"
    BY <2>1 DEF Running
  <2> QED
    BY <1>0, <1>3, <2>1, <2>2, BeforeTheEnd, ServerMoves
<1>4. CASE ReadsRequest /\ task' # task
  <2>1. /\ pc = "loop" /\ input # <<>> /\ input' = Tail(input) /\ UNCHANGED <<sent, id>>
        /\ Frame.type \in Asks
    BY <1>4 DEF ReadsRequest, ReadsFrame
  <2>2. Frame.request \in Request
    BY <2>1, FrameIsNext
  <2>3. /\ task' = [task EXCEPT ![Frame.request] = "running"]
        /\ pc' = "reap" /\ UNCHANGED <<ready, result>>
    BY <1>4 DEF ReadsRequest, ReadsFrame, Sends
  <2>4. /\ task'[Frame.request] = "running"
        /\ \A q \in Request : q # Frame.request => task'[q] = task[q]
    BY <2>2, <2>3 DEF OrderInv, ServerTypes
  <2>5. Running \subseteq Running' /\ \A r \in Request : task'[r] = "none" => task[r] = "none"
    BY <2>2, <2>4 DEF Running
  <2>6. EndedIsReady'
    BY <2>2, <2>3, <2>4 DEF ForwardInv, EndedIsReady
  <2> QED
    BY <1>0, <2>1, <2>3, <2>5, <2>6, BeforeTheEnd, ServerMoves DEF Last
<1>5. CASE CleanupExpires
  <2>1. /\ pc = "cleanup" /\ pc' = "drain" /\ result' = result /\ ready' = ready
        /\ \A r \in Request : task'[r] = IF task[r] = "running" THEN "aborting" ELSE task[r]
    BY <1>5 DEF CleanupExpires
  <2>2. Running \subseteq Running' /\ \A r \in Request : task'[r] = "none" => task[r] = "none"
    BY <2>1 DEF Running
  <2>3. EndedIsReady'
    BY <2>1 DEF ForwardInv, EndedIsReady
  <2> QED
    BY <1>0, <2>1, <2>2, <2>3, BeforeTheEnd, ServerMoves DEF Last
<1>6. CASE UNCHANGED <<task, ready>> /\ (AllJoined \/ DrainExpires \/ JoinsWriter \/ JoinExpires)
  <2>1. Running \subseteq Running' /\ \A r \in Request : task'[r] = "none" => task[r] = "none"
    BY <1>6 DEF Running
  <2>2. EndedIsReady'
    BY <1>6 DEF ForwardInv, EndedIsReady
  <2>3. ShutdownIsLast'
    <3>1. CASE AllJoined
      <4>1. AllJoinedNow
        BY <3>1, AllJoinedIsNow DEF AllJoined
      <4>2. AllJoinedNow'
        BY <1>6, <4>1 DEF AllJoinedNow
      <4>3. pc \in {"cleanup", "drain"} /\ UNCHANGED <<failed, partial, result>>
            /\ pc' = IF ~failed /\ ~partial THEN "service" ELSE "join"
        BY <3>1 DEF AllJoined, Cleaned
      <4> QED
        BY <1>0, <4>2, <4>3 DEF ForwardInv, ShutdownIsLast
    <3>2. CASE DrainExpires
      <4>1. pc = "drain" /\ failed' = TRUE /\ pc' = "join" /\ result' = result
        BY <3>2 DEF DrainExpires, Cleaned
      <4> QED
        BY <1>0, <4>1 DEF ForwardInv, ShutdownIsLast
    <3>3. CASE JoinsWriter \/ JoinExpires
      <4>1. /\ pc = "join" /\ pc' = "ended"
            /\ result' = "ok" => ~failed /\ ~partial /\ result # "service"
        BY <3>3 DEF JoinsWriter, JoinExpires, Ends
      <4>2. Finished => Finished'
        BY <1>0, <1>6 DEF Finished, AllJoinedNow
      <4>3. AllJoinedNow => AllJoinedNow'
        BY <1>6 DEF AllJoinedNow
      <4> QED
        BY <1>0, <4>1, <4>2, <4>3 DEF ForwardInv, ShutdownIsLast
    <3> QED
      BY <1>6, <3>1, <3>2, <3>3
  <2> QED
    BY <2>1, <2>2, <2>3, ServerMoves
<1>7. CASE Client \/ Writer \/ WriterFails
  BY <1>1, <1>7 DEF Client, SendRequest, SendOther, CloseInput, Writer, WriterTakes, WriterWrites,
                    WriterEnds, WriterFails
<1>8. CASE Owner
  <2>1. CASE Sent
    BY <1>2, <2>1 DEF Sent, Last
  <2>2. CASE ReadsMalformed \/ ReadsInitialize \/ ReadsInitialized \/ ReadsCancel
    BY <1>2, <2>2 DEF ReadsMalformed, ReadsInitialize, ReadsInitialized, ReadsCancel, ReadsFrame,
                      Sends, Last
  <2>3. CASE ReadsRequest
    <3>1. pc \notin Last /\ pc' \notin Last /\ UNCHANGED <<result, ready>>
      BY <2>3 DEF ReadsRequest, ReadsFrame, Sends, Last
    <3> QED
      BY <1>2, <1>4, <2>3, <3>1
  <2>4. CASE ReadsEnd \/ SeesWriter \/ Closing
    <3>1. open \in {"open", "eof", "partial eof", "failed"}
      BY DEF OrderInv, ServerTypes
    <3> QED
      BY <1>2, <2>4, <3>1 DEF ReadsEnd, SeesWriter, Closing, Sends, Last
  <2>5. CASE TakesCompletion \/ Joins
    BY <1>3, <2>5 DEF TakesCompletion, Completes, Sends, Joins, Last
  <2>6. CASE Reaps
    BY <1>2, <1>3, <2>6 DEF Reaps, Completes, Sends, Last
  <2>7. CASE AllJoined \/ JoinsWriter
    BY <1>6, <2>7 DEF AllJoined, JoinsWriter, Ends
  <2> QED
    BY <1>8, <2>1, <2>2, <2>3, <2>4, <2>5, <2>6, <2>7 DEF Owner
<1>9. CASE Expires
  BY <1>5, <1>6, <1>9 DEF Expires, DrainExpires, JoinExpires, Ends
<1> QED
  BY <1>7, <1>8, <1>9

(* While a task runs the service is not being shut down.                   *)
LEMMA NotShutYet ==
  ASSUME ForwardInv, NEW r \in Running
  PROVE  /\ r \in Request /\ ~ending /\ taken = {} /\ pc # "service" /\ result # "ok"
         /\ ~(pc = "join" /\ ~failed /\ ~partial /\ result # "service")
<1>1. r \in Request /\ ~AllJoinedNow /\ ~Finished
  BY DEF Running, AllJoinedNow, Finished
<1> QED
  BY <1>1 DEF ForwardInv, ShutdownIsLast

(* What a step does that is not one of the shutdown, but for the forwards. *)
LEMMA CallMoves ==
  ASSUME ForwardInv, NEW r \in Running, UNCHANGED <<pc, failed, partial, result, ending, taken>>,
         EndedIsReady', ForwardTypes', SomebodyCares', OnlyOpened', \A q \in Request : CallHas(q)'
  PROVE  ForwardInv'
<1>1. ShutdownIsLast'
  BY NotShutYet DEF ShutdownIsLast
<1> QED
  BY <1>1 DEF ForwardInv

LEMMA WorksForward ==
  ASSUME OrderInv, ForwardInv, NEW r \in Request, Works(r)
  PROVE  ForwardInv'
<1>1. /\ r \in Running /\ UNCHANGED <<pc, failed, partial, result, task, ready>>
      /\ task'[r] # "none"
  BY DEF Works, InForward, Running, vars, owner, tasks
<1>2. EndedIsReady' /\ Running' = Running
  BY <1>1 DEF ForwardInv, EndedIsReady, Running
<1>3. ForwardTypes /\ CallHas(r) /\ (\A q \in Request : CallHas(q)) /\ SomebodyCares /\ OnlyOpened
  BY DEF ForwardInv
<1>4. CASE F!Bind(r)
  <2>1. /\ call[r] = "start" /\ call' = [call EXCEPT ![r] = "bound"]
        /\ port' = [port EXCEPT ![r] = "bound"]
        /\ UNCHANGED <<relays, entries, lifetime, dropped, closes, taken, ending>>
    BY <1>4 DEF F!Bind
  <2>2. /\ call'[r] = "bound" /\ port'[r] = "bound" /\ port[r] = "none"
        /\ \A q \in Request : q # r => call'[q] = call[q] /\ port'[q] = port[q]
    BY <1>3, <2>1 DEF ForwardTypes, CallHas
  <2>3. ForwardTypes'
    BY <1>3, <2>1 DEF ForwardTypes, CallStates, Ports
  <2>4. \A q \in Request : CallHas(q)'
    <3>1. CallHas(r)'
      BY <1>1, <1>2, <1>3, <2>1, <2>2 DEF CallHas
    <3>2. \A q \in Request : q # r => CallHas(q)'
      BY <1>1, <1>2, <1>3, <2>1, <2>2 DEF CallHas
    <3> QED
      BY <3>1, <3>2
  <2>5. SomebodyCares' /\ OnlyOpened'
    BY <1>3, <2>1, <2>2 DEF SomebodyCares, OnlyOpened
  <2> QED
    BY <1>1, <1>2, <2>1, <2>3, <2>4, <2>5, CallMoves
<1>5. ASSUME NEW f \in Request, F!Close(r, f) PROVE ForwardInv'
  <2>1. /\ call[r] = "start" /\ f \in entries /\ entries' = entries \ {f}
        /\ closes' = [closes EXCEPT ![r] = f] /\ call' = [call EXCEPT ![r] = "closing"]
        /\ UNCHANGED <<port, relays, dropped, taken, ending>> /\ lifetime \subseteq lifetime'
    BY <1>5 DEF F!Close
  <2>2. /\ call'[r] = "closing" /\ closes'[r] = f /\ closes[r] = 0 /\ f # 0 /\ r # 0
        /\ \A q \in Request : q # r => call'[q] = call[q]
        /\ \A q \in Request \cup {0} : q # r => closes'[q] = closes[q]
    BY <1>3, <2>1, RequestsAre DEF ForwardTypes, CallHas, None
  <2>3. ForwardTypes'
    <3>1. /\ closes' \in [Request \cup {0} -> Request \cup {0}] /\ call' \in [Request -> CallStates]
      BY <1>3, <2>1 DEF ForwardTypes, CallStates
    <3> QED
      BY <1>3, <2>1, <3>1 DEF ForwardTypes
  <2>4. \A q \in Request : CallHas(q)'
    <3>1. CallHas(r)'
      BY <1>1, <1>2, <1>3, <2>1, <2>2 DEF CallHas
    <3>2. \A q \in Request : q # r => CallHas(q)'
      BY <1>1, <1>2, <1>3, <2>1, <2>2 DEF CallHas
    <3> QED
      BY <3>1, <3>2
  <2>5. SomebodyCares'
    <3>1. SUFFICES ASSUME NEW g \in Request, port[g] \in {"serving", "draining"}
          PROVE  g \in entries' \cup taken \cup dropped \/ \E q \in Request \cup {0} : closes'[q] = g
      BY <2>1 DEF SomebodyCares
    <3>2. CASE g = f
      BY <2>2, <3>2
    <3>3. CASE g \in entries \cup taken \cup dropped /\ g # f
      BY <2>1, <3>3
    <3>4. ASSUME NEW q \in Request \cup {0}, closes[q] = g PROVE closes'[q] = g
      <4>1. q # r
        BY <2>2, <3>4, RequestsAre DEF None
      <4> QED
        BY <2>2, <3>4, <4>1
    <3> QED
      BY <1>3, <3>1, <3>2, <3>3, <3>4 DEF SomebodyCares
  <2>6. OnlyOpened'
    BY <1>3, <2>1, <2>2 DEF OnlyOpened
  <2> QED
    BY <1>1, <1>2, <2>1, <2>3, <2>4, <2>5, <2>6, CallMoves
<1> QED
  BY <1>4, <1>5 DEF Works, InForward

(* The task of a call ends, returned or aborted.                           *)
LEMMA EndedWaits ==
  ASSUME OrderInv, ForwardInv, NEW r \in Request, TaskEnds(r) \/ TaskAborted(r)
  PROVE  /\ r \in Running /\ EndedIsReady' /\ UNCHANGED <<pc, failed, partial, result>>
         /\ \A q \in Request : q # r => task'[q] = task[q]
         /\ task'[r] = "ended" /\ Running' = Running \ {r}
<1>1. /\ task[r] \in {"running", "aborting"} /\ task' = [task EXCEPT ![r] = "ended"]
      /\ ready' = Append(ready, r) /\ UNCHANGED <<pc, failed, partial, result>>
  BY DEF TaskEnds, TaskAborted, owner
<1>2. task'[r] = "ended" /\ \A q \in Request : q # r => task'[q] = task[q]
  BY <1>1 DEF OrderInv, ServerTypes
<1>3. /\ Len(ready') = Len(ready) + 1 /\ Len(ready) \in Nat
      /\ \A k \in 1 .. Len(ready) : ready'[k] = ready[k]
      /\ ready'[Len(ready) + 1] = r
  <2>1. ready \in Seq(Request)
    BY DEF OrderInv, ServerTypes
  <2> QED
    BY <1>1, <2>1, AppendIs
<1>4. ASSUME NEW q \in Request, task'[q] = "ended" PROVE \E k \in 1 .. Len(ready') : ready'[k] = q
  <2>1. CASE q = r
    BY <1>3, <2>1
  <2>2. CASE q # r
    <3>1. PICK k \in 1 .. Len(ready) : ready[k] = q
      BY <1>2, <1>4, <2>2 DEF ForwardInv, EndedIsReady
    <3> QED
      BY <1>3, <3>1
  <2> QED
    BY <2>1, <2>2
<1> QED
  BY <1>1, <1>2, <1>4 DEF EndedIsReady, Running

LEMMA ReturnsForward ==
  ASSUME OrderInv, ForwardInv, NEW r \in Request, CallReturns(r)
  PROVE  ForwardInv'
<1>1. /\ r \in Running /\ EndedIsReady' /\ UNCHANGED <<pc, failed, partial, result>>
      /\ \A q \in Request : q # r => task'[q] = task[q]
      /\ task'[r] = "ended" /\ Running' = Running \ {r}
  BY EndedWaits DEF CallReturns
<1>2. ForwardTypes /\ CallHas(r) /\ (\A q \in Request : CallHas(q)) /\ SomebodyCares /\ OnlyOpened
  BY DEF ForwardInv
<1>3. CASE F!Open(r)
  <2>1. /\ call[r] = "bound" /\ port' = [port EXCEPT ![r] = "serving"]
        /\ entries' = entries \cup {r} /\ call' = [call EXCEPT ![r] = "returned"]
        /\ UNCHANGED <<relays, lifetime, dropped, closes, taken, ending>>
    BY <1>3 DEF F!Open, F!Returned
  <2>2. /\ call'[r] = "returned" /\ port'[r] = "serving" /\ closes[r] = 0
        /\ \A q \in Request : q # r => call'[q] = call[q] /\ port'[q] = port[q]
    BY <1>2, <2>1 DEF ForwardTypes, CallHas
  <2>3. ForwardTypes'
    BY <1>2, <2>1 DEF ForwardTypes, CallStates, Ports
  <2>4. \A q \in Request : CallHas(q)'
    BY <1>1, <1>2, <2>1, <2>2 DEF CallHas
  <2>5. SomebodyCares' /\ OnlyOpened'
    BY <1>2, <2>1, <2>2 DEF SomebodyCares, OnlyOpened
  <2> QED
    BY <1>1, <2>1, <2>3, <2>4, <2>5, CallMoves
<1>4. CASE F!NotOpened(r)
  <2>1. /\ call[r] \in {"start", "bound"} /\ port' = [port EXCEPT ![r] = "none"]
        /\ call' = [call EXCEPT ![r] = "returned"]
        /\ UNCHANGED <<relays, entries, lifetime, dropped, closes, taken, ending>>
    BY <1>4 DEF F!NotOpened, F!Returned
  <2>2. /\ call'[r] = "returned" /\ port'[r] = "none" /\ closes[r] = 0
        /\ port[r] \in {"none", "bound"}
        /\ \A q \in Request : q # r => call'[q] = call[q] /\ port'[q] = port[q]
    BY <1>2, <2>1 DEF ForwardTypes, CallHas
  <2>3. ForwardTypes'
    BY <1>2, <2>1 DEF ForwardTypes, CallStates, Ports
  <2>4. \A q \in Request : CallHas(q)'
    BY <1>1, <1>2, <2>1, <2>2 DEF CallHas
  <2>5. SomebodyCares' /\ OnlyOpened'
    BY <1>2, <2>1, <2>2 DEF SomebodyCares, OnlyOpened
  <2> QED
    BY <1>1, <2>1, <2>3, <2>4, <2>5, CallMoves
<1>5. CASE F!NothingToClose(r)
  <2>1. /\ call[r] = "start" /\ call' = [call EXCEPT ![r] = "returned"]
        /\ UNCHANGED <<port, relays, entries, lifetime, dropped, closes, taken, ending>>
    BY <1>5 DEF F!NothingToClose, F!Returned
  <2>2. /\ call'[r] = "returned" /\ closes[r] = 0 /\ port[r] = "none"
        /\ \A q \in Request : q # r => call'[q] = call[q]
    BY <1>2, <2>1 DEF ForwardTypes, CallHas
  <2>3. ForwardTypes'
    BY <1>2, <2>1 DEF ForwardTypes, CallStates
  <2>4. \A q \in Request : CallHas(q)'
    BY <1>1, <1>2, <2>1, <2>2 DEF CallHas
  <2>5. SomebodyCares' /\ OnlyOpened'
    BY <1>2, <2>1, <2>2 DEF SomebodyCares, OnlyOpened
  <2> QED
    BY <1>1, <2>1, <2>3, <2>4, <2>5, CallMoves
<1>6. CASE F!Closed(r)
  <2>1. /\ call[r] = "closing" /\ port[closes[r]] = "stopped"
        /\ closes' = [closes EXCEPT ![r] = 0] /\ call' = [call EXCEPT ![r] = "returned"]
        /\ UNCHANGED <<port, relays, entries, lifetime, dropped, taken, ending>>
    BY <1>6 DEF F!Closed, F!Returned
  <2>2. /\ call'[r] = "returned" /\ closes'[r] = 0 /\ port[r] # "bound"
        /\ \A q \in Request : q # r => call'[q] = call[q]
        /\ \A q \in Request \cup {0} : q # r => closes'[q] = closes[q]
    BY <1>2, <2>1 DEF ForwardTypes, CallHas
  <2>3. ForwardTypes'
    BY <1>2, <2>1 DEF ForwardTypes, CallStates
  <2>4. \A q \in Request : CallHas(q)'
    BY <1>1, <1>2, <2>1, <2>2 DEF CallHas
  <2>5. SomebodyCares'
    BY <1>2, <2>1, <2>2 DEF SomebodyCares
  <2>6. OnlyOpened'
    BY <1>2, <2>1, <2>2, RequestsAre DEF OnlyOpened, None
  <2> QED
    BY <1>1, <2>1, <2>3, <2>4, <2>5, <2>6, CallMoves
<1> QED
  BY <1>3, <1>4, <1>5, <1>6 DEF CallReturns

LEMMA AbortedForward ==
  ASSUME OrderInv, ForwardInv, NEW r \in Request, CallAborted(r)
  PROVE  ForwardInv'
<1>1. /\ r \in Running /\ EndedIsReady' /\ UNCHANGED <<pc, failed, partial, result>>
      /\ \A q \in Request : q # r => task'[q] = task[q]
      /\ task'[r] = "ended" /\ Running' = Running \ {r}
  BY EndedWaits DEF CallAborted
<1>2. ForwardTypes /\ CallHas(r) /\ (\A q \in Request : CallHas(q)) /\ SomebodyCares /\ OnlyOpened
  BY DEF ForwardInv
<1>3. /\ call' = [call EXCEPT ![r] = "returned"] /\ closes' = [closes EXCEPT ![r] = 0]
      /\ UNCHANGED <<relays, entries, taken, ending>> /\ dropped \subseteq dropped'
      /\ dropped' \subseteq lifetime'
  BY <1>2 DEF ForwardTypes, CallAborted, F!Abort, F!Dropped
<1>4. /\ call'[r] = "returned" /\ closes'[r] = 0 /\ r # 0
      /\ \A q \in Request : q # r => call'[q] = call[q]
      /\ \A q \in Request \cup {0} : q # r => closes'[q] = closes[q]
      /\ call' \in [Request -> CallStates] /\ closes' \in [Request \cup {0} -> Request \cup {0}]
  BY <1>2, <1>3, RequestsAre DEF ForwardTypes, CallStates, None
<1>5. OnlyOpened'
  BY <1>2, <1>3, <1>4, RequestsAre DEF OnlyOpened, None
<1>6. CASE call[r] = "bound"
  <2>1. port' = [port EXCEPT ![r] = "none"]
    BY <1>6 DEF CallAborted, F!Abort
  <2>2. /\ port'[r] = "none" /\ closes[r] = 0 /\ port[r] = "bound"
        /\ \A q \in Request : q # r => port'[q] = port[q]
    BY <1>2, <1>6, <2>1 DEF ForwardTypes, CallHas
  <2>3. ForwardTypes'
    BY <1>2, <1>3, <1>4, <2>1 DEF ForwardTypes, Ports
  <2>4. \A q \in Request : CallHas(q)'
    BY <1>1, <1>2, <1>3, <1>4, <2>1, <2>2 DEF CallHas
  <2>5. SomebodyCares'
    BY <1>2, <1>3, <1>4, <2>2 DEF SomebodyCares
  <2> QED
    BY <1>1, <1>3, <1>5, <2>3, <2>4, <2>5, CallMoves
<1>7. CASE call[r] = "closing"
  <2>1. PICK f \in Request : closes[r] = f
    BY <1>2, <1>7 DEF ForwardTypes, CallHas
  <2>2. UNCHANGED port /\ f \in dropped'
    BY <1>7, <2>1 DEF CallAborted, F!Abort, F!Dropped
  <2>3. ForwardTypes'
    BY <1>2, <1>3, <1>4, <2>2 DEF ForwardTypes
  <2>4. port[r] # "bound"
    BY <1>2, <1>7 DEF CallHas
  <2>5. \A q \in Request : CallHas(q)'
    BY <1>1, <1>2, <1>3, <1>4, <2>2, <2>4 DEF CallHas
  <2>6. SomebodyCares'
    BY <1>2, <1>3, <1>4, <2>1, <2>2 DEF SomebodyCares
  <2> QED
    BY <1>1, <1>3, <1>5, <2>3, <2>5, <2>6, CallMoves
<1>8. CASE call[r] \notin {"bound", "closing"}
  <2>1. UNCHANGED port
    BY <1>8 DEF CallAborted, F!Abort
  <2>2. closes[r] = 0 /\ port[r] # "bound"
    BY <1>2, <1>8 DEF ForwardTypes, CallHas
  <2>3. ForwardTypes'
    BY <1>2, <1>3, <1>4, <2>1 DEF ForwardTypes
  <2>4. \A q \in Request : CallHas(q)'
    BY <1>1, <1>2, <1>3, <1>4, <2>1, <2>2 DEF CallHas
  <2>5. SomebodyCares'
    BY <1>2, <1>3, <1>4, <2>1, <2>2 DEF SomebodyCares
  <2> QED
    BY <1>1, <1>3, <1>5, <2>3, <2>4, <2>5, CallMoves
<1> QED
  BY <1>6, <1>7, <1>8

LEMMA ServesForward ==
  ASSUME ForwardInv, NEW f \in Request, InForward(F!Serve(f))
  PROVE  ForwardInv'
<1>1. /\ UNCHANGED <<pc, failed, partial, result, task, ready>>
      /\ UNCHANGED <<call, entries, dropped, closes, taken, ending>> /\ lifetime \subseteq lifetime'
  BY DEF InForward, vars, owner, tasks, F!Serve, F!Accept, F!StopsServing, F!RelayEnds, F!Drained,
     F!AbortLands
<1>2. ForwardTypes /\ (\A q \in Request : CallHas(q)) /\ SomebodyCares
  BY DEF ForwardInv
<1>3. /\ port' \in [Request -> Ports] /\ relays' \in [Request -> Nat]
      /\ \A q \in Request : q # f => port'[q] = port[q] /\ relays'[q] = relays[q]
      /\ \/ port'[f] = port[f] /\ (relays'[f] > 0 => relays[f] > 0 \/ port[f] = "serving")
         \/ port[f] = "serving" /\ port'[f] = "draining" /\ relays'[f] = relays[f]
         \/ port[f] = "draining" /\ port'[f] = "stopped" /\ relays'[f] = 0
         \/ port[f] \in {"serving", "draining"} /\ port'[f] = "stopped" /\ f \in dropped
  <2>1. CASE F!Accept(f)
    BY <1>2, <2>1 DEF F!Accept, ForwardTypes
  <2>2. CASE F!StopsServing(f)
    BY <1>2, <2>2 DEF F!StopsServing, ForwardTypes, Ports
  <2>3. CASE F!RelayEnds(f)
    <3>1. relays[f] \in Nat /\ relays[f] > 0 /\ port' = port /\ relays' = [relays EXCEPT ![f] = @ - 1]
      BY <1>2, <2>3 DEF F!RelayEnds, ForwardTypes
    <3>2. relays[f] - 1 \in Nat
      BY <3>1
    <3> QED
      BY <1>2, <3>1, <3>2 DEF ForwardTypes
  <2>4. CASE F!Drained(f)
    BY <1>2, <2>4 DEF F!Drained, ForwardTypes, Ports
  <2>5. CASE F!AbortLands(f)
    BY <1>2, <2>5 DEF F!AbortLands, ForwardTypes, Ports
  <2> QED
    BY <2>1, <2>2, <2>3, <2>4, <2>5 DEF InForward, F!Serve
<1>4. ForwardTypes'
  BY <1>1, <1>2, <1>3 DEF ForwardTypes
<1>5. ASSUME NEW q \in Request PROVE CallHas(q)'
  <2>1. CallHas(q) /\ (q \in Running => q \in Running')
    BY <1>1, <1>2 DEF Running
  <2>2. CASE q # f
    BY <1>1, <1>3, <2>1, <2>2 DEF CallHas
  <2>3. CASE q = f
    BY <1>1, <1>3, <2>1, <2>3 DEF CallHas
  <2> QED
    BY <2>2, <2>3
<1>6. SomebodyCares'
  BY <1>1, <1>2, <1>3 DEF SomebodyCares
<1>7. EndedIsReady' /\ OnlyOpened' /\ ShutdownIsLast'
  BY <1>1 DEF ForwardInv, EndedIsReady, OnlyOpened, ShutdownIsLast, AllJoinedNow, Finished
<1> QED
  BY <1>4, <1>5, <1>6, <1>7 DEF ForwardInv

LEMMA ShutsForward ==
  ASSUME ForwardInv, ServiceShuts
  PROVE  ForwardInv'
<1>1. /\ pc = "service" /\ UNCHANGED <<pc, failed, partial, result, task, ready>>
      /\ UNCHANGED <<call, port, relays, dropped>> /\ lifetime \subseteq lifetime'
  BY DEF ServiceShuts, InForward, vars, owner, tasks, F!Shutdown, F!ShutdownNext, F!ShutdownWaited
<1>2. /\ ForwardTypes /\ (\A q \in Request : CallHas(q)) /\ SomebodyCares /\ OnlyOpened
      /\ ShutdownIsLast
  BY DEF ForwardInv
<1>3. AllJoinedNow /\ AllJoinedNow' /\ result # "ok"
  BY <1>1, <1>2 DEF ShutdownIsLast, AllJoinedNow
<1>4. /\ \A q \in Request : closes'[q] = closes[q]
      /\ closes' \in [Request \cup {0} -> Request \cup {0}] /\ ending' \in BOOLEAN
      /\ entries' \subseteq Request /\ taken' \subseteq Request
      /\ ending' => entries' = {}
      /\ ~ending' => taken' = {}
      /\ entries' \cup taken' \cup {closes'[0]} \subseteq entries \cup taken \cup {closes[0], 0}
      /\ \A f \in Request : /\ port[f] # "stopped"
                            /\ f \in entries \cup taken \cup {closes[0]}
                            => f \in entries' \cup taken' \cup {closes'[0]}
  <2>1. \A q \in Request : q # 0
    BY RequestsAre DEF None
  <2>2. CASE F!Shutdown
    BY <1>2, <2>2 DEF F!Shutdown, ForwardTypes, ShutdownIsLast
  <2>3. CASE F!ShutdownNext
    <3>1. PICK f \in taken : closes' = [closes EXCEPT ![0] = f] /\ taken' = taken \ {f}
      BY <2>3 DEF F!ShutdownNext
    <3>2. closes[0] = 0 /\ UNCHANGED <<entries, ending>> /\ f \in Request
      BY <1>2, <2>3 DEF F!ShutdownNext, ForwardTypes
    <3>3. /\ closes'[0] = f /\ \A q \in Request : closes'[q] = closes[q]
          /\ closes' \in [Request \cup {0} -> Request \cup {0}]
      BY <1>2, <2>1, <3>1, <3>2 DEF ForwardTypes
    <3> QED
      BY <1>2, <2>1, <3>1, <3>2, <3>3 DEF ForwardTypes, ShutdownIsLast
  <2>4. CASE F!ShutdownWaited
    <3>1. /\ port[closes[0]] = "stopped" /\ closes' = [closes EXCEPT ![0] = 0]
          /\ UNCHANGED <<entries, ending, taken>>
      BY <2>4 DEF F!ShutdownWaited
    <3>2. /\ closes'[0] = 0 /\ \A q \in Request : closes'[q] = closes[q]
          /\ closes' \in [Request \cup {0} -> Request \cup {0}]
      BY <1>2, <2>1, <3>1 DEF ForwardTypes
    <3> QED
      BY <1>2, <3>1, <3>2 DEF ForwardTypes, ShutdownIsLast
  <2> QED
    BY <2>2, <2>3, <2>4 DEF ServiceShuts, InForward
<1>5. ForwardTypes'
  BY <1>1, <1>2, <1>4 DEF ForwardTypes
<1>6. ASSUME NEW q \in Request PROVE CallHas(q)'
  <2>1. CallHas(q) /\ (q \in Running => q \in Running')
    BY <1>1, <1>2 DEF Running
  <2> QED
    BY <1>1, <1>4, <2>1 DEF CallHas
<1>7. SomebodyCares'
  <2>1. SUFFICES ASSUME NEW f \in Request, port[f] \in {"serving", "draining"}
        PROVE  f \in entries' \cup taken' \cup dropped \/ \E q \in Request \cup {0} : closes'[q] = f
    BY <1>1 DEF SomebodyCares
  <2>2. CASE f \in entries \cup taken \cup {closes[0]}
    BY <1>4, <2>1, <2>2
  <2>3. CASE \E q \in Request : closes[q] = f
    BY <1>4, <2>3
  <2>4. CASE f \in dropped
    BY <2>4
  <2> QED
    BY <1>2, <2>1, <2>2, <2>3, <2>4 DEF SomebodyCares
<1>8. OnlyOpened'
  <2>1. SUFFICES ASSUME NEW f \in Request,
                        f \in entries' \cup taken' \/ \E q \in Request \cup {0} : closes'[q] = f
        PROVE  call[f] = "returned"
    BY <1>1 DEF OnlyOpened
  <2>2. f # 0
    BY RequestsAre DEF None
  <2>3. f \in entries \cup taken \/ \E q \in Request \cup {0} : closes[q] = f
    BY <1>4, <2>1, <2>2
  <2> QED
    BY <1>2, <2>3 DEF OnlyOpened
<1>9. ShutdownIsLast'
  BY <1>1, <1>3, <1>4 DEF ShutdownIsLast
<1>10. EndedIsReady'
  BY <1>1 DEF ForwardInv, EndedIsReady
<1> QED
  BY <1>5, <1>6, <1>7, <1>8, <1>9, <1>10 DEF ForwardInv

LEMMA ShutForward ==
  ASSUME ForwardInv, ServiceShut
  PROVE  ForwardInv'
<1>1. /\ pc = "service" /\ pc' = "join" /\ UNCHANGED <<failed, partial, task, ready>>
      /\ UNCHANGED forwardVars /\ result' \in {"none", "service"}
      /\ ending /\ taken = {} /\ closes[0] = 0
  BY DEF ServiceShut, Alone, ServiceReturns, Goes, tasks, F!ShutdownDone
<1>2. Running \subseteq Running' /\ \A r \in Request : task'[r] = "none" => task[r] = "none"
  BY <1>1 DEF Running
<1>3. EndedIsReady'
  BY <1>1 DEF ForwardInv, EndedIsReady
<1>4. ShutdownIsLast'
  <2>1. AllJoinedNow' /\ entries' = {} /\ Finished'
    BY <1>1 DEF ForwardInv, ShutdownIsLast, AllJoinedNow, Finished, forwardVars
  <2> QED
    BY <1>1, <2>1 DEF ShutdownIsLast, forwardVars
<1> QED
  BY <1>1, <1>2, <1>3, <1>4, ServerMoves

LEMMA DroppedForward ==
  ASSUME ForwardInv, ServiceDropped
  PROVE  ForwardInv'
<1>1. /\ pc = "service" /\ pc' = "join" /\ result' = "service" /\ UNCHANGED <<task, ready>>
      /\ taken' = {} /\ closes' = [closes EXCEPT ![0] = 0]
      /\ UNCHANGED <<call, port, relays, entries, ending>>
  BY DEF ServiceDropped, ServiceExpires, Goes, tasks, F!ShutdownDropped
<1>2. /\ ForwardTypes /\ (\A q \in Request : CallHas(q)) /\ SomebodyCares /\ OnlyOpened
      /\ ShutdownIsLast
  BY DEF ForwardInv
<1>3. PICK fs \in SUBSET Request : fs = taken \cup ({closes[0]} \ {0})
  BY <1>2 DEF ForwardTypes
<1>4. dropped' = dropped \cup fs /\ dropped' \subseteq lifetime'
  BY <1>2, <1>3 DEF ForwardTypes, ServiceDropped, F!ShutdownDropped, F!Dropped
<1>5. /\ closes'[0] = 0 /\ \A q \in Request : closes'[q] = closes[q]
      /\ closes' \in [Request \cup {0} -> Request \cup {0}]
  <2>1. \A q \in Request : q # 0
    BY RequestsAre DEF None
  <2> QED
    BY <1>1, <1>2, <2>1 DEF ForwardTypes
<1>6. ForwardTypes'
  BY <1>1, <1>2, <1>4, <1>5 DEF ForwardTypes
<1>7. ASSUME NEW q \in Request PROVE CallHas(q)'
  <2>1. CallHas(q) /\ (q \in Running => q \in Running')
    BY <1>1, <1>2 DEF Running
  <2> QED
    BY <1>1, <1>4, <1>5, <2>1 DEF CallHas
<1>8. SomebodyCares'
  <2>1. SUFFICES ASSUME NEW f \in Request, port[f] \in {"serving", "draining"}
        PROVE  f \in entries \cup dropped' \/ \E q \in Request : closes'[q] = f
    BY <1>1 DEF SomebodyCares
  <2>2. f # 0
    BY RequestsAre DEF None
  <2> QED
    BY <1>2, <1>3, <1>4, <1>5, <2>1, <2>2 DEF SomebodyCares
<1>9. OnlyOpened'
  <2>1. \A f \in Request : f # 0
    BY RequestsAre DEF None
  <2> QED
    BY <1>1, <1>2, <1>5, <2>1 DEF OnlyOpened
<1>10. ShutdownIsLast' /\ EndedIsReady'
  BY <1>1, <1>2 DEF ForwardInv, ShutdownIsLast, AllJoinedNow, EndedIsReady
<1> QED
  BY <1>6, <1>7, <1>8, <1>9, <1>10 DEF ForwardInv

LEMMA ForwardStep ==
  ASSUME OrderInv, ForwardInv, [SysNext]_all PROVE ForwardInv'
<1>1. CASE UNCHANGED all
  <2>1. UNCHANGED <<pc, failed, partial, result, task, ready>> /\ UNCHANGED forwardVars
    BY <1>1 DEF all, vars, owner, tasks
  <2>2. Running \subseteq Running' /\ \A r \in Request : task'[r] = "none" => task[r] = "none"
    BY <2>1 DEF Running
  <2>3. EndedIsReady' /\ ShutdownIsLast'
    BY <2>1 DEF ForwardInv, EndedIsReady, ShutdownIsLast, AllJoinedNow, Finished, forwardVars
  <2> QED
    BY <2>1, <2>2, <2>3, ServerMoves
<1>2. CASE Alone(Client \/ Owner \/ Expires \/ Writer \/ WriterFails)
  BY <1>2, ServerForward DEF Alone
<1>3. ASSUME NEW r \in Request, Works(r) \/ CallReturns(r) \/ CallAborted(r) \/ InForward(F!Serve(r))
      PROVE  ForwardInv'
  BY <1>3, WorksForward, ReturnsForward, AbortedForward, ServesForward
<1>4. CASE ServiceShuts \/ ServiceShut \/ ServiceDropped
  BY <1>4, ShutsForward, ShutForward, DroppedForward
<1> QED
  BY <1>1, <1>2, <1>3, <1>4 DEF SysNext

LEMMA ForwardInit ==
  ASSUME SysInit PROVE ForwardInv
<1>1. /\ Init /\ F!Init
  BY DEF SysInit
<1>2. ForwardTypes
  BY <1>1 DEF F!Init, ForwardTypes, CallStates, Ports
<1>3. \A r \in Request : CallHas(r)
  BY <1>1 DEF Init, F!Init, CallHas
<1>4. SomebodyCares /\ OnlyOpened
  <2>1. \A f \in Request : f # 0
    BY RequestsAre DEF None
  <2> QED
    BY <1>1, <2>1 DEF F!Init, SomebodyCares, OnlyOpened
<1>5. EndedIsReady /\ ShutdownIsLast
  BY <1>1 DEF Init, F!Init, EndedIsReady, ShutdownIsLast
<1> QED
  BY <1>2, <1>3, <1>4, <1>5 DEF ForwardInv

-----------------------------------------------------------------------------
(* The theorems.                                                           *)

(* What is true in every state of the server (serve in mcp/mod.rs) and of  *)
(* the forwards it owns (ForwardManager in remote/forward.rs): where each  *)
(* request, task and answer is, and who will close what is open.           *)
THEOREM ServerInvariant == SysSpec => [](OrderInv /\ ForwardInv)
<1>1. SysInit => OrderInv /\ ForwardInv
  BY OrderInit, ForwardInit DEF SysInit
<1>2. OrderInv /\ ForwardInv /\ [SysNext]_all => (OrderInv /\ ForwardInv)'
  BY OrderStep, ForwardStep
<1> QED
  BY <1>1, <1>2, PTL DEF SysSpec

(* Each request is answered at most once, and two with the same id in the  *)
(* order in which the client sent them: an id stays reserved until         *)
(* process_completion has taken the call out of the registry, and the loop *)
(* hands the channel one message at a time.                                *)
THEOREM AnswersAlwaysInOrder == SysSpec => []AnswersInOrder
<1>1. OrderInv /\ ForwardInv => AnswersInOrder
  BY DEF OrderInv
<1> QED
  BY <1>1, ServerInvariant, PTL

(* serve returns Ok only when every task is joined, and then no listener,  *)
(* relay or ssh process of a forward is left, but of one whose close was   *)
(* aborted: it is cancelled and its abort asked for, and nobody waits for  *)
(* the end of it.  A forward that is open is in the manager's entries, has *)
(* a waiter, or has lost its entry; ForwardManager::shutdown takes the     *)
(* entries when no call is left that could open another, and awaits them.  *)
THEOREM NothingOfAForwardLeft == SysSpec => []NoForwardLeft
<1>1. OrderInv /\ ForwardInv => NoForwardLeft
  <2>1. SUFFICES ASSUME ForwardInv, result = "ok", NEW r \in Request
        PROVE  /\ task[r] \in {"none", "joined"}
               /\ F!Gone(r) \/ r \in dropped \cap lifetime
    BY DEF NoForwardLeft
  <2>2. AllJoinedNow /\ entries = {} /\ taken = {} /\ closes[0] = 0
    BY <2>1 DEF ForwardInv, ShutdownIsLast, Finished
  <2>3. \A q \in Request : closes[q] = 0 /\ call[q] \notin {"bound", "closing"}
    BY <2>1, <2>2 DEF ForwardInv, CallHas, AllJoinedNow, Running, ForwardTypes
  <2>4. CASE r \in dropped
    BY <2>1, <2>2, <2>4 DEF ForwardInv, ForwardTypes, AllJoinedNow
  <2>5. CASE r \notin dropped
    <3>1. port[r] \in Ports /\ port[r] \notin {"bound", "serving", "draining"}
      <4>1. \A q \in Request : q # 0
        BY RequestsAre DEF None
      <4> QED
        BY <2>1, <2>2, <2>3, <2>5, <4>1 DEF ForwardInv, ForwardTypes, SomebodyCares, CallHas
    <3>2. relays[r] = 0
      BY <2>1, <2>5, <3>1 DEF ForwardInv, ForwardTypes, CallHas
    <3> QED
      BY <2>2, <3>1, <3>2 DEF F!Gone, AllJoinedNow, Ports
  <2> QED
    BY <2>4, <2>5
<1> QED
  BY <1>1, ServerInvariant, PTL

=============================================================================
