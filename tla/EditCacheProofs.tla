--------------------------- MODULE EditCacheProofs ---------------------------
(***************************************************************************)
(* Proofs about the edit cache, for every value of its constants: types,   *)
(* safety, and that EditCache implements EditedFiles.                      *)
(***************************************************************************)
EXTENDS EditCacheFiles, SumTheorems

-----------------------------------------------------------------------------
(* Types                                                                   *)

(* The call states whose next step takes the first path of `todo'. *)
Loading == {"lookup", "load", "loadwait", "fetch", "insert", "lookup2",
            "iflush", "isnap", "iwrite", "rfetch", "rinsert"}

CallTodo(s) ==
  /\ s.pc \in Loading => s.todo # {}
  /\ s.pc = "mutate" => DOMAIN s.plan # {}

TodoOK == \A c \in Call : CallTodo(call[c])

(* A spawned flush that commits has not been counted off yet. *)
SpawnedOK == flusher = "spawned" => spawned > 0

TypeInv == TypeOK /\ TodoOK /\ SpawnedOK

LEMMA FirstIn ==
  ASSUME NEW S \in SUBSET Path, S # {}
  PROVE  First(S) \in S
<1>1. S \in SUBSET Nat
  BY EditCacheAssumption DEF EditCacheAssumption
<1>2. \E p \in S : \A q \in S : ~ (<<q, p>> \in OpToRel(<, Nat))
  BY <1>1, NatLessThanWellFounded, WFMin
<1>3. PICK p \in S : \A q \in S : ~ (<<q, p>> \in OpToRel(<, Nat))
  BY <1>2
<1>4. ASSUME NEW q \in S PROVE p =< q
  <2>1. p \in Nat /\ q \in Nat
    BY <1>1
  <2>2. q < p => <<q, p>> \in OpToRel(<, Nat)
    BY <2>1 DEF OpToRel
  <2>3. ~ (q < p)
    BY <1>3, <2>2, Zenon
  <2> QED
    BY <2>1, <2>3
<1> QED
  BY <1>4 DEF First

LEMMA IdleCallOK == IdleCall \in CallState /\ CallTodo(IdleCall)
<1>1. EmptyFunction \in [{} -> Seen] /\ {} \in SUBSET Path
  BY DEF EmptyFunction
<1>2. EmptyFunction \in Plan
  BY <1>1 DEF Plan
<1>3. NoFile \in Content /\ MaxGen \in Nat
  BY EditCacheAssumption DEF EditCacheAssumption
<1> QED
  BY <1>2, <1>3 DEF IdleCall, CallState, AllOps, PC, CallTodo, Loading

(* A step that gives one call a new state of the right kind. *)
LEMMA CallStepOK ==
  ASSUME call \in [Call -> CallState], TodoOK, NEW c \in Call,
         NEW s \in CallState, CallTodo(s), call' = [call EXCEPT ![c] = s]
  PROVE  call' \in [Call -> CallState] /\ TodoOK'
BY DEF TodoOK

LEMMA ReturnOK ==
  ASSUME TypeInv, NEW c \in Call, Return(c)
  PROVE  call' \in [Call -> CallState] /\ TodoOK'
BY IdleCallOK, CallStepOK DEF TypeInv, TypeOK, TaskOK, Return

LEMMA GotoOK ==
  ASSUME TypeInv, NEW c \in Call, NEW pc \in PC \ {"mutate"}, Goto(c, pc),
         pc \in Loading => call[c].todo # {}
  PROVE  call' \in [Call -> CallState] /\ TodoOK'
<1> DEFINE s == [call[c] EXCEPT !.pc = pc]
<1>1. call[c] \in CallState
  BY DEF TypeInv, TypeOK, TaskOK
<1>2. s \in CallState /\ s.pc = pc /\ s.todo = call[c].todo
  BY <1>1 DEF CallState
<1>3. CallTodo(s)
  BY <1>2 DEF CallTodo
<1>4. call' = [call EXCEPT ![c] = s]
  BY DEF Goto
<1> QED
  BY <1>2, <1>3, <1>4, CallStepOK DEF TypeInv, TypeOK, TaskOK
-----------------------------------------------------------------------------
(* What leaves a group of variables alone preserves its part of TypeOK.    *)
LEMMA Untouched ==
  ASSUME TypeOK
  PROVE  /\ UNCHANGED remoteVars => RemoteOK'
         /\ UNCHANGED cacheVars => CacheOK'
         /\ UNCHANGED timerVars => TimerOK'
         /\ UNCHANGED flushVars => FlushOK'
         /\ UNCHANGED taskVars => TaskOK'
         /\ UNCHANGED history => HistoryOK'
<1>1. UNCHANGED remoteVars => RemoteOK'
  BY DEF TypeOK, RemoteOK, remoteVars
<1>2. UNCHANGED cacheVars => CacheOK'
  BY DEF TypeOK, CacheOK, cacheVars, Cached
<1>3. UNCHANGED timerVars => TimerOK'
  BY DEF TypeOK, TimerOK, timerVars
<1>4. UNCHANGED flushVars => FlushOK'
  BY DEF TypeOK, FlushOK, flushVars
<1>5. UNCHANGED taskVars => TaskOK'
  BY DEF TypeOK, TaskOK, taskVars
<1>6. UNCHANGED history => HistoryOK'
  BY DEF TypeOK, HistoryOK, history
<1> QED
  BY <1>1, <1>2, <1>3, <1>4, <1>5, <1>6

LEMMA TouchOK ==
  ASSUME CacheOK, NEW S \in SUBSET Path
  PROVE  Touch(S) \subseteq Path \X Path
BY DEF CacheOK, Touch

(* Evicting entries. *)
LEMMA WithoutOK ==
  ASSUME CacheOK, NEW S
  PROVE  /\ DOMAIN Without(S) = Cached \ S
         /\ \A p \in Cached \ S : Without(S)[p] = entry[p]
         /\ \A p \in DOMAIN Without(S) : p \in Path /\ Without(S)[p] \in Entry
BY DEF CacheOK, Without, Restrict

LEMMA InvalidateCleanOK ==
  ASSUME CacheOK, InvalidateClean
  PROVE  CacheOK'
BY WithoutOK DEF CacheOK, InvalidateClean, Cached

LEMMA CleanEntryOK ==
  ASSUME NEW text \in Content
  PROVE  [base |-> text, desired |-> text, gen |-> 0, dirty |-> FALSE,
          inFlight |-> 0, conflict |-> "none"] \in Entry
BY EditCacheAssumption DEF EditCacheAssumption, Entry, Gen

LEMMA InsertCleanOK ==
  ASSUME CacheOK, NEW p \in Path, NEW text \in Content,
         InsertClean(p, text), nextGen' = nextGen
  PROVE  CacheOK'
<1>1. CASE UNCHANGED <<entry, older, cachedBytes>>
  BY <1>1 DEF CacheOK, Cached
<1> DEFINE victims == Victims(Size[text], {})
           clean == [base |-> text, desired |-> text, gen |-> 0, dirty |-> FALSE,
                     inFlight |-> 0, conflict |-> "none"]
<1>2. CASE /\ entry' = [q \in (Cached \ victims) \cup {p} |->
                           IF q = p THEN clean ELSE entry[q]]
           /\ older' = Touch({p})
  BY <1>2, CleanEntryOK, TouchOK DEF CacheOK, Cached
<1>3. CASE entry' = Without(victims) /\ UNCHANGED older
  BY <1>3, WithoutOK DEF CacheOK, Cached
<1> QED
  BY <1>1, <1>2, <1>3 DEF InsertClean

LEMMA NotifiedOK ==
  ASSUME TimerOK
  PROVE  Notified \in {"off", "check", "wait", "sleep", "flush"}
BY DEF TimerOK, Notified

-----------------------------------------------------------------------------
(* Type correctness, action by action.                                     *)

(* A step of call c that may also change the LRU order. *)
LEMMA QuietStepOK ==
  ASSUME TypeInv, call' \in [Call -> CallState], TodoOK',
         older' \subseteq Path \X Path,
         UNCHANGED <<remoteVars, entry, cachedBytes, nextGen, timerVars,
                     flushVars, prep, barrier, life, history>>
  PROVE  TypeInv'
<1>1. CacheOK'
  BY DEF TypeInv, TypeOK, CacheOK, Cached
<1>2. TaskOK'
  BY DEF TypeInv, TypeOK, TaskOK
<1>3. SpawnedOK'
  BY DEF TypeInv, SpawnedOK, timerVars, flushVars
<1> QED
  BY <1>1, <1>2, <1>3, Untouched DEF TypeInv, TypeOK

LEMMA FirstTodo ==
  ASSUME TypeInv, NEW c \in Call, call[c].pc \in Loading
  PROVE  First(call[c].todo) \in call[c].todo /\ First(call[c].todo) \in Path
<1>1. call[c] \in CallState
  BY DEF TypeInv, TypeOK, TaskOK
<1>2. call[c].todo \in SUBSET Path /\ call[c].todo # {}
  BY <1>1 DEF TypeInv, TodoOK, CallTodo, CallState
<1> QED
  BY <1>2, FirstIn

LEMMA ReadSteps ==
  ASSUME TypeInv, NEW c \in Call,
         \/ \E p \in Path : ReadLookup(c, p)
         \/ ReadRemote(c)
         \/ cache_clean_if_absent(c)
  PROVE  TypeInv'
<1>0. /\ call \in [Call -> CallState] /\ TodoOK /\ CacheOK
      /\ remote \in [Path -> Content] /\ call[c] \in CallState
      /\ older \subseteq Path \X Path
  BY DEF TypeInv, TypeOK, TaskOK, CacheOK, RemoteOK
<1>1. ASSUME NEW p \in Path, ReadLookup(c, p) PROVE TypeInv'
  <2> DEFINE s == [IdleCall EXCEPT !.pc = "rfetch", !.todo = {p}]
  <2>1. s \in CallState /\ CallTodo(s)
    BY IdleCallOK DEF CallState, CallTodo, Loading, PC
  <2>2. call' = call \/ call' = [call EXCEPT ![c] = s]
    BY <1>1 DEF ReadLookup
  <2>3. call' \in [Call -> CallState] /\ TodoOK'
    BY <1>0, <2>1, <2>2, CallStepOK DEF TodoOK
  <2>4. older' \subseteq Path \X Path
    BY <1>0, <1>1, TouchOK DEF ReadLookup
  <2> QED
    BY <1>1, <2>3, <2>4, QuietStepOK DEF ReadLookup
<1>2. CASE ReadRemote(c)
  <2> DEFINE text == remote[First(call[c].todo)]
             s == [call[c] EXCEPT !.pc = "rinsert", !.snap = text]
  <2>1. First(call[c].todo) \in Path
    BY <1>2, FirstTodo DEF ReadRemote, Loading
  <2>2. text \in Content
    BY <1>0, <2>1
  <2>3. s \in CallState
    BY <1>0, <2>2 DEF CallState, PC
  <2>4. CallTodo(s)
    BY <1>0, <1>2 DEF CallTodo, TodoOK, ReadRemote, Loading, CallState
  <2>5. call' = [call EXCEPT ![c] = IdleCall] \/ call' = [call EXCEPT ![c] = s]
    BY <1>2 DEF ReadRemote
  <2>6. call' \in [Call -> CallState] /\ TodoOK'
    BY <1>0, <2>3, <2>4, <2>5, IdleCallOK, CallStepOK
  <2> QED
    BY <1>0, <1>2, <2>6, QuietStepOK DEF ReadRemote, cacheVars
<1>3. CASE cache_clean_if_absent(c)
  <2>1. First(call[c].todo) \in Path /\ call[c].snap \in Content
    BY <1>0, <1>3, FirstTodo DEF cache_clean_if_absent, Loading, CallState
  <2>2. CacheOK'
    BY <1>0, <1>3, <2>1, InsertCleanOK DEF cache_clean_if_absent
  <2>3. call' \in [Call -> CallState] /\ TodoOK'
    BY <1>3, ReturnOK DEF cache_clean_if_absent
  <2>4. TaskOK' /\ SpawnedOK'
    BY <1>3, <2>3 DEF cache_clean_if_absent, TypeInv, TypeOK, TaskOK, SpawnedOK,
                      timerVars, flushVars
  <2> QED
    BY <1>3, <2>2, <2>3, <2>4, Untouched DEF cache_clean_if_absent, TypeInv, TypeOK
<1> QED
  BY <1>1, <1>2, <1>3

LEMMA PlanExtended ==
  ASSUME NEW plan \in Plan, NEW p \in Path, NEW seen \in Seen
  PROVE  [q \in DOMAIN plan \cup {p} |-> IF q = p THEN seen ELSE plan[q]] \in Plan
<1>1. PICK D \in SUBSET Path : plan \in [D -> Seen]
  BY DEF Plan
<1>2. [q \in DOMAIN plan \cup {p} |-> IF q = p THEN seen ELSE plan[q]]
        \in [D \cup {p} -> Seen]
  BY <1>1
<1>3. D \cup {p} \in SUBSET Path
  OBVIOUS
<1> QED
  BY <1>2, <1>3 DEF Plan

LEMMA PlanDomain ==
  ASSUME NEW plan \in Plan
  PROVE  DOMAIN plan \subseteq Path /\ \A p \in DOMAIN plan : plan[p] \in Seen
BY DEF Plan

LEMMA LoadedOK ==
  ASSUME TypeInv, NEW c \in Call, NEW p \in Cached, Loaded(c, p)
  PROVE  call' \in [Call -> CallState] /\ TodoOK'
<1> DEFINE rest == call[c].todo \ {p}
           seen == [gen |-> entry[p].gen, text |-> entry[p].desired]
           plan == [q \in DOMAIN call[c].plan \cup {p} |->
                      IF q = p THEN seen ELSE call[c].plan[q]]
           pc == IF rest = {} THEN "mutate" ELSE "lookup"
           s == [call[c] EXCEPT !.todo = rest, !.plan = plan, !.pc = pc]
<1>0. /\ call \in [Call -> CallState] /\ TodoOK /\ call[c] \in CallState
      /\ p \in Path /\ entry[p] \in Entry
  BY DEF TypeInv, TypeOK, TaskOK, CacheOK
<1>1. seen \in Seen
  BY <1>0 DEF Entry, Seen
<1>2. plan \in Plan /\ DOMAIN plan # {}
  BY <1>0, <1>1, PlanExtended DEF CallState
<1>3. rest \in SUBSET Path /\ pc \in PC
  BY <1>0 DEF CallState, PC
<1> HIDE DEF rest, plan, pc
<1>4. s \in CallState
  BY <1>0, <1>2, <1>3 DEF CallState
<1>5. s.pc = pc /\ s.todo = rest /\ s.plan = plan
  BY <1>0 DEF CallState
<1>6. CallTodo(s)
  BY <1>2, <1>5 DEF CallTodo, pc, Loading
<1>7. call' = [call EXCEPT ![c] = s]
  BY <1>0 DEF Loaded, rest, plan, pc
<1> QED
  BY <1>0, <1>4, <1>6, <1>7, CallStepOK

LEMMA ToImmediateOK ==
  ASSUME TypeInv, NEW c \in Call, call[c].pc \in Loading \cup {"mutate"},
         ToImmediate(c)
  PROVE  call' \in [Call -> CallState] /\ TodoOK'
<1> DEFINE todo == call[c].todo \cup DOMAIN call[c].plan
           s == [call[c] EXCEPT !.pc = "iflush", !.todo = todo,
                                !.plan = EmptyFunction]
<1>0. call \in [Call -> CallState] /\ TodoOK /\ call[c] \in CallState
  BY DEF TypeInv, TypeOK, TaskOK
<1>1. EmptyFunction \in Plan
  BY IdleCallOK DEF IdleCall, CallState
<1>2. todo \in SUBSET Path /\ todo # {}
  BY <1>0, PlanDomain DEF CallState, TodoOK, CallTodo
<1>3. s \in CallState /\ CallTodo(s)
  BY <1>0, <1>1, <1>2 DEF CallState, PC, CallTodo, Loading
<1>4. call' = [call EXCEPT ![c] = s]
  BY <1>0 DEF ToImmediate
<1> QED
  BY <1>0, <1>3, <1>4, CallStepOK

LEMMA LoadSteps ==
  ASSUME TypeInv, NEW c \in Call,
         \/ \E batch \in SUBSET Path : EditCall(c, batch)
         \/ lookup_entry(c) \/ lookup_complete(c) \/ LoadLock(c)
         \/ fetch_complete(c) \/ FetchFails(c) \/ load_complete(c)
  PROVE  TypeInv'
<1>0. /\ call \in [Call -> CallState] /\ TodoOK /\ CacheOK
      /\ remote \in [Path -> Content] /\ call[c] \in CallState
      /\ older \subseteq Path \X Path /\ SpawnedOK
      /\ prep \in Call \cup {None, "barrier"}
      /\ barrier \in Call \cup {None, "off"}
      /\ life \in {"up", "closing", "flush", "synced", "unsynced"}
  BY DEF TypeInv, TypeOK, TaskOK, CacheOK, RemoteOK
<1> DEFINE p == First(call[c].todo)
<1>1. ASSUME NEW batch \in SUBSET Path, EditCall(c, batch) PROVE TypeInv'
  <2> DEFINE s == [IdleCall EXCEPT !.op = "edit", !.pc = "lookup", !.todo = batch]
  <2>1. s \in CallState /\ CallTodo(s)
    BY <1>1, IdleCallOK DEF CallState, CallTodo, Loading, PC, AllOps, EditCall
  <2>2. call' = [call EXCEPT ![c] = s]
    BY <1>1 DEF EditCall
  <2>3. call' \in [Call -> CallState] /\ TodoOK'
    BY <1>0, <2>1, <2>2, CallStepOK
  <2> QED
    BY <1>0, <1>1, <2>3, QuietStepOK DEF EditCall, cacheVars
<1>2. CASE lookup_entry(c)
  <2>1. p \in Path /\ call[c].todo # {}
    BY <1>2, FirstTodo DEF lookup_entry, Loading
  <2>2. call' \in [Call -> CallState] /\ TodoOK'
    <3>1. CASE Return(c)
      BY <3>1, ReturnOK
    <3>2. CASE p \in Cached /\ Loaded(c, p)
      BY <3>2, LoadedOK
    <3>3. CASE Goto(c, "load")
      BY <2>1, <3>3, GotoOK DEF PC
    <3>4. CASE call[c].pc = "lookup2" /\ ToImmediate(c)
      BY <3>4, ToImmediateOK DEF Loading
    <3> QED
      BY <1>2, <3>1, <3>2, <3>3, <3>4 DEF lookup_entry
  <2>3. older' \subseteq Path \X Path
    BY <1>0, <1>2, <2>1, TouchOK DEF lookup_entry
  <2> QED
    BY <1>2, <2>2, <2>3, QuietStepOK DEF lookup_entry
<1>3. CASE lookup_complete(c)
  <2>1. p \in Path /\ call[c].todo # {}
    BY <1>3, FirstTodo DEF lookup_complete, Loading
  <2>2. Goto(c, "lookup2") \/ Goto(c, "loadwait")
    BY <1>3 DEF lookup_complete
  <2>3. call' \in [Call -> CallState] /\ TodoOK'
    BY <2>1, <2>2, GotoOK DEF PC
  <2>4. older' \subseteq Path \X Path
    BY <1>0, <1>3, <2>1, TouchOK DEF lookup_complete
  <2> QED
    BY <1>3, <2>3, <2>4, QuietStepOK DEF lookup_complete
<1>4. CASE LoadLock(c)
  <2>1. p \in Path /\ call[c].todo # {}
    BY <1>4, FirstTodo DEF LoadLock, Loading
  <2>2. Goto(c, "lookup2") \/ Goto(c, "fetch")
    BY <1>4 DEF LoadLock
  <2>3. call' \in [Call -> CallState] /\ TodoOK'
    BY <2>1, <2>2, GotoOK DEF PC
  <2>4. older' \subseteq Path \X Path
    BY <1>0, <1>4, <2>1, TouchOK DEF LoadLock
  <2>5. CacheOK'
    BY <1>0, <1>4, <2>4 DEF LoadLock, CacheOK, Cached
  <2>6. TaskOK' /\ SpawnedOK'
    BY <1>0, <1>4, <2>3 DEF LoadLock, TaskOK, SpawnedOK, timerVars, flushVars
  <2> QED
    BY <1>4, <2>3, <2>5, <2>6, Untouched DEF LoadLock, TypeInv, TypeOK
<1>5. CASE fetch_complete(c)
  <2> DEFINE s == [call[c] EXCEPT !.pc = "insert", !.snap = remote[p]]
  <2>1. p \in Path /\ call[c].todo # {}
    BY <1>5, FirstTodo DEF fetch_complete, Loading
  <2>2. remote[p] \in Content
    BY <1>0, <2>1
  <2>3. s \in CallState /\ CallTodo(s)
    BY <1>0, <2>1, <2>2 DEF CallState, PC, CallTodo
  <2>4. call' = [call EXCEPT ![c] = s]
    BY <1>0, <1>5 DEF fetch_complete
  <2>5. call' \in [Call -> CallState] /\ TodoOK'
    BY <1>0, <2>3, <2>4, CallStepOK
  <2> QED
    BY <1>0, <1>5, <2>5, QuietStepOK DEF fetch_complete, cacheVars
<1>6. CASE FetchFails(c)
  <2>1. call' \in [Call -> CallState] /\ TodoOK'
    BY <1>6, ReturnOK DEF FetchFails
  <2>2. TaskOK' /\ SpawnedOK'
    BY <1>0, <1>6, <2>1 DEF FetchFails, TaskOK, SpawnedOK, Release, timerVars,
                            flushVars
  <2> QED
    BY <1>6, <2>1, <2>2, Untouched DEF FetchFails, TypeInv, TypeOK
<1>7. CASE load_complete(c)
  <2>1. p \in Path /\ call[c].todo # {} /\ call[c].snap \in Content
    BY <1>0, <1>7, FirstTodo DEF load_complete, Loading, CallState
  <2>2. CacheOK'
    BY <1>0, <1>7, <2>1, InsertCleanOK DEF load_complete, CacheOK, Cached
  <2>3. call' \in [Call -> CallState] /\ TodoOK'
    BY <1>7, <2>1, GotoOK DEF load_complete, PC
  <2>4. TaskOK' /\ SpawnedOK'
    BY <1>0, <1>7, <2>3 DEF load_complete, TaskOK, SpawnedOK, Release, timerVars,
                            flushVars
  <2> QED
    BY <1>7, <2>2, <2>3, <2>4, Untouched DEF load_complete, TypeInv, TypeOK
<1> QED
  BY <1>1, <1>2, <1>3, <1>4, <1>5, <1>6, <1>7
-----------------------------------------------------------------------------
(* The numbers of a batch are new generations, each given once.            *)
LEMMA NumberingOK ==
  ASSUME TypeOK, NEW batch \in SUBSET Path, NEW number \in Numbering(batch),
         nextGen + Cardinality(batch) =< MaxGen + 1
  PROVE  /\ Cardinality(batch) \in Nat
         /\ nextGen + Cardinality(batch) \in 1 .. MaxGen + 1
         /\ \A p \in batch : /\ number[p] \in Gen /\ number[p] >= nextGen
                             /\ number[p] < nextGen + Cardinality(batch)
         /\ \A g \in nextGen .. nextGen + Cardinality(batch) - 1 :
              \E p \in batch : number[p] = g
         /\ \A p, q \in batch : number[p] = number[q] => p = q
<1>1. IsFiniteSet(batch)
  BY FS_Subset, EditCacheAssumption DEF EditCacheAssumption
<1>2. Cardinality(batch) \in Nat
  BY <1>1, FS_CardinalityType
<1>3. nextGen \in 1 .. MaxGen + 1 /\ MaxGen \in Nat
  BY EditCacheAssumption DEF EditCacheAssumption, TypeOK, CacheOK
<1> DEFINE new == nextGen .. nextGen + Cardinality(batch) - 1
<1>4. /\ number \in [batch -> new]
      /\ \A g \in new : \E p \in batch : number[p] = g
      /\ \A p, q \in batch : number[p] = number[q] => p = q
  BY DEF Numbering, Bijection, Injection, Surjection, IsInjective
<1>5. \A p \in batch : number[p] \in new
  BY <1>4
<1> QED
  BY <1>2, <1>3, <1>4, <1>5 DEF Gen

(* A step that changes the cache and the timer on behalf of a call.        *)
LEMMA CallOnly ==
  ASSUME TypeInv, call' \in [Call -> CallState], TodoOK', CacheOK',
         UNCHANGED <<remoteVars, timerVars, flushVars, prep, barrier, life, history>>
  PROVE  TypeInv'
<1>1. TaskOK'
  BY DEF TypeInv, TypeOK, TaskOK
<1>2. SpawnedOK'
  BY DEF TypeInv, SpawnedOK, timerVars, flushVars
<1> QED
  BY <1>1, <1>2, Untouched DEF TypeInv, TypeOK

LEMMA MutatedOK ==
  ASSUME TypeOK, NEW c \in Call, call[c] \in CallState,
         NEW want \in [DOMAIN call[c].plan -> Content], NEW bytes \in Payload,
         NEW number \in Numbering(DOMAIN call[c].plan),
         mutate_prepared_batch(c, want, bytes, number)
  PROVE  CacheOK' /\ TimerOK' /\ HistoryOK' /\ spawned' >= spawned
<1> DEFINE batch == DOMAIN call[c].plan
           new == SumFunction([p \in batch |-> Size[want[p]]])
           additional == Minus(new, SizeOf(batch))
           victims == Victims(additional, batch)
<1>0. /\ CacheOK /\ TimerOK /\ HistoryOK /\ nextGen \in 1 .. MaxGen + 1
      /\ batch \in SUBSET Path /\ \A p \in batch : call[c].plan[p] \in Seen
      /\ \A p \in batch : p \in Cached /\ p \in Path
  BY PlanDomain DEF TypeOK, CacheOK, CallState, mutate_prepared_batch, PlanCurrent
<1>1. /\ nextGen + Cardinality(batch) \in 1 .. MaxGen + 1
      /\ \A p \in batch : number[p] \in Gen /\ want[p] \in Content
  <2>1. nextGen + Cardinality(batch) =< MaxGen + 1
    BY DEF mutate_prepared_batch
  <2> QED
    BY <1>0, <2>1, NumberingOK
<1>2. /\ Threshold \in Nat /\ bytes \in Nat
  BY EditCacheAssumption DEF EditCacheAssumption
<1>3. /\ payload \in Nat /\ spawned \in Nat
      /\ timer \in {"off", "check", "wait", "sleep", "flush"}
      /\ firstDirty \in BOOLEAN /\ retry \in BOOLEAN
  BY <1>0 DEF TimerOK
<1> HIDE DEF additional
<1>4. CASE make_capacity(additional, batch)
  <2>1. /\ entry' = [q \in Cached \ victims |->
                       IF q \in batch
                       THEN [entry[q] EXCEPT !.desired = want[q],
                               !.gen = number[q], !.dirty = TRUE]
                       ELSE entry[q]]
        /\ older' = Touch(batch) \cup
                      {r \in batch \X batch : number[r[1]] < number[r[2]]}
        /\ nextGen' = nextGen + Cardinality(batch)
    BY <1>4 DEF mutate_prepared_batch, additional
  <2>2. /\ payload' = IF payload + bytes < Threshold THEN payload + bytes
                      ELSE Threshold
        /\ firstDirty' = TRUE /\ retry' = retry
        /\ timer' = IF timer = "off" THEN "check" ELSE Notified
        /\ spawned' = IF payload' >= Threshold THEN spawned + 1 ELSE spawned
    BY <1>4 DEF mutate_prepared_batch, additional
  <2>3. /\ applied' = applied
        /\ dropped' = dropped \cup
             {entry[p].gen : p \in {q \in batch : entry[q].dirty}}
        /\ root' = [p \in Path |-> IF p \in batch /\ ~entry[p].dirty
                                   THEN call[c].plan[p].text ELSE root[p]]
    BY <1>4 DEF mutate_prepared_batch, additional
  <2> HIDE DEF victims
  <2>4. older' \subseteq Path \X Path
    <3>1. Touch(batch) \subseteq Path \X Path
      BY <1>0, TouchOK
    <3>2. {r \in batch \X batch : number[r[1]] < number[r[2]]} \subseteq Path \X Path
      BY <1>0
    <3> QED
      BY <2>1, <3>1, <3>2
  <2>5. CacheOK'
    <3>1. Cached' = Cached \ victims
      BY <2>1 DEF Cached
    <3>2. ASSUME NEW q \in Cached \ victims PROVE entry'[q] \in Entry
      <4>1. entry[q] \in Entry
        BY <1>0 DEF CacheOK
      <4>2. CASE q \in batch
        <5>1. entry'[q] = [entry[q] EXCEPT !.desired = want[q],
                             !.gen = number[q], !.dirty = TRUE]
          BY <2>1, <4>2
        <5> QED
          BY <1>1, <4>1, <4>2, <5>1 DEF Entry
      <4>3. CASE q \notin batch
        BY <2>1, <4>1, <4>3
      <4> QED
        BY <4>2, <4>3
    <3>3. nextGen' \in 1 .. MaxGen + 1
      BY <1>1, <2>1
    <3> QED
      BY <1>0, <2>4, <3>1, <3>2, <3>3 DEF CacheOK
  <2>6. TimerOK' /\ spawned' >= spawned
    BY <1>0, <1>2, <1>3, <2>2, NotifiedOK DEF TimerOK
  <2>7. HistoryOK'
    BY <1>0, <2>3 DEF HistoryOK, CacheOK, Entry, Seen
  <2> QED
    BY <2>5, <2>6, <2>7
<1>5. CASE ~make_capacity(additional, batch)
  <2>1. /\ entry' = Without(victims)
        /\ UNCHANGED <<older, nextGen, payload, firstDirty, retry, timer, spawned,
                       applied, dropped, root>>
    BY <1>5 DEF mutate_prepared_batch, additional
  <2> HIDE DEF victims
  <2>2. CacheOK'
    BY <1>0, <2>1, WithoutOK DEF CacheOK, Cached
  <2> QED
    BY <1>0, <1>3, <2>1, <2>2 DEF TimerOK, HistoryOK
<1> QED
  BY <1>4, <1>5

LEMMA MutateSteps ==
  ASSUME TypeInv, NEW c \in Call,
         \/ EditRejected(c) \/ MutateTooLarge(c) \/ MutateStale(c)
         \/ \E want \in [DOMAIN call[c].plan -> Content], bytes \in Payload,
               number \in Numbering(DOMAIN call[c].plan) :
              mutate_prepared_batch(c, want, bytes, number)
  PROVE  TypeInv'
<1>0. call[c] \in CallState /\ CacheOK /\ older \subseteq Path \X Path
  BY DEF TypeInv, TypeOK, TaskOK, CacheOK
<1>1. CASE EditRejected(c) \/ MutateStale(c)
  <2>1. call' \in [Call -> CallState] /\ TodoOK'
    BY <1>1, ReturnOK DEF EditRejected, MutateStale
  <2> QED
    BY <1>0, <1>1, <2>1, QuietStepOK DEF EditRejected, MutateStale, cacheVars
<1>2. CASE MutateTooLarge(c)
  <2>1. call' \in [Call -> CallState] /\ TodoOK'
    BY <1>2, ToImmediateOK DEF MutateTooLarge
  <2> QED
    BY <1>0, <1>2, <2>1, QuietStepOK DEF MutateTooLarge, cacheVars
<1>3. ASSUME NEW want \in [DOMAIN call[c].plan -> Content], NEW bytes \in Payload,
             NEW number \in Numbering(DOMAIN call[c].plan),
             mutate_prepared_batch(c, want, bytes, number)
      PROVE  TypeInv'
  <2>1. CacheOK' /\ TimerOK' /\ HistoryOK' /\ spawned' >= spawned
    BY <1>0, <1>3, MutatedOK DEF TypeInv
  <2>2. Return(c) \/ ToImmediate(c)
    BY <1>3 DEF mutate_prepared_batch
  <2>3. call[c].pc = "mutate" /\ UNCHANGED <<remoteVars, flushVars, prep, barrier, life>>
    BY <1>3 DEF mutate_prepared_batch
  <2>4. call' \in [Call -> CallState] /\ TodoOK'
    BY <2>2, <2>3, ReturnOK, ToImmediateOK
  <2>5. TaskOK'
    BY <2>3, <2>4 DEF TypeInv, TypeOK, TaskOK
  <2>6. SpawnedOK'
    BY <2>1, <2>3 DEF TypeInv, TypeOK, TimerOK, SpawnedOK, flushVars
  <2> QED
    BY <2>1, <2>3, <2>4, <2>5, <2>6, Untouched DEF TypeInv, TypeOK
<1> QED
  BY <1>1, <1>2, <1>3

(* The immediate path. *)
LEMMA ImmediateSteps ==
  ASSUME TypeInv, NEW c \in Call,
         \/ ImmediateSnapshot(c)
         \/ \E text \in Content : ImmediateWrite(c, text) \/ ImmediateFails(c, text)
  PROVE  TypeInv'
<1> DEFINE p == First(call[c].todo)
<1>0. /\ call \in [Call -> CallState] /\ TodoOK /\ CacheOK /\ RemoteOK
      /\ call[c] \in CallState /\ older \subseteq Path \X Path
  BY DEF TypeInv, TypeOK, TaskOK, CacheOK
<1>1. p \in Path /\ p \in call[c].todo
  BY FirstTodo DEF ImmediateSnapshot, ImmediateWrite, ImmediateFails, Loading
<1>2. CASE ImmediateSnapshot(c)
  <2> DEFINE rest == call[c].todo \ {p}
             seen == [gen |-> 0, text |-> remote[p]]
             plan == [q \in DOMAIN call[c].plan \cup {p} |->
                        IF q = p THEN seen ELSE call[c].plan[q]]
             todo == IF rest = {} THEN DOMAIN plan ELSE rest
             pc == IF rest = {} THEN "iwrite" ELSE "isnap"
             s == [call[c] EXCEPT !.plan = plan, !.todo = todo, !.pc = pc]
  <2>1. seen \in Seen
    <3>1. remote[p] \in Content
      BY <1>0, <1>1 DEF RemoteOK
    <3>2. 0 \in Gen
      BY EditCacheAssumption DEF EditCacheAssumption, Gen
    <3> QED
      BY <3>1, <3>2 DEF Seen
  <2>2. plan \in Plan /\ DOMAIN plan # {}
    BY <1>0, <1>1, <2>1, PlanExtended DEF CallState
  <2>3. todo \in SUBSET Path /\ todo # {} /\ pc \in {"iwrite", "isnap"}
    BY <1>0, <2>2, PlanDomain DEF CallState
  <2>4. call' = [call EXCEPT ![c] = s]
    BY <1>0, <1>2 DEF ImmediateSnapshot
  <2> HIDE DEF rest, plan, todo, pc
  <2>5. s \in CallState /\ CallTodo(s)
    BY <1>0, <2>2, <2>3 DEF CallState, CallTodo, PC
  <2>6. call' \in [Call -> CallState] /\ TodoOK'
    BY <1>0, <2>4, <2>5, CallStepOK
  <2> QED
    BY <1>0, <1>2, <2>6, QuietStepOK DEF ImmediateSnapshot, cacheVars
<1>3. ASSUME NEW text \in Content, ImmediateWrite(c, text) PROVE TypeInv'
  <2>1. RemoteOK'
    BY <1>0, <1>1, <1>3 DEF ImmediateWrite, RemoteOK
  <2>2. CacheOK'
    BY <1>0, <1>3, InvalidateCleanOK DEF ImmediateWrite, CacheOK, cacheVars, Cached
  <2>3. call' \in [Call -> CallState] /\ TodoOK'
    <3>1. CASE Return(c)
      BY <3>1, ReturnOK
    <3>2. CASE call[c].todo # {p} /\ call' = [call EXCEPT ![c].todo = @ \ {p}]
      <4> DEFINE s == [call[c] EXCEPT !.todo = @ \ {p}]
      <4>1. s \in CallState /\ s.pc = "iwrite" /\ s.todo # {}
        BY <1>0, <1>1, <1>3, <3>2 DEF CallState, ImmediateWrite
      <4>2. call' = [call EXCEPT ![c] = s]
        BY <1>0, <3>2
      <4> QED
        BY <1>0, <4>1, <4>2, CallStepOK DEF CallTodo
    <3> QED
      BY <1>3, <3>1, <3>2 DEF ImmediateWrite
  <2>4. TaskOK' /\ SpawnedOK'
    BY <1>3, <2>3 DEF ImmediateWrite, TypeInv, TypeOK, TaskOK, SpawnedOK,
                      timerVars, flushVars
  <2> QED
    BY <1>3, <2>1, <2>2, <2>3, <2>4, Untouched DEF ImmediateWrite, TypeInv, TypeOK
<1>4. ASSUME NEW text \in Content, ImmediateFails(c, text) PROVE TypeInv'
  <2>1. RemoteOK'
    BY <1>0, <1>1, <1>4 DEF ImmediateFails, RemoteOK
  <2>2. call' \in [Call -> CallState] /\ TodoOK'
    BY <1>4, ReturnOK DEF ImmediateFails
  <2>3. TaskOK' /\ SpawnedOK'
    BY <1>4, <2>2 DEF ImmediateFails, TypeInv, TypeOK, TaskOK, SpawnedOK,
                      timerVars, flushVars
  <2> QED
    BY <1>4, <2>1, <2>2, <2>3, Untouched DEF ImmediateFails, TypeInv, TypeOK
<1> QED
  BY <1>2, <1>3, <1>4

(* Barriers, remote_sync_edits and remote_discard_edits. *)
LEMMA BarrierSteps ==
  ASSUME TypeInv, NEW c \in Call,
         \/ \E op \in {"observe", "run"} : BarrierCall(c, op)
         \/ flush_barrier(c) \/ BarrierLeave(c)
         \/ CommandEnds(c) \/ CommandFails(c)
         \/ \E p \in Path, text \in Content : CommandWrites(c, p, text)
  PROVE  TypeInv'
<1>0. /\ call \in [Call -> CallState] /\ TodoOK /\ CacheOK /\ RemoteOK /\ TaskOK
      /\ call[c] \in CallState /\ older \subseteq Path \X Path
  BY DEF TypeInv, TypeOK, TaskOK, CacheOK
<1>1. ASSUME NEW op \in {"observe", "run"}, BarrierCall(c, op) PROVE TypeInv'
  <2> DEFINE s == [IdleCall EXCEPT !.op = op, !.pc = "bwait", !.before = nextGen]
  <2>1. s \in CallState /\ CallTodo(s)
    <3>1. nextGen \in 0 .. MaxGen + 1
      BY <1>0, EditCacheAssumption DEF CacheOK, EditCacheAssumption
    <3> QED
      BY <3>1, IdleCallOK DEF CallState, CallTodo, Loading, PC, AllOps
  <2>2. call' = [call EXCEPT ![c] = s]
    BY <1>1 DEF BarrierCall
  <2>3. call' \in [Call -> CallState] /\ TodoOK'
    BY <1>0, <2>1, <2>2, CallStepOK
  <2> QED
    BY <1>0, <1>1, <2>3, QuietStepOK DEF BarrierCall, cacheVars
<1>2. CASE flush_barrier(c)
  <2>1. call' \in [Call -> CallState] /\ TodoOK'
    BY <1>2, GotoOK DEF flush_barrier, PC, Loading
  <2>2. TaskOK' /\ SpawnedOK'
    BY <1>0, <1>2, <2>1 DEF flush_barrier, TaskOK, TypeInv, SpawnedOK, timerVars,
                            flushVars
  <2> QED
    BY <1>2, <2>1, <2>2, Untouched DEF flush_barrier, TypeInv, TypeOK
<1>3. CASE BarrierLeave(c)
  <2>1. call' \in [Call -> CallState] /\ TodoOK'
    BY <1>3, ReturnOK DEF BarrierLeave
  <2>2. TaskOK' /\ SpawnedOK'
    BY <1>0, <1>3, <2>1 DEF BarrierLeave, TaskOK, TypeInv, SpawnedOK, timerVars,
                            flushVars
  <2> QED
    BY <1>3, <2>1, <2>2, Untouched DEF BarrierLeave, TypeInv, TypeOK
<1>4. CASE CommandEnds(c)
  <2>1. call' \in [Call -> CallState] /\ TodoOK'
    BY <1>4, ReturnOK DEF CommandEnds
  <2>2. CacheOK'
    BY <1>0, <1>4, InvalidateCleanOK DEF CommandEnds, CacheOK, cacheVars, Cached
  <2> QED
    BY <1>4, <2>1, <2>2, CallOnly DEF CommandEnds
<1>5. CASE CommandFails(c)
  <2>1. call' \in [Call -> CallState] /\ TodoOK'
    BY <1>5, ReturnOK DEF CommandFails
  <2> QED
    BY <1>0, <1>5, <2>1, QuietStepOK DEF CommandFails, cacheVars
<1>6. ASSUME NEW p \in Path, NEW text \in Content, CommandWrites(c, p, text)
      PROVE  TypeInv'
  <2>1. RemoteOK'
    BY <1>0, <1>6 DEF CommandWrites, RemoteOK
  <2>2. TodoOK' /\ SpawnedOK'
    BY <1>0, <1>6 DEF CommandWrites, TodoOK, TypeInv, SpawnedOK, taskVars,
                      timerVars, flushVars
  <2> QED
    BY <1>6, <2>1, <2>2, Untouched DEF CommandWrites, TypeInv, TypeOK
<1> QED
  BY <1>1, <1>2, <1>3, <1>4, <1>5, <1>6

LEMMA SyncAndDiscardSteps ==
  ASSUME TypeInv, NEW c \in Call,
         \/ SyncCall(c) \/ retry_outcome_unknown_host(c)
         \/ DiscardCall(c) \/ discard_host_edits(c)
  PROVE  TypeInv'
<1>0. /\ call \in [Call -> CallState] /\ TodoOK /\ CacheOK /\ TimerOK /\ TaskOK
      /\ HistoryOK /\ call[c] \in CallState /\ older \subseteq Path \X Path
  BY DEF TypeInv, TypeOK, TaskOK, CacheOK
<1>1. CASE SyncCall(c) \/ DiscardCall(c)
  <2> DEFINE s(op, pc) == [IdleCall EXCEPT !.op = op, !.pc = pc]
  <2>1. /\ s("sync", "swait") \in CallState /\ CallTodo(s("sync", "swait"))
        /\ s("discard", "dwait") \in CallState /\ CallTodo(s("discard", "dwait"))
    <3>1. /\ "sync" \in AllOps /\ "discard" \in AllOps /\ "swait" \in PC /\ "dwait" \in PC
          /\ "swait" \notin Loading /\ "dwait" \notin Loading
      BY DEF AllOps, PC, Loading
    <3>2. ASSUME NEW op \in AllOps, NEW pc \in PC
          PROVE  s(op, pc) \in CallState /\ s(op, pc).pc = pc
      BY IdleCallOK DEF CallState
    <3> HIDE DEF s
    <3> QED
      BY <3>1, <3>2 DEF CallTodo
  <2>2. \/ call' = [call EXCEPT ![c] = s("sync", "swait")]
        \/ call' = [call EXCEPT ![c] = s("discard", "dwait")]
    BY <1>1 DEF SyncCall, DiscardCall
  <2> HIDE DEF s
  <2>3. call' \in [Call -> CallState] /\ TodoOK'
    BY <1>0, <2>1, <2>2, CallStepOK
  <2> QED
    BY <1>0, <1>1, <2>3, QuietStepOK DEF SyncCall, DiscardCall, cacheVars
<1>2. CASE retry_outcome_unknown_host(c)
  <2>1. call' \in [Call -> CallState] /\ TodoOK'
    BY <1>2, GotoOK DEF retry_outcome_unknown_host, PC, Loading
  <2>2. CacheOK'
    <3>1. \A p \in Cached : [entry[p] EXCEPT !.conflict = "none", !.dirty = TRUE] \in Entry
      BY <1>0 DEF CacheOK, Entry
    <3>2. UNCHANGED <<older, nextGen>>
      BY <1>2 DEF retry_outcome_unknown_host
    <3>3. /\ Cached' = Cached
          /\ \A p \in Cached : entry'[p] \in {entry[p], [entry[p] EXCEPT !.conflict = "none",
                                                                       !.dirty = TRUE]}
      BY <1>2 DEF retry_outcome_unknown_host, Cached
    <3> QED
      BY <1>0, <3>1, <3>2, <3>3 DEF CacheOK
  <2>3. TaskOK' /\ SpawnedOK'
    BY <1>0, <1>2, <2>1 DEF retry_outcome_unknown_host, TaskOK, TypeInv, SpawnedOK,
                            timerVars, flushVars
  <2> QED
    BY <1>2, <2>1, <2>2, <2>3, Untouched
       DEF retry_outcome_unknown_host, TypeInv, TypeOK
<1>3. CASE discard_host_edits(c)
  <2>1. call' \in [Call -> CallState] /\ TodoOK'
    BY <1>3, ReturnOK DEF discard_host_edits
  <2>2. CASE UNCHANGED <<cacheVars, timerVars, history>>
    <3>1. CacheOK'
      BY <1>0, <2>2 DEF CacheOK, cacheVars, Cached
    <3> QED
      BY <1>3, <2>1, <2>2, <3>1, CallOnly DEF discard_host_edits
  <2>3. CASE Pending # {}
    <3>1. CacheOK'
      BY <1>0, <1>3, <2>3, WithoutOK DEF discard_host_edits, CacheOK, Cached
    <3>2. TimerOK'
      <4>1. /\ payload' = 0 /\ firstDirty' = FALSE /\ retry' = FALSE
            /\ timer' = Notified /\ spawned' = spawned
        BY <1>3, <2>3 DEF discard_host_edits
      <4>2. spawned \in Nat
        BY <1>0 DEF TimerOK
      <4> QED
        BY <1>0, <4>1, <4>2, NotifiedOK DEF TimerOK
    <3>3. HistoryOK'
      BY <1>0, <1>3, <2>3 DEF discard_host_edits, HistoryOK, CacheOK, Entry,
                              Pending
    <3>4. TaskOK' /\ SpawnedOK'
      BY <1>0, <1>3, <2>1, <2>3 DEF discard_host_edits, TaskOK, TypeInv, SpawnedOK,
                                    flushVars
    <3> QED
      BY <1>3, <2>1, <3>1, <3>2, <3>3, <3>4, Untouched
         DEF discard_host_edits, TypeInv, TypeOK
  <2> QED
    BY <1>3, <2>2, <2>3 DEF discard_host_edits
<1> QED
  BY <1>1, <1>2, <1>3

-----------------------------------------------------------------------------
(* The flush. *)
LEMMA ResumeOK ==
  ASSUME TypeInv, NEW o \in Flusher, NEW result \in {"clean", "more", "error"},
         NEW woken \in {"off", "check", "wait", "sleep", "flush"},
         Resume(o, result, woken), o = "spawned" => spawned > 0
  PROVE  /\ TaskOK' /\ TodoOK'
         /\ timer' \in {"off", "check", "wait", "sleep", "flush"}
         /\ spawned' \in Nat
<1>0. TaskOK /\ TodoOK /\ TimerOK
  BY DEF TypeInv, TypeOK
<1>1. timer' \in {"off", "check", "wait", "sleep", "flush"}
  BY DEF Resume
<1>2. spawned' \in Nat
  BY <1>0 DEF Resume, TimerOK
<1>3. ASSUME NEW s \in CallState, CallTodo(s)
      PROVE  CallAfterFlush(s, result) \in CallState
             /\ CallTodo(CallAfterFlush(s, result))
  BY <1>3, IdleCallOK DEF CallAfterFlush, CallState, CallTodo, PC, Loading
<1>4. call' = [c \in Call |-> IF c = o \/ (o = "barrier" /\ c = barrier)
                              THEN CallAfterFlush(call[c], result) ELSE call[c]]
  BY DEF Resume
<1>5. \A c \in Call : call[c] \in CallState /\ CallTodo(call[c])
  BY <1>0 DEF TaskOK, TodoOK
<1>6. \A c \in Call : call'[c] \in CallState /\ CallTodo(call'[c])
  BY <1>3, <1>4, <1>5
<1>7. call' \in [Call -> CallState] /\ TodoOK'
  BY <1>4, <1>6 DEF TodoOK
<1>8. /\ prep' \in {prep, None} /\ barrier' \in {barrier, "off"}
      /\ life' \in {life, "synced", "unsynced"}
  BY DEF Resume
<1> QED
  BY <1>0, <1>1, <1>2, <1>7, <1>8 DEF TaskOK

(* What an outcome makes of the entry of a committed item. *)
LEMMA SucceededOK ==
  ASSUME NEW e \in Entry, NEW item, item.desired \in Content
  PROVE  Succeeded(e, item) \in Entry
<1>1. 0 \in Gen
  BY EditCacheAssumption DEF Gen, EditCacheAssumption
<1> QED
  BY <1>1 DEF Entry, Succeeded

LEMMA FailedOK ==
  ASSUME NEW e \in Entry, NEW error \in ErrorKind \cup {"none"}
  PROVE  Failed(e, error) \in Entry
<1>1. 0 \in Gen
  BY EditCacheAssumption DEF Gen, EditCacheAssumption
<1> QED
  BY <1>1 DEF Entry, Failed

LEMMA SettleOK ==
  ASSUME TypeInv, NEW successes \in SUBSET DOMAIN items,
         NEW error \in ErrorKind \cup {"none"},
         flusher # None, Settle(successes, error), orphans' \subseteq OrphanItem
  PROVE  TypeInv'
<1> DEFINE result == IF error # "none" THEN "error"
                     ELSE IF host_dirty(entry') THEN "more" ELSE "clean"
<1>0. /\ CacheOK /\ RemoteOK /\ TimerOK /\ FlushOK /\ HistoryOK
      /\ flusher \in Flusher
      /\ flusher = "spawned" => spawned > 0
  BY DEF TypeInv, TypeOK, FlushOK, SpawnedOK
<1>1. Resume(flusher, result, Notified)
  BY DEF Settle
<1>2. result \in {"clean", "more", "error"}
  OBVIOUS
<1> HIDE DEF result
<1>3. /\ TaskOK' /\ TodoOK' /\ spawned' \in Nat
      /\ timer' \in {"off", "check", "wait", "sleep", "flush"}
  <2>1. Notified \in {"off", "check", "wait", "sleep", "flush"}
    BY <1>0, NotifiedOK
  <2> QED
    BY <1>0, <1>1, <1>2, <2>1, ResumeOK
<1>4. CacheOK'
  <2> DEFINE mine(p) == p \in DOMAIN items /\ entry[p].inFlight = items[p].gen
  <2>1. entry' = [p \in Cached |->
          IF mine(p) /\ p \in successes THEN Succeeded(entry[p], items[p])
          ELSE IF mine(p) THEN Failed(entry[p], error)
          ELSE entry[p]]
    BY DEF Settle
  <2>2. ASSUME NEW p \in Cached PROVE entry'[p] \in Entry
    <3>1. entry[p] \in Entry
      BY <1>0 DEF CacheOK
    <3>2. CASE mine(p) /\ p \in successes
      <4>1. items[p].desired \in Content
        BY <1>0, <3>2 DEF FlushOK, CommitItem
      <4>2. entry'[p] = Succeeded(entry[p], items[p])
        BY <2>1, <3>2
      <4> QED
        BY <3>1, <4>1, <4>2, SucceededOK
    <3>3. CASE mine(p) /\ p \notin successes
      <4>1. entry'[p] = Failed(entry[p], error)
        BY <2>1, <3>3
      <4> QED
        BY <3>1, <4>1, FailedOK
    <3>4. CASE ~mine(p)
      BY <2>1, <3>1, <3>4
    <3> QED
      BY <3>2, <3>3, <3>4
  <2>3. Cached' = Cached
    BY <2>1 DEF Cached
  <2>4. UNCHANGED <<older, nextGen>>
    BY DEF Settle
  <2> QED
    BY <1>0, <2>2, <2>3, <2>4 DEF CacheOK
<1>5. RemoteOK'
  BY <1>0 DEF Settle, RemoteOK
<1>6. TimerOK'
  <2>1. UNCHANGED <<payload, firstDirty>>
        /\ retry' = (error = "Transient" \/ (error # "none" /\ retry))
    BY DEF Settle
  <2> QED
    BY <1>0, <1>3, <2>1 DEF TimerOK
<1>7. FlushOK' /\ SpawnedOK'
  BY EditCacheAssumption
     DEF Settle, FlushOK, SpawnedOK, EmptyFunction, EditCacheAssumption, Background
<1>8. HistoryOK'
  <2>1. root' = [p \in Path |->
          IF /\ p \in Cached
             /\ p \in DOMAIN items /\ entry[p].inFlight = items[p].gen
             /\ p \in successes
          THEN items[p].desired ELSE root[p]]
    BY DEF Settle
  <2>2. \A p \in DOMAIN items : items[p].desired \in Content
    BY <1>0 DEF FlushOK, CommitItem
  <2>3. UNCHANGED <<applied, dropped>>
    BY DEF Settle
  <2> QED
    BY <1>0, <2>1, <2>2, <2>3 DEF HistoryOK
<1> QED
  BY <1>3, <1>4, <1>5, <1>6, <1>7, <1>8 DEF TypeInv, TypeOK

LEMMA FlushSteps ==
  ASSUME TypeInv,
         \/ \E o \in Flusher : FlushNothing(o) \/ FlushBegin(o)
         \/ FlushStep \/ FlushFault
  PROVE  TypeInv'
<1>0. /\ CacheOK /\ RemoteOK /\ TimerOK /\ FlushOK /\ HistoryOK /\ TaskOK
      /\ TodoOK /\ SpawnedOK
  BY DEF TypeInv, TypeOK
<1>1. ASSUME NEW o \in Flusher, FlushNothing(o) PROVE TypeInv'
  <2>1. PICK result \in {"clean", "more", "error"} : Resume(o, result, timer)
    BY <1>1 DEF FlushNothing
  <2>2. timer \in {"off", "check", "wait", "sleep", "flush"}
    BY <1>0 DEF TimerOK
  <2>3. o = "spawned" => spawned > 0
    BY <1>1, EditCacheAssumption DEF FlushNothing, WantsFlush, EditCacheAssumption,
                                     Background
  <2>4. /\ TaskOK' /\ TodoOK' /\ spawned' \in Nat
        /\ timer' \in {"off", "check", "wait", "sleep", "flush"}
    BY <2>1, <2>2, <2>3, ResumeOK
  <2>5. TimerOK'
    BY <1>0, <1>1, <2>4 DEF FlushNothing, TimerOK
  <2>6. SpawnedOK'
    BY <1>1, EditCacheAssumption DEF FlushNothing, SpawnedOK, flushVars,
                                     EditCacheAssumption, Background
  <2> QED
    BY <1>1, <2>4, <2>5, <2>6, Untouched DEF FlushNothing, TypeInv, TypeOK
<1>2. ASSUME NEW o \in Flusher, FlushBegin(o) PROVE TypeInv'
  <2>1. CacheOK'
    BY <1>0, <1>2 DEF FlushBegin, CacheOK, Cached, Entry
  <2>2. FlushOK'
    BY <1>0, <1>2 DEF FlushBegin, CacheOK, FlushOK, Flushable, Entry, CommitItem
  <2>3. TimerOK' /\ TodoOK'
    BY <1>0, <1>2 DEF FlushBegin, TimerOK, TodoOK, taskVars
  <2>4. SpawnedOK'
    BY <1>2, EditCacheAssumption DEF FlushBegin, WantsFlush, SpawnedOK,
                                     EditCacheAssumption, Background
  <2> QED
    BY <1>2, <2>1, <2>2, <2>3, <2>4, Untouched DEF FlushBegin, TypeInv, TypeOK
<1>3. CASE CommitItemStep
  <2>1. First(Waiting) \in Waiting /\ Waiting \subseteq DOMAIN items
    BY <1>0, <1>3, FirstIn DEF CommitItemStep, Waiting, FlushOK
  <2>2. RemoteOK' /\ FlushOK' /\ HistoryOK'
    BY <1>0, <1>3, <2>1 DEF CommitItemStep, RemoteOK, FlushOK, HistoryOK, CommitItem
  <2>3. TodoOK' /\ SpawnedOK'
    BY <1>0, <1>3 DEF CommitItemStep, TodoOK, SpawnedOK, taskVars, timerVars
  <2> QED
    BY <1>3, <2>2, <2>3, Untouched DEF CommitItemStep, TypeInv, TypeOK
<1>4. done \in SUBSET DOMAIN items /\ orphans \subseteq OrphanItem
  BY <1>0 DEF FlushOK, RemoteOK
<1>5. CASE FlushSucceeds
  BY <1>4, <1>5, SettleOK DEF FlushSucceeds
<1>6. CASE FlushConflicts
  BY <1>4, <1>6, SettleOK DEF FlushConflicts, ErrorKind
<1>7. ASSUME NEW error \in {"Transient", "Permanent"}, FlushFails(error)
      PROVE  TypeInv'
  BY <1>4, <1>7, SettleOK DEF FlushFails, ErrorKind
<1>8. ASSUME NEW confirmed \in SUBSET done, FlushUnknown(confirmed) PROVE TypeInv'
  <2>1. orphans' \subseteq OrphanItem
    BY <1>0, <1>4, <1>8 DEF FlushUnknown, OrphanItem, FlushOK, CommitItem, Waiting
  <2> QED
    BY <1>4, <1>8, <2>1, SettleOK DEF FlushUnknown, ErrorKind
<1> QED
  BY <1>1, <1>2, <1>3, <1>5, <1>6, <1>7, <1>8 DEF FlushStep, FlushFault

LEMMA TimerAndEnvironmentSteps ==
  ASSUME TypeInv,
         \/ TimerCheck \/ TimerFires \/ shutdown
         \/ \E c \in Call : AbortCall(c)
         \/ \E p \in Path, text \in Content : ForeignWrite(p, text)
         \/ \E i \in orphans : OrphanApplies(i)
         \/ OrphansEnd \/ CloseInput
  PROVE  TypeInv'
<1>0. /\ CacheOK /\ RemoteOK /\ TimerOK /\ FlushOK /\ HistoryOK /\ TaskOK
      /\ TodoOK /\ SpawnedOK
  BY DEF TypeInv, TypeOK
<1>1. CASE TimerCheck \/ TimerFires
  <2>1. TimerOK' /\ TodoOK' /\ SpawnedOK'
    BY <1>0, <1>1 DEF TimerCheck, TimerFires, TimerOK, TodoOK, SpawnedOK, taskVars,
                      flushVars
  <2> QED
    BY <1>1, <2>1, Untouched DEF TimerCheck, TimerFires, TypeInv, TypeOK
<1>2. CASE shutdown \/ CloseInput
  <2>1. TaskOK' /\ TodoOK' /\ SpawnedOK'
    BY <1>0, <1>2 DEF shutdown, CloseInput, TaskOK, TodoOK, SpawnedOK, timerVars,
                      flushVars
  <2> QED
    BY <1>2, <2>1, Untouched DEF shutdown, CloseInput, TypeInv, TypeOK
<1>3. ASSUME NEW c \in Call, AbortCall(c) PROVE TypeInv'
  <2>1. call' \in [Call -> CallState] /\ TodoOK'
    BY <1>3, ReturnOK DEF AbortCall
  <2>2. TaskOK'
    BY <1>0, <1>3, <2>1 DEF AbortCall, TaskOK
  <2>3. RemoteOK'
    BY <1>0, <1>3 DEF AbortCall, RemoteOK, OrphanItem, FlushOK, CommitItem, Waiting
  <2>4. FlushOK' /\ SpawnedOK'
    BY <1>0, <1>3, EditCacheAssumption
       DEF AbortCall, FlushOK, SpawnedOK, EmptyFunction, flushVars, timerVars,
           EditCacheAssumption, Background
  <2> QED
    BY <1>3, <2>1, <2>2, <2>3, <2>4, Untouched DEF AbortCall, TypeInv, TypeOK
<1>4. CASE \/ \E p \in Path, text \in Content : ForeignWrite(p, text)
           \/ \E i \in orphans : OrphanApplies(i)
           \/ OrphansEnd
  <2>1. RemoteOK'
    BY <1>0, <1>4 DEF ForeignWrite, OrphanApplies, OrphansEnd, RemoteOK, OrphanItem
  <2>2. HistoryOK'
    BY <1>0, <1>4 DEF ForeignWrite, OrphanApplies, OrphansEnd, RemoteOK, OrphanItem,
                      HistoryOK, history
  <2>3. TodoOK' /\ SpawnedOK'
    BY <1>0, <1>4 DEF ForeignWrite, OrphanApplies, OrphansEnd, TodoOK, SpawnedOK,
                      taskVars, timerVars, flushVars
  <2> QED
    BY <1>4, <2>1, <2>2, <2>3, Untouched
       DEF ForeignWrite, OrphanApplies, OrphansEnd, TypeInv, TypeOK
<1> QED
  BY <1>1, <1>2, <1>3, <1>4
-----------------------------------------------------------------------------
LEMMA InitTypeInv == Init => TypeInv
<1> SUFFICES ASSUME Init PROVE TypeInv
  OBVIOUS
<1>1. RemoteOK /\ TimerOK
  BY DEF Init, RemoteOK, TimerOK
<1>2. CacheOK /\ FlushOK
  BY EditCacheAssumption
     DEF Init, CacheOK, FlushOK, Cached, EmptyFunction, EditCacheAssumption
<1>3. TaskOK /\ TodoOK
  BY IdleCallOK DEF Init, TaskOK, TodoOK
<1>4. HistoryOK /\ SpawnedOK
  BY EditCacheAssumption
     DEF Init, HistoryOK, SpawnedOK, EditCacheAssumption, Background
<1> QED
  BY <1>1, <1>2, <1>3, <1>4 DEF TypeInv, TypeOK

LEMMA StepTypeInv == TypeInv /\ [Next]_vars => TypeInv'
<1> SUFFICES ASSUME TypeInv, [Next]_vars PROVE TypeInv'
  OBVIOUS
<1>1. ASSUME NEW c \in Call, CallStart(c) PROVE TypeInv'
  BY <1>1, ReadSteps, LoadSteps, BarrierSteps, SyncAndDiscardSteps DEF CallStart
<1>2. ASSUME NEW c \in Call, CallStep(c) PROVE TypeInv'
  BY <1>2, ReadSteps, LoadSteps, MutateSteps, ImmediateSteps, BarrierSteps,
     SyncAndDiscardSteps DEF CallStep
<1>3. ASSUME NEW c \in Call, CallFault(c) PROVE TypeInv'
  BY <1>3, LoadSteps, BarrierSteps, TimerAndEnvironmentSteps DEF CallFault
<1>4. CASE Environment
  BY <1>4, BarrierSteps, TimerAndEnvironmentSteps DEF Environment
<1>5. CASE UNCHANGED vars
  BY <1>5, Untouched DEF vars, TypeInv, TypeOK, TodoOK, SpawnedOK, taskVars,
                         timerVars, flushVars
<1> QED
  BY <1>1, <1>2, <1>3, <1>4, <1>5, FlushSteps, TimerAndEnvironmentSteps DEF Next

(* Every variable keeps a value of its kind, whatever the paths, contents, *)
(* budgets, calls and faults: the critical sections of edit_cache.rs and   *)
(* the tasks around them, in any interleaving.                             *)
THEOREM TypeCorrect == Spec => []TypeOK
<1>1. Spec => []TypeInv
  BY InitTypeInv, StepTypeInv, PTL DEF Spec
<1>2. TypeInv => TypeOK
  BY DEF TypeInv
<1> QED
  BY <1>1, <1>2, PTL

-----------------------------------------------------------------------------
(* Safety.  Every step is one of the few kinds below, as far as buffered   *)
(* edits are concerned; the invariants are then proved kind by kind.       *)

Keeps(p) == p \in Cached' /\ entry'[p] = entry[p]

Held(p) == entry[p].dirty \/ entry[p].inFlight # 0

(* Loads, evictions and invalidations, and every step that leaves the      *)
(* cache alone: what is dirty or in flight stays as it is.                 *)
CleanStep ==
  /\ \A p \in Cached : Held(p) => Keeps(p)
  /\ \A p \in Cached' :
       \/ p \in Cached /\ Keeps(p)
       \/ /\ p \notin Cached /\ ~Held(p)' /\ entry'[p].gen = 0 /\ entry'[p].conflict = "none"
          /\ entry'[p].base = entry'[p].desired
  /\ UNCHANGED <<nextGen, flusher, items, done, applied, dropped, root>>

(* An edit is accepted. *)
EditStep(c) ==
  LET batch == DOMAIN call[c].plan
  IN
  /\ call[c].pc = "mutate" /\ PlanCurrent(c) /\ Return(c)
  /\ \A p \in batch :
       /\ p \in Cached' /\ entry'[p].dirty
       /\ entry'[p].inFlight = entry[p].inFlight
       /\ entry'[p].conflict = entry[p].conflict
       /\ entry'[p].base = entry[p].base
       /\ entry'[p].gen \in nextGen .. nextGen' - 1
  /\ \A g \in nextGen .. nextGen' - 1 : \E p \in batch : entry'[p].gen = g
  /\ \A p \in Cached \ batch : Held(p) => Keeps(p)
  /\ \A p \in Cached' \ batch : p \in Cached /\ Keeps(p)
  /\ dropped' = dropped \cup {entry[p].gen : p \in {q \in batch : entry[q].dirty}}
  /\ root' = [p \in Path |-> IF p \in batch /\ ~entry[p].dirty
                             THEN call[c].plan[p].text ELSE root[p]]
  /\ nextGen' >= nextGen
  /\ UNCHANGED <<flusher, items, done, applied>>

DiscardStep ==
  /\ \E c \in Call : call[c].pc = "dwait"
  /\ ~host_dirty(entry')
  /\ \A p \in Cached : entry[p].dirty => entry[p].gen \in dropped' \/ Keeps(p)
  /\ \A p \in Cached' : p \in Cached /\ Keeps(p)
  /\ dropped \subseteq dropped'
  /\ UNCHANGED <<nextGen, flusher, items, done, applied, root>>

RetryStep ==
  /\ \E c \in Call : call[c].pc = "swait"
  /\ Cached' = Cached
  /\ \A p \in Cached : /\ entry[p].dirty => entry'[p].dirty
                       /\ entry'[p].gen = entry[p].gen
                       /\ entry'[p].desired = entry[p].desired
                       /\ entry'[p].inFlight = entry[p].inFlight
                       /\ entry'[p].base = entry[p].base
                       /\ entry'[p].conflict \in {entry[p].conflict, "none"}
                       /\ entry[p].conflict # "OutcomeUnknown" => entry'[p] = entry[p]
  /\ UNCHANGED <<nextGen, flusher, items, done, applied, dropped, root>>

(* A remote file receives a generation. *)
ApplyStep ==
  /\ applied \subseteq applied'
  /\ \A p \in done' \ done : items[p].gen \in applied'
  /\ UNCHANGED <<entry, nextGen, flusher, items, dropped, root>>

SettleStep ==
  /\ flusher # None
  /\ \E successes \in SUBSET done, error \in ErrorKind \cup {"none"} :
       Settle(successes, error) /\ (error = "OutcomeUnknown" => "unknown" \in Faults)
  /\ UNCHANGED nextGen

GiveUpStep ==
  /\ "abort" \in Faults
  /\ flusher' = None /\ items' = EmptyFunction /\ done' = {}
  /\ UNCHANGED <<entry, nextGen, applied, dropped, root>>

StepKind ==
  \/ CleanStep \/ DiscardStep \/ RetryStep \/ ApplyStep \/ SettleStep \/ GiveUpStep
  \/ \E c \in Call : EditStep(c)
  \/ \E o \in Flusher : FlushBegin(o)
-----------------------------------------------------------------------------
LEMMA StillIsClean ==
  ASSUME UNCHANGED <<entry, nextGen, flusher, items, done, applied, dropped, root>>
  PROVE  CleanStep
BY DEF CleanStep, Keeps, Cached

LEMMA WithoutIsClean ==
  ASSUME NEW S \in SUBSET Evictable({}), entry' = Without(S),
         UNCHANGED <<nextGen, flusher, items, done, applied, dropped, root>>
  PROVE  CleanStep
<1>1. Cached' = Cached \ S /\ \A p \in Cached \ S : entry'[p] = entry[p]
  BY DEF Cached, Without, Restrict
<1> QED
  BY <1>1 DEF CleanStep, Keeps, Held, Evictable

LEMMA VictimsClean ==
  ASSUME NEW n, NEW protected
  PROVE  /\ Victims(n, protected) \in SUBSET Evictable({})
         /\ Victims(n, protected) \cap protected = {}
BY DEF Victims, Evictable

LEMMA InsertIsClean ==
  ASSUME NEW p, NEW text, InsertClean(p, text),
         UNCHANGED <<nextGen, flusher, items, done, applied, dropped, root>>
  PROVE  CleanStep
<1> DEFINE victims == Victims(Size[text], {})
           clean == [base |-> text, desired |-> text, gen |-> 0, dirty |-> FALSE,
                     inFlight |-> 0, conflict |-> "none"]
<1>1. CASE UNCHANGED entry
  BY <1>1, StillIsClean
<1>2. CASE /\ p \notin Cached
           /\ entry' = [q \in (Cached \ victims) \cup {p} |->
                           IF q = p THEN clean ELSE entry[q]]
  <2>1. victims \in SUBSET Evictable({})
    BY VictimsClean
  <2> HIDE DEF victims
  <2>2. /\ Cached' = (Cached \ victims) \cup {p}
        /\ \A q \in Cached \ victims : entry'[q] = entry[q]
        /\ entry'[p].gen = 0 /\ ~entry'[p].dirty /\ entry'[p].inFlight = 0
        /\ entry'[p].conflict = "none" /\ entry'[p].base = entry'[p].desired
    BY <1>2 DEF Cached
  <2> QED
    BY <1>2, <2>1, <2>2 DEF CleanStep, Keeps, Held, Evictable
<1>3. CASE entry' = Without(victims)
  BY <1>3, VictimsClean, WithoutIsClean
<1> QED
  BY <1>1, <1>2, <1>3 DEF InsertClean

LEMMA MutateIsEdit ==
  ASSUME TypeInv, NEW c \in Call,
         NEW want \in [DOMAIN call[c].plan -> Content], NEW bytes \in Payload,
         NEW number \in Numbering(DOMAIN call[c].plan),
         mutate_prepared_batch(c, want, bytes, number)
  PROVE  CleanStep \/ EditStep(c)
<1> DEFINE batch == DOMAIN call[c].plan
           new == SumFunction([p \in batch |-> Size[want[p]]])
           additional == Minus(new, SizeOf(batch))
           victims == Victims(additional, batch)
<1>0. /\ batch \in SUBSET Path /\ batch \subseteq Cached
      /\ \A p \in Cached : entry[p] \in Entry
      /\ nextGen \in Nat
  <2>1. call[c] \in CallState /\ CacheOK
    BY DEF TypeInv, TypeOK, TaskOK
  <2>2. nextGen \in Nat
    BY <2>1, EditCacheAssumption DEF CacheOK, EditCacheAssumption
  <2> QED
    BY <2>1, <2>2, PlanDomain DEF CacheOK, CallState, mutate_prepared_batch, PlanCurrent
<1>1. /\ Cardinality(batch) \in Nat
      /\ \A p \in batch : number[p] \in nextGen .. nextGen + Cardinality(batch) - 1
      /\ \A g \in nextGen .. nextGen + Cardinality(batch) - 1 :
           \E p \in batch : number[p] = g
  <2>1. nextGen + Cardinality(batch) =< MaxGen + 1
    BY DEF mutate_prepared_batch
  <2>2. /\ Cardinality(batch) \in Nat
        /\ \A p \in batch : /\ number[p] \in Gen /\ number[p] >= nextGen
                            /\ number[p] < nextGen + Cardinality(batch)
        /\ \A g \in nextGen .. nextGen + Cardinality(batch) - 1 :
             \E p \in batch : number[p] = g
    BY <1>0, <2>1, NumberingOK DEF TypeInv
  <2>3. \A p \in batch : number[p] \in Nat
    BY <2>2, EditCacheAssumption DEF Gen, EditCacheAssumption
  <2> QED
    BY <1>0, <2>2, <2>3
<1>2. victims \in SUBSET Evictable({}) /\ victims \cap batch = {}
  BY VictimsClean
<1> HIDE DEF additional
<1>3. CASE make_capacity(additional, batch)
  <2>1. /\ entry' = [q \in Cached \ victims |->
                       IF q \in batch
                       THEN [entry[q] EXCEPT !.desired = want[q],
                               !.gen = number[q], !.dirty = TRUE]
                       ELSE entry[q]]
        /\ nextGen' = nextGen + Cardinality(batch)
        /\ dropped' = dropped \cup
             {entry[p].gen : p \in {q \in batch : entry[q].dirty}}
        /\ root' = [p \in Path |-> IF p \in batch /\ ~entry[p].dirty
                                   THEN call[c].plan[p].text ELSE root[p]]
        /\ Return(c)
    BY <1>3 DEF mutate_prepared_batch, additional
  <2>2. /\ call[c].pc = "mutate" /\ PlanCurrent(c)
        /\ UNCHANGED <<flusher, items, done, applied>>
    BY DEF mutate_prepared_batch, flushVars
  <2> HIDE DEF victims
  <2>3. Cached' = Cached \ victims
    BY <2>1 DEF Cached
  <2>4. ASSUME NEW p \in batch
        PROVE  /\ p \in Cached' /\ entry'[p].dirty /\ entry'[p].gen = number[p]
               /\ entry'[p].inFlight = entry[p].inFlight
               /\ entry'[p].conflict = entry[p].conflict
               /\ entry'[p].base = entry[p].base
    BY <1>0, <1>2, <2>1, <2>3 DEF Entry
  <2>5. \A p \in Cached' \ batch : p \in Cached /\ Keeps(p)
    BY <2>1, <2>3 DEF Keeps
  <2>6. \A p \in Cached \ batch : Held(p) => Keeps(p)
    BY <1>2, <2>1, <2>3 DEF Keeps, Held, Evictable
  <2>7. nextGen' >= nextGen /\ nextGen' - 1 = nextGen + Cardinality(batch) - 1
    <3>1. /\ nextGen \in Nat /\ Cardinality(batch) \in Nat
          /\ nextGen' = nextGen + Cardinality(batch)
      BY <1>0, <1>1, <2>1
    <3> QED
      BY <3>1
  <2>8. /\ \A p \in batch : entry'[p].gen \in nextGen .. nextGen' - 1
        /\ \A g \in nextGen .. nextGen' - 1 : \E p \in batch : entry'[p].gen = g
    <3>1. \A p \in batch : entry'[p].gen = number[p]
      BY <2>4
    <3> QED
      BY <1>1, <2>7, <3>1
  <2>9. \A p \in batch : /\ p \in Cached' /\ entry'[p].dirty
                         /\ entry'[p].inFlight = entry[p].inFlight
                         /\ entry'[p].conflict = entry[p].conflict
                         /\ entry'[p].base = entry[p].base
    BY <2>4
  <2>10. /\ Return(c)
         /\ dropped' = dropped \cup
              {entry[p].gen : p \in {q \in batch : entry[q].dirty}}
         /\ root' = [p \in Path |-> IF p \in batch /\ ~entry[p].dirty
                                    THEN call[c].plan[p].text ELSE root[p]]
    BY <2>1
  <2> QED
    BY <2>2, <2>5, <2>6, <2>7, <2>8, <2>9, <2>10, Zenon DEF EditStep
<1>4. CASE ~make_capacity(additional, batch)
  <2>1. /\ entry' = Without(victims)
        /\ UNCHANGED <<nextGen, flusher, items, done, applied, dropped, root>>
    BY <1>4 DEF mutate_prepared_batch, additional, flushVars
  <2> QED
    BY <1>2, <2>1, WithoutIsClean
<1> QED
  BY <1>3, <1>4

LEMMA CallStepKind ==
  ASSUME TypeInv, NEW c \in Call, CallStart(c) \/ CallStep(c)
  PROVE  StepKind
<1>1. CASE \/ \E p \in Path : ReadLookup(c, p)
           \/ \E batch \in SUBSET Path : EditCall(c, batch)
           \/ \E op \in {"observe", "run"} : BarrierCall(c, op)
           \/ SyncCall(c) \/ DiscardCall(c)
           \/ ReadRemote(c) \/ lookup_entry(c) \/ lookup_complete(c)
           \/ LoadLock(c) \/ fetch_complete(c)
  <2>1. UNCHANGED <<entry, nextGen, flusher, items, done, applied, dropped, root>>
    BY <1>1 DEF ReadLookup, EditCall, BarrierCall, SyncCall, DiscardCall, ReadRemote,
                lookup_entry, lookup_complete, LoadLock, fetch_complete, cacheVars,
                flushVars, history
  <2> QED
    BY <2>1, StillIsClean DEF StepKind
<1>2. CASE \/ EditRejected(c) \/ MutateTooLarge(c) \/ MutateStale(c)
           \/ ImmediateSnapshot(c) \/ flush_barrier(c)
           \/ \E text \in Content : ImmediateFails(c, text)
  <2>1. UNCHANGED <<entry, nextGen, flusher, items, done, applied, dropped, root>>
    BY <1>2 DEF EditRejected, MutateTooLarge, MutateStale, ImmediateSnapshot,
                flush_barrier, ImmediateFails, cacheVars, flushVars, history
  <2> QED
    BY <2>1, StillIsClean DEF StepKind
<1>3. CASE cache_clean_if_absent(c) \/ load_complete(c)
  <2>1. UNCHANGED <<nextGen, flusher, items, done, applied, dropped, root>>
    BY <1>3 DEF cache_clean_if_absent, load_complete, flushVars, history
  <2>2. UNCHANGED entry \/ \E p, text : InsertClean(p, text)
    BY <1>3 DEF cache_clean_if_absent, load_complete
  <2> QED
    BY <2>1, <2>2, StillIsClean, InsertIsClean DEF StepKind
<1>4. CASE \/ \E text \in Content : ImmediateWrite(c, text)
           \/ CommandEnds(c)
  <2>1. UNCHANGED <<nextGen, flusher, items, done, applied, dropped, root>>
    BY <1>4 DEF ImmediateWrite, CommandEnds, InvalidateClean, cacheVars, flushVars,
                history
  <2>2. UNCHANGED entry \/ entry' = Without(Evictable({}))
    BY <1>4 DEF ImmediateWrite, CommandEnds, InvalidateClean, cacheVars
  <2> QED
    BY <2>1, <2>2, StillIsClean, WithoutIsClean DEF StepKind
<1>5. ASSUME NEW want \in [DOMAIN call[c].plan -> Content], NEW bytes \in Payload,
             NEW number \in Numbering(DOMAIN call[c].plan),
             mutate_prepared_batch(c, want, bytes, number)
      PROVE  StepKind
  BY <1>5, MutateIsEdit DEF StepKind
<1>6. CASE retry_outcome_unknown_host(c)
  <2>1. entry' = [p \in Cached |->
                   IF entry[p].conflict = "OutcomeUnknown"
                   THEN [entry[p] EXCEPT !.conflict = "none", !.dirty = TRUE]
                   ELSE entry[p]]
    BY <1>6 DEF retry_outcome_unknown_host
  <2>2. \A p \in Cached : entry[p] \in Entry
    BY DEF TypeInv, TypeOK, CacheOK
  <2>3. Cached' = Cached
    BY <2>1 DEF Cached
  <2>4. \A p \in Cached : /\ entry[p].dirty => entry'[p].dirty
                          /\ entry'[p].gen = entry[p].gen
                          /\ entry'[p].desired = entry[p].desired
                          /\ entry'[p].inFlight = entry[p].inFlight
                          /\ entry'[p].base = entry[p].base
                          /\ entry'[p].conflict \in {entry[p].conflict, "none"}
                          /\ entry[p].conflict # "OutcomeUnknown" => entry'[p] = entry[p]
    BY <2>1, <2>2 DEF Entry
  <2>5. UNCHANGED <<nextGen, flusher, items, done, applied, dropped, root>>
    BY <1>6 DEF retry_outcome_unknown_host, flushVars, history
  <2>6. call[c].pc = "swait"
    BY <1>6 DEF retry_outcome_unknown_host
  <2> QED
    BY <2>3, <2>4, <2>5, <2>6 DEF StepKind, RetryStep
<1>7. CASE discard_host_edits(c)
  <2>1. CASE UNCHANGED <<cacheVars, timerVars, history>>
    BY <1>7, <2>1, StillIsClean DEF discard_host_edits, cacheVars, history, flushVars,
                                    StepKind
  <2>2. CASE Pending # {}
    <3>1. /\ entry' = Without(Pending)
          /\ dropped' = dropped \cup {entry[p].gen : p \in Pending}
          /\ UNCHANGED <<nextGen, flusher, items, done, applied, root>>
      BY <1>7, <2>2 DEF discard_host_edits, flushVars
    <3>2. Cached' = Cached \ Pending /\ \A p \in Cached \ Pending : entry'[p] = entry[p]
      BY <3>1 DEF Cached, Without, Restrict
    <3>3. \A p \in Cached : entry[p].dirty => p \in Pending
      BY DEF Pending
    <3>4. ~host_dirty(entry') /\ call[c].pc = "dwait"
      BY <1>7, <3>2, <3>3 DEF host_dirty, Cached, discard_host_edits
    <3> QED
      BY <3>1, <3>2, <3>3, <3>4 DEF DiscardStep, Keeps, StepKind
  <2> QED
    BY <1>7, <2>1, <2>2 DEF discard_host_edits
<1> QED
  BY <1>1, <1>2, <1>3, <1>4, <1>5, <1>6, <1>7 DEF CallStart, CallStep

LEMMA NextStepKind ==
  ASSUME TypeInv, [Next]_vars
  PROVE  StepKind
<1>1. ASSUME NEW c \in Call, CallFault(c) PROVE StepKind
  <2>1. CASE FetchFails(c) \/ BarrierLeave(c) \/ CommandFails(c)
    BY <2>1, StillIsClean DEF FetchFails, BarrierLeave, CommandFails, cacheVars,
                              flushVars, history, StepKind
  <2>2. CASE AbortCall(c)
    <3>1. CASE flusher = c
      BY <2>2, <3>1 DEF AbortCall, GiveUpStep, StepKind, cacheVars, history
    <3>2. CASE flusher # c
      BY <2>2, <3>2, StillIsClean DEF AbortCall, StepKind, cacheVars, history,
                                      flushVars
    <3> QED
      BY <3>1, <3>2
  <2> QED
    BY <1>1, <2>1, <2>2 DEF CallFault
<1>2. CASE TimerCheck \/ TimerFires \/ shutdown
  BY <1>2, StillIsClean DEF TimerCheck, TimerFires, shutdown, cacheVars, flushVars,
                            history, StepKind
<1>3. ASSUME NEW o \in Flusher, FlushNothing(o) PROVE StepKind
  BY <1>3, StillIsClean DEF FlushNothing, cacheVars, flushVars, history, StepKind
<1>4. CASE CommitItemStep
  BY <1>4 DEF CommitItemStep, ApplyStep, cacheVars, StepKind
<1>5. done \in SUBSET DOMAIN items
  BY DEF TypeInv, TypeOK, FlushOK
<1>6. CASE FlushSucceeds \/ FlushConflicts \/ FlushFault
  <2>1. flusher # None
    BY <1>6 DEF FlushSucceeds, FlushConflicts, FlushFault, FlushFails, FlushUnknown
  <2>2. PICK successes \in SUBSET done, error \in ErrorKind \cup {"none"} :
          Settle(successes, error) /\ (error = "OutcomeUnknown" => "unknown" \in Faults)
    BY <1>6 DEF FlushSucceeds, FlushConflicts, FlushFault, FlushFails, FlushUnknown,
                ErrorKind
  <2>3. UNCHANGED nextGen
    BY <2>2 DEF Settle
  <2> QED
    BY <2>1, <2>2, <2>3 DEF SettleStep, StepKind
<1>7. CASE Environment
  <2>1. CASE \E i \in orphans : OrphanApplies(i)
    BY <2>1 DEF OrphanApplies, ApplyStep, cacheVars, flushVars, StepKind
  <2>2. CASE \/ \E c \in Call, p \in Path, text \in Content : CommandWrites(c, p, text)
             \/ \E p \in Path, text \in Content : ForeignWrite(p, text)
             \/ OrphansEnd \/ CloseInput
    BY <2>2, StillIsClean DEF CommandWrites, ForeignWrite, OrphansEnd, CloseInput,
                              cacheVars, flushVars, history, StepKind
  <2> QED
    BY <1>7, <2>1, <2>2 DEF Environment
<1>8. CASE UNCHANGED vars
  BY <1>8, StillIsClean DEF vars, cacheVars, flushVars, history, StepKind
<1> QED
  BY <1>1, <1>2, <1>3, <1>4, <1>6, <1>7, <1>8, CallStepKind
     DEF Next, FlushStep, StepKind

-----------------------------------------------------------------------------
(* What the batch script has done has reached the remote files. *)
DoneApplied == \A p \in done : items[p].gen \in applied

LossInv == DoneApplied /\ NoSilentLoss

(* No generation is lost by a step that keeps each dirty entry dirty, or   *)
(* accounts for its generation.                                            *)
LEMMA NotLost ==
  ASSUME NoSilentLoss, nextGen' = nextGen,
         applied \subseteq applied', dropped \subseteq dropped',
         \A p \in Cached : entry[p].dirty =>
           \/ entry[p].gen \in applied' \cup dropped'
           \/ p \in Cached' /\ entry'[p].gen = entry[p].gen /\ entry'[p].dirty
  PROVE  NoSilentLoss'
BY DEF NoSilentLoss

(* What Settle makes of the entries. *)
LEMMA SettledEntries ==
  ASSUME TypeInv, NEW successes \in SUBSET done,
         NEW error \in ErrorKind \cup {"none"}, Settle(successes, error)
  PROVE  /\ Cached' = Cached
         /\ \A p \in Cached :
              LET mine == p \in DOMAIN items /\ entry[p].inFlight = items[p].gen
              IN  /\ entry'[p].gen = entry[p].gen
                  /\ entry'[p].desired = entry[p].desired
                  /\ mine => entry'[p].inFlight = 0
                  /\ ~mine => entry'[p] = entry[p]
                  /\ entry'[p].conflict \in {entry[p].conflict, error}
                  /\ entry'[p].dirty => entry[p].dirty
                  /\ entry[p].dirty => \/ entry'[p].dirty
                                       \/ /\ p \in successes
                                          /\ entry[p].gen = items[p].gen
<1> DEFINE mine(p) == p \in DOMAIN items /\ entry[p].inFlight = items[p].gen
<1>1. entry' = [p \in Cached |->
        IF mine(p) /\ p \in successes THEN Succeeded(entry[p], items[p])
        ELSE IF mine(p) THEN Failed(entry[p], error)
        ELSE entry[p]]
  BY DEF Settle
<1>2. Cached' = Cached
  BY <1>1 DEF Cached
<1>3. ASSUME NEW p \in Cached
      PROVE  /\ entry'[p].gen = entry[p].gen
             /\ entry'[p].desired = entry[p].desired
             /\ mine(p) => entry'[p].inFlight = 0
             /\ ~mine(p) => entry'[p] = entry[p]
             /\ entry'[p].conflict \in {entry[p].conflict, error}
             /\ entry'[p].dirty => entry[p].dirty
             /\ entry[p].dirty => \/ entry'[p].dirty
                                  \/ p \in successes /\ entry[p].gen = items[p].gen
  <2>1. entry[p] \in Entry
    BY DEF TypeInv, TypeOK, CacheOK
  <2>2. CASE mine(p) /\ p \in successes
    <3>1. entry'[p] = Succeeded(entry[p], items[p])
      BY <1>1, <2>2
    <3> QED
      BY <2>1, <2>2, <3>1 DEF Succeeded, Entry
  <2>3. CASE mine(p) /\ p \notin successes
    <3>1. entry'[p] = Failed(entry[p], error)
      BY <1>1, <2>3
    <3> QED
      BY <2>1, <2>3, <3>1 DEF Failed, Entry
  <2>4. CASE ~mine(p)
    BY <1>1, <2>4
  <2> QED
    BY <2>2, <2>3, <2>4
<1> QED
  BY <1>2, <1>3

LEMMA LossStep ==
  ASSUME TypeInv, LossInv, [Next]_vars
  PROVE  LossInv'
<1>1. CASE CleanStep
  <2>1. NoSilentLoss'
    BY <1>1, NotLost DEF LossInv, CleanStep, Held, Keeps
  <2> QED
    BY <1>1, <2>1 DEF LossInv, DoneApplied, CleanStep
<1>2. CASE DiscardStep
  <2>1. NoSilentLoss'
    BY <1>2, NotLost DEF LossInv, DiscardStep, Keeps
  <2> QED
    BY <1>2, <2>1 DEF LossInv, DoneApplied, DiscardStep
<1>3. CASE RetryStep
  <2>1. NoSilentLoss'
    BY <1>3, NotLost DEF LossInv, RetryStep
  <2> QED
    BY <1>3, <2>1 DEF LossInv, DoneApplied, RetryStep
<1>4. CASE ApplyStep
  <2>1. Cached' = Cached
    BY <1>4 DEF ApplyStep, Cached
  <2>2. NoSilentLoss'
    BY <1>4, <2>1, NotLost DEF LossInv, ApplyStep
  <2> QED
    BY <1>4, <2>2 DEF LossInv, DoneApplied, ApplyStep
<1>5. CASE SettleStep
  <2>1. PICK successes \in SUBSET done, error \in ErrorKind \cup {"none"} :
          Settle(successes, error)
    BY <1>5 DEF SettleStep
  <2>2. nextGen' = nextGen /\ done' = {} /\ UNCHANGED <<applied, dropped>>
    BY <2>1 DEF Settle
  <2>3. \A p \in Cached : entry[p].dirty =>
          \/ entry[p].gen \in applied' \cup dropped'
          \/ p \in Cached' /\ entry'[p].gen = entry[p].gen /\ entry'[p].dirty
    BY <2>1, <2>2, SettledEntries DEF LossInv, DoneApplied
  <2>4. NoSilentLoss'
    BY <2>2, <2>3, NotLost DEF LossInv
  <2> QED
    BY <2>2, <2>4 DEF LossInv, DoneApplied
<1>6. CASE GiveUpStep
  <2>1. Cached' = Cached
    BY <1>6 DEF GiveUpStep, Cached
  <2>2. NoSilentLoss'
    BY <1>6, <2>1, NotLost DEF LossInv, GiveUpStep
  <2> QED
    BY <1>6, <2>2 DEF LossInv, DoneApplied, GiveUpStep
<1>7. ASSUME NEW c \in Call, EditStep(c) PROVE LossInv'
  <2> DEFINE batch == DOMAIN call[c].plan
  <2>0. nextGen \in Nat /\ nextGen >= 1
    BY EditCacheAssumption DEF TypeInv, TypeOK, CacheOK, EditCacheAssumption
  <2>1. ASSUME NEW g \in 1 .. nextGen' - 1
        PROVE  \/ g \in (applied \cup dropped)'
               \/ \E p \in Cached' : entry'[p].gen = g /\ entry'[p].dirty
    <3>1. CASE g >= nextGen
      <4>1. PICK p \in batch : entry'[p].gen = g
        BY <1>7, <2>0, <3>1 DEF EditStep
      <4>2. p \in Cached' /\ entry'[p].dirty
        BY <1>7, <4>1 DEF EditStep
      <4> QED
        BY <4>1, <4>2
    <3>2. CASE g < nextGen
      <4>1. CASE g \in applied \cup dropped
        BY <1>7, <4>1 DEF EditStep
      <4>2. CASE \E p \in Cached : entry[p].gen = g /\ entry[p].dirty
        <5>1. PICK p \in Cached : entry[p].gen = g /\ entry[p].dirty
          BY <4>2
        <5>2. CASE p \in batch
          BY <1>7, <5>1, <5>2 DEF EditStep
        <5>3. CASE p \notin batch
          BY <1>7, <5>1, <5>3 DEF EditStep, Held, Keeps
        <5> QED
          BY <5>2, <5>3
      <4>3. g \in 1 .. nextGen - 1
        BY <2>0, <3>2
      <4> QED
        BY <4>1, <4>2, <4>3 DEF LossInv, NoSilentLoss
    <3> QED
      BY <2>0, <3>1, <3>2
  <2>2. NoSilentLoss'
    BY <2>1 DEF NoSilentLoss
  <2> QED
    BY <1>7, <2>2 DEF LossInv, DoneApplied, EditStep
<1>8. ASSUME NEW o \in Flusher, FlushBegin(o) PROVE LossInv'
  <2>1. /\ entry' = [p \in Cached |-> IF p \in Flushable
                       THEN [entry[p] EXCEPT !.inFlight = entry[p].gen] ELSE entry[p]]
        /\ nextGen' = nextGen /\ done' = {} /\ UNCHANGED <<applied, dropped>>
    BY <1>8 DEF FlushBegin, history
  <2>2. \A p \in Cached : entry[p] \in Entry
    BY DEF TypeInv, TypeOK, CacheOK
  <2>3. \A p \in Cached : /\ p \in Cached' /\ entry'[p].gen = entry[p].gen
                          /\ entry'[p].dirty = entry[p].dirty
    BY <2>1, <2>2 DEF Entry, Cached
  <2>4. NoSilentLoss'
    BY <2>1, <2>3, NotLost DEF LossInv
  <2> QED
    BY <2>1, <2>4 DEF LossInv, DoneApplied
<1> QED
  BY <1>1, <1>2, <1>3, <1>4, <1>5, <1>6, <1>7, <1>8, NextStepKind DEF StepKind

LEMMA InitLoss == Init => LossInv
BY DEF Init, LossInv, DoneApplied, NoSilentLoss

(* No accepted edit is ever lost silently: it is buffered and dirty, has   *)
(* reached the remote file, or was superseded or discarded on request,     *)
(* whatever batches fail, stay unknown or are aborted and whatever is      *)
(* evicted or invalidated (flush_once, make_capacity, mutate_prepared_     *)
(* batch, discard_host).                                                   *)
THEOREM NothingLost == Spec => []NoSilentLoss
<1>1. Spec => [](TypeInv /\ LossInv)
  BY InitTypeInv, StepTypeInv, InitLoss, LossStep, PTL DEF Spec
<1>2. LossInv => NoSilentLoss
  BY DEF LossInv
<1> QED
  BY <1>1, <1>2, PTL

-----------------------------------------------------------------------------
(* In-flight marks, when no call is aborted. *)
LEMMA InFlightStep ==
  ASSUME "abort" \notin Faults, TypeInv, InFlightOwned, [Next]_vars
  PROVE  InFlightOwned'
<1>1. CASE CleanStep
  BY <1>1 DEF CleanStep, InFlightOwned, Keeps, Held
<1>2. CASE DiscardStep
  BY <1>2 DEF DiscardStep, InFlightOwned, Keeps
<1>3. CASE RetryStep
  BY <1>3 DEF RetryStep, InFlightOwned
<1>4. CASE ApplyStep
  BY <1>4 DEF ApplyStep, InFlightOwned, Cached
<1>5. CASE SettleStep
  <2>1. PICK successes \in SUBSET done, error \in ErrorKind \cup {"none"} :
          Settle(successes, error)
    BY <1>5 DEF SettleStep
  <2>2. /\ Cached' = Cached
        /\ \A p \in Cached :
             LET mine == p \in DOMAIN items /\ entry[p].inFlight = items[p].gen
             IN  (mine => entry'[p].inFlight = 0) /\ (~mine => entry'[p] = entry[p])
    BY <2>1, SettledEntries
  <2>3. \A p \in Cached : entry'[p].inFlight = 0
    BY <2>2 DEF InFlightOwned
  <2> QED
    BY <2>2, <2>3 DEF InFlightOwned
<1>6. ASSUME NEW c \in Call, EditStep(c) PROVE InFlightOwned'
  <2> DEFINE batch == DOMAIN call[c].plan
  <2>1. \A p \in Cached' : p \in Cached /\ entry'[p].inFlight = entry[p].inFlight
    BY <1>6 DEF EditStep, Keeps, PlanCurrent
  <2>2. UNCHANGED <<flusher, items>>
    BY <1>6 DEF EditStep
  <2> QED
    BY <2>1, <2>2 DEF InFlightOwned
<1>7. ASSUME NEW o \in Flusher, FlushBegin(o) PROVE InFlightOwned'
  <2>1. /\ flusher = None /\ flusher' = o /\ o # None
        /\ items' = [p \in Flushable |-> [base |-> entry[p].base,
                       desired |-> entry[p].desired, gen |-> entry[p].gen]]
        /\ entry' = [p \in Cached |-> IF p \in Flushable
                       THEN [entry[p] EXCEPT !.inFlight = entry[p].gen] ELSE entry[p]]
    BY <1>7, EditCacheAssumption DEF FlushBegin, EditCacheAssumption, Flusher
  <2>2. Cached' = Cached /\ \A p \in Cached : entry[p] \in Entry
    BY <2>1 DEF Cached, TypeInv, TypeOK, CacheOK
  <2>3. ASSUME NEW p \in Cached, entry'[p].inFlight # 0
        PROVE  p \in DOMAIN items' /\ items'[p].gen = entry'[p].inFlight
    <3>1. p \in Flushable
      BY <2>1, <2>3 DEF InFlightOwned
    <3>2. entry'[p].inFlight = entry[p].gen
      BY <2>1, <2>2, <3>1 DEF Entry
    <3> QED
      BY <2>1, <3>1, <3>2
  <2> QED
    BY <2>1, <2>2, <2>3 DEF InFlightOwned
<1>8. CASE GiveUpStep
  BY <1>8 DEF GiveUpStep
<1> QED
  BY <1>1, <1>2, <1>3, <1>4, <1>5, <1>6, <1>7, <1>8, NextStepKind DEF StepKind

LEMMA InitInFlight == Init => InFlightOwned
BY DEF Init, InFlightOwned, Cached, EmptyFunction

(* Without aborted calls no in-flight mark outlives its batch, so every    *)
(* dirty path stays flushable (flush_once).                                *)
THEOREM InFlightAlwaysOwned ==
  ASSUME "abort" \notin Faults
  PROVE  Spec => []InFlightOwned
<1>1. TypeInv /\ InFlightOwned /\ [Next]_vars => InFlightOwned'
  BY InFlightStep
<1> QED
  BY <1>1, InitTypeInv, StepTypeInv, InitInFlight, PTL DEF Spec
-----------------------------------------------------------------------------
(* Barriers. *)
BeforeOK == \A c \in Call : call[c].before =< nextGen

BarrierInv == BeforeOK /\ BarrierSound

(* A flush of the host has ended with nothing left to send. *)
FlushedClean ==
  \/ ~host_conflict /\ Flushable = {} /\ flusher = None
     /\ UNCHANGED <<entry, nextGen, applied, dropped>>
  \/ ~host_dirty(entry')

(* How the steps move a call, as far as barriers and discards are          *)
(* concerned.                                                              *)
CallMove(s, t) ==
  /\ \/ t.before \in {0, nextGen} /\ t.pc # "command"
     \/ t.before = s.before /\ (t.pc = "command" => s.pc = "command" \/ FlushedClean)
  /\ t.pc = "dwait" => s.pc = "dwait" \/ "discard" \in Ops

LEMMA OneCallMoves ==
  ASSUME TypeInv, NEW c \in Call, NEW t, CallMove(call[c], t),
         call' = [call EXCEPT ![c] = t]
  PROVE  \A d \in Call : CallMove(call[d], call'[d])
<1>1. call \in [Call -> CallState]
  BY DEF TypeInv, TypeOK, TaskOK
<1>2. \A d \in Call \ {c} : call'[d] = call[d]
  BY <1>1
<1>3. call'[c] = t
  BY <1>1
<1> QED
  BY <1>2, <1>3 DEF CallMove

LEMMA CallStepMoves ==
  ASSUME TypeInv, NEW c \in Call, CallStart(c) \/ CallStep(c) \/ CallFault(c)
  PROVE  \A d \in Call : CallMove(call[d], call'[d])
<1>0. call \in [Call -> CallState] /\ call[c] \in CallState
  BY DEF TypeInv, TypeOK, TaskOK
<1>1. CASE Return(c) \/ UNCHANGED call
  BY <1>0, <1>1 DEF Return, CallMove, IdleCall
<1>2. ASSUME NEW pc \in PC \ {"command", "dwait"}, Goto(c, pc)
      PROVE  \A d \in Call : CallMove(call[d], call'[d])
  BY <1>0, <1>2 DEF Goto, CallMove, CallState
<1>3. ASSUME NEW pc \in PC \ {"command", "dwait"}, NEW todo, NEW plan,
             call' = [call EXCEPT ![c] = [@ EXCEPT !.pc = pc, !.todo = todo,
                                                   !.plan = plan]]
      PROVE  \A d \in Call : CallMove(call[d], call'[d])
  BY <1>0, <1>3 DEF CallMove, CallState
<1>31. CASE ToImmediate(c)
  <2>1. call' = [call EXCEPT ![c] = [@ EXCEPT !.pc = "iflush",
          !.todo = call[c].todo \cup DOMAIN call[c].plan, !.plan = EmptyFunction]]
    BY <1>0, <1>31 DEF ToImmediate
  <2> QED
    BY <1>3, <2>1 DEF PC
<1>32. ASSUME NEW p, Loaded(c, p)
       PROVE  \A d \in Call : CallMove(call[d], call'[d])
  <2> DEFINE rest == call[c].todo \ {p}
             pc == IF rest = {} THEN "mutate" ELSE "lookup"
             seen == [gen |-> entry[p].gen, text |-> entry[p].desired]
             plan == [q \in DOMAIN call[c].plan \cup {p} |->
                        IF q = p THEN seen ELSE call[c].plan[q]]
  <2>1. call' = [call EXCEPT ![c] = [@ EXCEPT !.pc = pc, !.todo = rest, !.plan = plan]]
    BY <1>0, <1>32 DEF Loaded
  <2>2. pc \in PC \ {"command", "dwait"}
    BY DEF PC
  <2> HIDE DEF rest, pc, plan
  <2> QED
    BY <1>3, <2>1, <2>2
<1>33. CASE ImmediateSnapshot(c)
  <2> DEFINE p == First(call[c].todo)
             rest == call[c].todo \ {p}
             plan == [q \in DOMAIN call[c].plan \cup {p} |->
                        IF q = p THEN [gen |-> 0, text |-> remote[p]]
                        ELSE call[c].plan[q]]
             todo == IF rest = {} THEN DOMAIN plan ELSE rest
             pc == IF rest = {} THEN "iwrite" ELSE "isnap"
  <2>1. call' = [call EXCEPT ![c] = [@ EXCEPT !.pc = pc, !.todo = todo, !.plan = plan]]
    BY <1>0, <1>33 DEF ImmediateSnapshot
  <2>2. pc \in PC \ {"command", "dwait"}
    BY DEF PC
  <2> HIDE DEF p, rest, pc, todo, plan
  <2> QED
    BY <1>3, <2>1, <2>2
<1>34. ASSUME NEW t, t.before = 0 \/ t.before = call[c].before, t.pc \notin {"command", "dwait"},
              call' = [call EXCEPT ![c] = t]
       PROVE  \A d \in Call : CallMove(call[d], call'[d])
  BY <1>34, OneCallMoves DEF CallMove
<1>4. CASE \/ \E p \in Path : ReadLookup(c, p)
           \/ \E batch \in SUBSET Path : EditCall(c, batch)
           \/ SyncCall(c) \/ DiscardCall(c)
  <2>1. ASSUME NEW p \in Path, ReadLookup(c, p)
        PROVE  \A d \in Call : CallMove(call[d], call'[d])
    <3> DEFINE t == [IdleCall EXCEPT !.pc = "rfetch", !.todo = {p}]
    <3>1. t.before = 0 /\ t.pc = "rfetch"
      BY DEF IdleCall
    <3>2. UNCHANGED call \/ call' = [call EXCEPT ![c] = t]
      BY <2>1 DEF ReadLookup
    <3> HIDE DEF t
    <3> QED
      BY <1>1, <1>34, <3>1, <3>2
  <2>2. ASSUME NEW batch \in SUBSET Path, EditCall(c, batch)
        PROVE  \A d \in Call : CallMove(call[d], call'[d])
    <3> DEFINE t == [IdleCall EXCEPT !.op = "edit", !.pc = "lookup", !.todo = batch]
    <3>1. t.before = 0 /\ t.pc = "lookup"
      BY DEF IdleCall
    <3>2. call' = [call EXCEPT ![c] = t]
      BY <2>2 DEF EditCall
    <3> HIDE DEF t
    <3> QED
      BY <1>34, <3>1, <3>2
  <2>3. CASE SyncCall(c)
    <3> DEFINE t == [IdleCall EXCEPT !.op = "sync", !.pc = "swait"]
    <3>1. t.before = 0 /\ t.pc = "swait"
      BY DEF IdleCall
    <3>2. call' = [call EXCEPT ![c] = t]
      BY <2>3 DEF SyncCall
    <3> HIDE DEF t
    <3> QED
      BY <1>34, <3>1, <3>2
  <2>4. CASE DiscardCall(c)
    <3> DEFINE t == [IdleCall EXCEPT !.op = "discard", !.pc = "dwait"]
    <3>1. t.before = 0 /\ t.pc = "dwait"
      BY DEF IdleCall
    <3>2. call' = [call EXCEPT ![c] = t] /\ "discard" \in Ops
      BY <2>4 DEF DiscardCall
    <3> HIDE DEF t
    <3>3. CallMove(call[c], t)
      BY <3>1, <3>2 DEF CallMove
    <3> QED
      BY <3>2, <3>3, OneCallMoves
  <2> QED
    BY <1>4, <2>1, <2>2, <2>3, <2>4
<1>5. ASSUME NEW op \in {"observe", "run"}, BarrierCall(c, op)
      PROVE  \A d \in Call : CallMove(call[d], call'[d])
  BY <1>0, <1>5, OneCallMoves DEF BarrierCall, CallMove, IdleCall
<1>6. CASE ReadRemote(c)
  <2> DEFINE t == [call[c] EXCEPT !.pc = "rinsert",
                                  !.snap = remote[First(call[c].todo)]]
  <2>1. t.before = call[c].before /\ t.pc = "rinsert"
    BY <1>0 DEF CallState
  <2>2. Return(c) \/ call' = [call EXCEPT ![c] = t]
    BY <1>0, <1>6 DEF ReadRemote, Return
  <2> HIDE DEF t
  <2> QED
    BY <1>1, <1>34, <2>1, <2>2
<1>7. CASE fetch_complete(c)
  <2> DEFINE t == [call[c] EXCEPT !.pc = "insert",
                                  !.snap = remote[First(call[c].todo)]]
  <2>1. t.before = call[c].before /\ t.pc = "insert"
    BY <1>0 DEF CallState
  <2>2. call' = [call EXCEPT ![c] = t]
    BY <1>0, <1>7 DEF fetch_complete
  <2> HIDE DEF t
  <2> QED
    BY <1>34, <2>1, <2>2
<1>8. ASSUME NEW text \in Content, ImmediateWrite(c, text)
      PROVE  \A d \in Call : CallMove(call[d], call'[d])
  <2> DEFINE t == [call[c] EXCEPT !.todo = @ \ {First(call[c].todo)}]
  <2>1. t.before = call[c].before /\ t.pc = "iwrite"
    BY <1>0, <1>8 DEF CallState, ImmediateWrite
  <2>2. Return(c) \/ call' = [call EXCEPT ![c] = t]
    BY <1>0, <1>8 DEF ImmediateWrite
  <2> HIDE DEF t
  <2> QED
    BY <1>1, <1>34, <2>1, <2>2
<1>9. CASE cache_clean_if_absent(c) \/ EditRejected(c) \/ MutateStale(c)
           \/ CommandEnds(c) \/ discard_host_edits(c) \/ CallFault(c)
           \/ \E text \in Content : ImmediateFails(c, text)
  BY <1>1, <1>9 DEF cache_clean_if_absent, EditRejected, MutateStale, CommandEnds,
     discard_host_edits, CallFault, FetchFails, BarrierLeave, CommandFails, AbortCall,
     ImmediateFails
<1>10. CASE lookup_entry(c) \/ lookup_complete(c) \/ LoadLock(c) \/ load_complete(c)
            \/ MutateTooLarge(c)
            \/ flush_barrier(c) \/ retry_outcome_unknown_host(c)
  BY <1>1, <1>2, <1>31, <1>32, <1>10 DEF lookup_entry, lookup_complete, LoadLock, load_complete,
     MutateTooLarge, flush_barrier, retry_outcome_unknown_host, PC
<1>11. ASSUME NEW want \in [DOMAIN call[c].plan -> Content], NEW bytes \in Payload,
              NEW number \in Numbering(DOMAIN call[c].plan),
              mutate_prepared_batch(c, want, bytes, number)
       PROVE  \A d \in Call : CallMove(call[d], call'[d])
  <2>1. Return(c) \/ ToImmediate(c)
    BY <1>11 DEF mutate_prepared_batch
  <2> QED
    BY <1>1, <1>31, <2>1
<1> QED
  BY <1>33, <1>4, <1>5, <1>6, <1>7, <1>8, <1>9, <1>10, <1>11 DEF CallStart, CallStep

(* What flush_once does to the calls that wait for it. *)
LEMMA ResumeMoves ==
  ASSUME TypeInv, NEW o, NEW result, NEW woken, Resume(o, result, woken),
         result = "clean" => FlushedClean
  PROVE  \A d \in Call : CallMove(call[d], call'[d])
<1>1. \A d \in Call : call'[d] = CallAfterFlush(call[d], result) \/ call'[d] = call[d]
  BY DEF Resume
<1>2. ASSUME NEW s \in CallState PROVE CallMove(s, CallAfterFlush(s, result))
  BY <1>2 DEF CallAfterFlush, CallMove, CallState, IdleCall
<1>3. \A d \in Call : call[d] \in CallState
  BY DEF TypeInv, TypeOK, TaskOK
<1>4. \A d \in Call : CallMove(call[d], call[d])
  BY DEF CallMove
<1> QED
  BY <1>1, <1>2, <1>3, <1>4, Zenon

LEMMA CallMoves ==
  ASSUME TypeInv, [Next]_vars
  PROVE  \A d \in Call : CallMove(call[d], call'[d])
<1>1. CASE UNCHANGED call
  BY <1>1 DEF CallMove
<1>2. ASSUME NEW o \in Flusher, FlushNothing(o)
      PROVE  \A d \in Call : CallMove(call[d], call'[d])
  <2> DEFINE result == IF host_conflict THEN "error" ELSE "clean"
  <2>1. Resume(o, result, timer)
    BY <1>2 DEF FlushNothing
  <2>2. result = "clean" => FlushedClean
    BY <1>2 DEF FlushNothing, FlushedClean, cacheVars, history
  <2> HIDE DEF result
  <2> QED
    BY <2>1, <2>2, ResumeMoves
<1>3. CASE FlushSucceeds \/ FlushConflicts \/ FlushFault
  <2>1. PICK successes, error : Settle(successes, error)
    BY <1>3 DEF FlushSucceeds, FlushConflicts, FlushFault, FlushFails, FlushUnknown
  <2> DEFINE result == IF error # "none" THEN "error"
                       ELSE IF host_dirty(entry') THEN "more" ELSE "clean"
  <2>2. Resume(flusher, result, Notified)
    BY <2>1 DEF Settle
  <2>3. result = "clean" => FlushedClean
    BY DEF FlushedClean
  <2> HIDE DEF result
  <2> QED
    BY <2>2, <2>3, ResumeMoves
<1>4. CASE \/ TimerCheck \/ TimerFires \/ shutdown \/ CommitItemStep \/ Environment
           \/ \E o \in Flusher : FlushBegin(o)
           \/ UNCHANGED vars
  BY <1>1, <1>4 DEF TimerCheck, TimerFires, shutdown, CommitItemStep, Environment,
     CommandWrites, ForeignWrite, OrphanApplies, OrphansEnd, CloseInput, FlushBegin,
     vars, taskVars
<1> QED
  BY <1>2, <1>3, <1>4, CallStepMoves DEF Next, FlushStep

LEMMA NextGenGrows ==
  ASSUME TypeInv, [Next]_vars
  PROVE  /\ nextGen \in Nat /\ nextGen' \in Nat /\ nextGen' >= nextGen
         /\ applied \cup dropped \subseteq (applied \cup dropped)'
<1>0. nextGen \in Nat
  BY EditCacheAssumption DEF TypeInv, TypeOK, CacheOK, EditCacheAssumption
<1>1. nextGen' \in Nat
  BY StepTypeInv, EditCacheAssumption DEF TypeInv, TypeOK, CacheOK, EditCacheAssumption
<1>2. CASE SettleStep
  BY <1>0, <1>2 DEF SettleStep, Settle
<1>3. CASE \E c \in Call : EditStep(c)
  BY <1>0, <1>1, <1>3 DEF EditStep
<1>4. CASE \E o \in Flusher : FlushBegin(o)
  BY <1>0, <1>4 DEF FlushBegin, history
<1>5. CASE CleanStep \/ DiscardStep \/ RetryStep \/ ApplyStep \/ GiveUpStep
  BY <1>0, <1>5 DEF CleanStep, DiscardStep, RetryStep, ApplyStep, GiveUpStep
<1> QED
  BY <1>0, <1>1, <1>2, <1>3, <1>4, <1>5, NextStepKind DEF StepKind

LEMMA BarrierStep ==
  ASSUME TypeInv, InFlightOwned, LossInv, LossInv', BarrierInv, [Next]_vars
  PROVE  BarrierInv'
<1>1. /\ \A d \in Call : call[d] \in CallState
      /\ \A d \in Call : call'[d] \in CallState
  BY StepTypeInv DEF TypeInv, TypeOK, TaskOK
<1>2. /\ nextGen \in Nat /\ nextGen' \in Nat /\ nextGen' >= nextGen
      /\ applied \cup dropped \subseteq (applied \cup dropped)'
  BY NextGenGrows
<1>3. \A d \in Call : CallMove(call[d], call'[d])
  BY CallMoves
<1>4. \A d \in Call : call[d].before \in Nat /\ call'[d].before \in Nat
  BY <1>1, EditCacheAssumption DEF CallState, EditCacheAssumption
<1>5. BeforeOK'
  <2>1. ASSUME NEW d \in Call PROVE call'[d].before =< nextGen'
    <3>1. call'[d].before \in {0, nextGen, call[d].before}
      BY <1>3 DEF CallMove
    <3>2. call[d].before =< nextGen
      BY DEF BarrierInv, BeforeOK
    <3> QED
      BY <1>2, <1>4, <3>1, <3>2
  <2> QED
    BY <2>1 DEF BeforeOK
<1>6. FlushedClean => \A g \in 1 .. nextGen' - 1 : g \in (applied \cup dropped)'
  <2>1. CASE ~host_dirty(entry')
    BY <2>1 DEF host_dirty, LossInv, NoSilentLoss, Cached
  <2>2. CASE /\ Flushable = {} /\ flusher = None
             /\ UNCHANGED <<entry, nextGen, applied, dropped>>
    <3>1. ~host_dirty(entry')
      BY <2>2 DEF Flushable, InFlightOwned, host_dirty, Cached
    <3> QED
      BY <2>1, <3>1
  <2> QED
    BY <2>1, <2>2 DEF FlushedClean
<1>7. ASSUME NEW d \in Call, call'[d].pc = "command",
             NEW g \in 1 .. call'[d].before - 1
      PROVE  g \in (applied \cup dropped)'
  <2>1. /\ call'[d].before = call[d].before
        /\ call[d].pc = "command" \/ FlushedClean
    BY <1>3, <1>7 DEF CallMove
  <2>2. CASE call[d].pc = "command"
    BY <1>2, <1>7, <2>1, <2>2 DEF BarrierInv, BarrierSound
  <2>3. CASE FlushedClean
    <3>1. call'[d].before =< nextGen'
      BY <1>5 DEF BeforeOK
    <3>2. call'[d].before \in Nat /\ nextGen' \in Nat
      BY <1>2, <1>4
    <3>3. g \in 1 .. nextGen' - 1
      BY <3>1, <3>2
    <3> QED
      BY <1>6, <2>3, <3>3
  <2> QED
    BY <2>1, <2>2, <2>3
<1> QED
  BY <1>5, <1>7 DEF BarrierInv, BarrierSound

LEMMA InitBarrier == Init => BarrierInv
BY DEF Init, BarrierInv, BeforeOK, BarrierSound, IdleCall

(* Without aborted calls, a command or observation that passed its barrier *)
(* runs on remote files that hold every edit accepted before the call      *)
(* began, unless it was superseded or discarded (flush_barrier).           *)
THEOREM BarrierHolds ==
  ASSUME "abort" \notin Faults
  PROVE  Spec => []BarrierSound
<1>1. TypeInv /\ InFlightOwned /\ [Next]_vars => InFlightOwned'
  BY InFlightStep
<1>2. Spec => [](TypeInv /\ InFlightOwned /\ LossInv)
  BY <1>1, InitTypeInv, StepTypeInv, InitInFlight, InitLoss, LossStep, PTL DEF Spec
<1>3. Spec => []BarrierInv
  BY <1>2, InitBarrier, BarrierStep, PTL DEF Spec
<1>4. BarrierInv => BarrierSound
  BY DEF BarrierInv
<1> QED
  BY <1>3, <1>4, PTL

-----------------------------------------------------------------------------
(* Concurrent editors: what the entries and the plans refer to. *)
GensOld ==
  /\ \A p \in Cached : entry[p].gen < nextGen
  /\ \A d \in Call : \A p \in DOMAIN call[d].plan : call[d].plan[p].gen < nextGen

PlanFresh ==
  \A d \in Call : \A p \in DOMAIN call[d].plan \cap Cached :
    entry[p].gen > 0 /\ entry[p].gen = call[d].plan[p].gen =>
      call[d].plan[p].text = entry[p].desired

PlanInv == GensOld /\ PlanFresh

(* An entry keeps its text as long as it keeps its generation. *)
LEMMA EntryMoves ==
  ASSUME TypeInv, [Next]_vars
  PROVE  \A p \in Cached' :
           \/ p \in Cached /\ entry'[p].gen = entry[p].gen
              /\ entry'[p].desired = entry[p].desired
           \/ p \notin Cached /\ entry'[p].gen = 0
           \/ /\ entry'[p].gen >= nextGen /\ entry'[p].gen < nextGen'
              /\ \E c \in Call : EditStep(c) /\ p \in DOMAIN call[c].plan
<1>1. CASE CleanStep
  BY <1>1 DEF CleanStep, Keeps
<1>2. CASE DiscardStep
  BY <1>2 DEF DiscardStep, Keeps
<1>3. CASE RetryStep
  BY <1>3 DEF RetryStep
<1>4. CASE ApplyStep \/ GiveUpStep
  BY <1>4 DEF ApplyStep, GiveUpStep, Cached
<1>5. CASE SettleStep
  BY <1>5, SettledEntries DEF SettleStep
<1>6. ASSUME NEW c \in Call, EditStep(c), NEW p \in Cached'
      PROVE  \/ p \in Cached /\ entry'[p].gen = entry[p].gen
                /\ entry'[p].desired = entry[p].desired
             \/ /\ entry'[p].gen >= nextGen /\ entry'[p].gen < nextGen'
                /\ p \in DOMAIN call[c].plan
  <2>1. nextGen \in Nat /\ nextGen' \in Nat
    BY NextGenGrows
  <2>2. CASE p \in DOMAIN call[c].plan
    <3>1. entry'[p].gen \in nextGen .. nextGen' - 1
      BY <1>6, <2>2 DEF EditStep
    <3> QED
      BY <2>1, <2>2, <3>1
  <2>3. CASE p \notin DOMAIN call[c].plan
    BY <1>6, <2>3 DEF EditStep, Keeps
  <2> QED
    BY <2>2, <2>3
<1>7. ASSUME NEW o \in Flusher, FlushBegin(o)
      PROVE  \A p \in Cached' : /\ p \in Cached /\ entry'[p].gen = entry[p].gen
                                /\ entry'[p].desired = entry[p].desired
  <2>1. entry' = [p \in Cached |-> IF p \in Flushable
                    THEN [entry[p] EXCEPT !.inFlight = entry[p].gen] ELSE entry[p]]
    BY <1>7 DEF FlushBegin
  <2>2. \A p \in Cached : entry[p] \in Entry
    BY DEF TypeInv, TypeOK, CacheOK
  <2> QED
    BY <2>1, <2>2 DEF Entry, Cached
<1> QED
  BY <1>1, <1>2, <1>3, <1>4, <1>5, <1>6, <1>7, NextStepKind DEF StepKind

(* How the plan of a call changes: it forgets, keeps, or reads the cache;  *)
(* the immediate path puts remote snapshots into it as generation 0.       *)
PlanMove(s, t) ==
  \A p \in DOMAIN t.plan :
    \/ p \in DOMAIN s.plan /\ t.plan[p] = s.plan[p]
    \/ t.plan[p].gen = 0
    \/ /\ p \in Cached /\ UNCHANGED <<entry, nextGen>>
       /\ t.plan[p].gen = entry[p].gen /\ t.plan[p].text = entry[p].desired

LEMMA CallStepPlans ==
  ASSUME TypeInv, NEW c \in Call, CallStart(c) \/ CallStep(c) \/ CallFault(c)
  PROVE  \A d \in Call : PlanMove(call[d], call'[d])
<1>0. call \in [Call -> CallState] /\ call[c] \in CallState
  BY DEF TypeInv, TypeOK, TaskOK
<1>1. ASSUME NEW t, PlanMove(call[c], t), call' = [call EXCEPT ![c] = t]
      PROVE  \A d \in Call : PlanMove(call[d], call'[d])
  <2>1. \A d \in Call \ {c} : call'[d] = call[d]
    BY <1>0, <1>1
  <2>2. call'[c] = t
    BY <1>0, <1>1
  <2> QED
    BY <1>1, <2>1, <2>2 DEF PlanMove
<1>2. CASE UNCHANGED call
  BY <1>2 DEF PlanMove
<1>3. ASSUME NEW t, t.plan = call[c].plan \/ t.plan = EmptyFunction,
             call' = [call EXCEPT ![c] = t]
      PROVE  \A d \in Call : PlanMove(call[d], call'[d])
  <2>1. PlanMove(call[c], t)
    BY <1>3 DEF PlanMove, EmptyFunction
  <2> QED
    BY <1>1, <1>3, <2>1
<1>4. CASE Return(c)
  BY <1>3, <1>4 DEF Return, IdleCall
<1>5. ASSUME NEW pc, Goto(c, pc)
      PROVE  \A d \in Call : PlanMove(call[d], call'[d])
  <2> DEFINE t == [call[c] EXCEPT !.pc = pc]
  <2>1. t.plan = call[c].plan
    BY <1>0 DEF CallState
  <2>2. call' = [call EXCEPT ![c] = t]
    BY <1>0, <1>5 DEF Goto
  <2> HIDE DEF t
  <2> QED
    BY <1>3, <2>1, <2>2
<1>6. CASE ToImmediate(c)
  <2> DEFINE t == [call[c] EXCEPT !.pc = "iflush",
                     !.todo = call[c].todo \cup DOMAIN call[c].plan,
                     !.plan = EmptyFunction]
  <2>1. t.plan = EmptyFunction
    BY <1>0 DEF CallState
  <2>2. call' = [call EXCEPT ![c] = t]
    BY <1>0, <1>6 DEF ToImmediate
  <2> HIDE DEF t
  <2> QED
    BY <1>3, <2>1, <2>2
<1>7. ASSUME NEW p \in Cached, Loaded(c, p), UNCHANGED <<entry, nextGen>>
      PROVE  \A d \in Call : PlanMove(call[d], call'[d])
  <2> DEFINE rest == call[c].todo \ {p}
             pc == IF rest = {} THEN "mutate" ELSE "lookup"
             seen == [gen |-> entry[p].gen, text |-> entry[p].desired]
             plan == [q \in DOMAIN call[c].plan \cup {p} |->
                        IF q = p THEN seen ELSE call[c].plan[q]]
             t == [call[c] EXCEPT !.todo = rest, !.plan = plan, !.pc = pc]
  <2>1. call' = [call EXCEPT ![c] = t]
    BY <1>0, <1>7 DEF Loaded
  <2>2. t.plan = plan
    BY <1>0 DEF CallState
  <2>3. PlanMove(call[c], t)
    BY <1>7, <2>2 DEF PlanMove
  <2> HIDE DEF t
  <2> QED
    BY <1>1, <2>1, <2>3
<1>8. CASE ImmediateSnapshot(c)
  <2> DEFINE p == First(call[c].todo)
             rest == call[c].todo \ {p}
             plan == [q \in DOMAIN call[c].plan \cup {p} |->
                        IF q = p THEN [gen |-> 0, text |-> remote[p]]
                        ELSE call[c].plan[q]]
             todo == IF rest = {} THEN DOMAIN plan ELSE rest
             pc == IF rest = {} THEN "iwrite" ELSE "isnap"
             t == [call[c] EXCEPT !.pc = pc, !.todo = todo, !.plan = plan]
  <2>1. call' = [call EXCEPT ![c] = t]
    BY <1>0, <1>8 DEF ImmediateSnapshot
  <2>2. t.plan = plan
    BY <1>0 DEF CallState
  <2>3. PlanMove(call[c], t)
    BY <2>2 DEF PlanMove
  <2> HIDE DEF t
  <2> QED
    BY <1>1, <2>1, <2>3
<1>9. ASSUME NEW t, t.plan = IdleCall.plan,
             UNCHANGED call \/ call' = [call EXCEPT ![c] = t]
      PROVE  \A d \in Call : PlanMove(call[d], call'[d])
  BY <1>2, <1>3, <1>9 DEF IdleCall
<1>10. CASE CallStart(c)
  <2>1. ASSUME NEW p \in Path, ReadLookup(c, p)
        PROVE  \A d \in Call : PlanMove(call[d], call'[d])
    <3> DEFINE t == [IdleCall EXCEPT !.pc = "rfetch", !.todo = {p}]
    <3>1. t.plan = IdleCall.plan
      BY DEF IdleCall
    <3>2. UNCHANGED call \/ call' = [call EXCEPT ![c] = t]
      BY <2>1 DEF ReadLookup
    <3> HIDE DEF t
    <3> QED
      BY <1>9, <3>1, <3>2
  <2>2. ASSUME NEW batch \in SUBSET Path, EditCall(c, batch)
        PROVE  \A d \in Call : PlanMove(call[d], call'[d])
    <3> DEFINE t == [IdleCall EXCEPT !.op = "edit", !.pc = "lookup", !.todo = batch]
    <3>1. t.plan = IdleCall.plan
      BY DEF IdleCall
    <3>2. UNCHANGED call \/ call' = [call EXCEPT ![c] = t]
      BY <2>2 DEF EditCall
    <3> HIDE DEF t
    <3> QED
      BY <1>9, <3>1, <3>2
  <2>3. ASSUME NEW op \in {"observe", "run"}, BarrierCall(c, op)
        PROVE  \A d \in Call : PlanMove(call[d], call'[d])
    <3> DEFINE t == [IdleCall EXCEPT !.op = op, !.pc = "bwait", !.before = nextGen]
    <3>1. t.plan = IdleCall.plan
      BY DEF IdleCall
    <3>2. UNCHANGED call \/ call' = [call EXCEPT ![c] = t]
      BY <2>3 DEF BarrierCall
    <3> HIDE DEF t
    <3> QED
      BY <1>9, <3>1, <3>2
  <2>4. CASE SyncCall(c) \/ DiscardCall(c)
    <3> DEFINE t(op, pc) == [IdleCall EXCEPT !.op = op, !.pc = pc]
    <3>1. \A op, pc : t(op, pc).plan = IdleCall.plan
      BY DEF IdleCall
    <3>2. \/ call' = [call EXCEPT ![c] = t("sync", "swait")]
          \/ call' = [call EXCEPT ![c] = t("discard", "dwait")]
      BY <2>4 DEF SyncCall, DiscardCall
    <3> HIDE DEF t
    <3> QED
      BY <1>9, <3>1, <3>2
  <2> QED
    BY <1>10, <2>1, <2>2, <2>3, <2>4 DEF CallStart
<1>11. CASE ReadRemote(c)
  <2> DEFINE t == [call[c] EXCEPT !.pc = "rinsert",
                                  !.snap = remote[First(call[c].todo)]]
  <2>1. t.plan = call[c].plan
    BY <1>0 DEF CallState
  <2>2. Return(c) \/ call' = [call EXCEPT ![c] = t]
    BY <1>0, <1>11 DEF ReadRemote, Return
  <2> HIDE DEF t
  <2> QED
    BY <1>3, <1>4, <2>1, <2>2
<1>12. CASE fetch_complete(c)
  <2> DEFINE t == [call[c] EXCEPT !.pc = "insert",
                                  !.snap = remote[First(call[c].todo)]]
  <2>1. t.plan = call[c].plan
    BY <1>0 DEF CallState
  <2>2. call' = [call EXCEPT ![c] = t]
    BY <1>0, <1>12 DEF fetch_complete
  <2> HIDE DEF t
  <2> QED
    BY <1>3, <2>1, <2>2
<1>13. ASSUME NEW text \in Content, ImmediateWrite(c, text)
       PROVE  \A d \in Call : PlanMove(call[d], call'[d])
  <2> DEFINE t == [call[c] EXCEPT !.todo = @ \ {First(call[c].todo)}]
  <2>1. t.plan = call[c].plan
    BY <1>0 DEF CallState
  <2>2. Return(c) \/ call' = [call EXCEPT ![c] = t]
    BY <1>0, <1>13 DEF ImmediateWrite
  <2> HIDE DEF t
  <2> QED
    BY <1>3, <1>4, <2>1, <2>2
<1>14. CASE \/ cache_clean_if_absent(c) \/ EditRejected(c) \/ MutateStale(c)
            \/ CommandEnds(c) \/ discard_host_edits(c) \/ CallFault(c)
            \/ \E text \in Content : ImmediateFails(c, text)
  BY <1>4, <1>14 DEF cache_clean_if_absent, EditRejected, MutateStale, CommandEnds,
     discard_host_edits, CallFault, FetchFails, BarrierLeave, CommandFails, AbortCall,
     ImmediateFails
<1>15. CASE lookup_entry(c)
  <2>1. UNCHANGED <<entry, nextGen>>
    BY <1>15 DEF lookup_entry
  <2>2. \/ Return(c) \/ Goto(c, "load") \/ ToImmediate(c)
        \/ \E p \in Cached : Loaded(c, p)
    BY <1>15 DEF lookup_entry
  <2> QED
    BY <1>4, <1>5, <1>6, <1>7, <2>1, <2>2
<1>16. CASE \/ lookup_complete(c) \/ LoadLock(c) \/ load_complete(c)
            \/ MutateTooLarge(c) \/ flush_barrier(c) \/ retry_outcome_unknown_host(c)
  BY <1>5, <1>6, <1>16 DEF lookup_complete, LoadLock, load_complete, MutateTooLarge,
     flush_barrier, retry_outcome_unknown_host
<1>17. ASSUME NEW want \in [DOMAIN call[c].plan -> Content], NEW bytes \in Payload,
              NEW number \in Numbering(DOMAIN call[c].plan),
              mutate_prepared_batch(c, want, bytes, number)
       PROVE  \A d \in Call : PlanMove(call[d], call'[d])
  <2>1. Return(c) \/ ToImmediate(c)
    BY <1>17 DEF mutate_prepared_batch
  <2> QED
    BY <1>4, <1>6, <2>1
<1> QED
  BY <1>8, <1>10, <1>11, <1>12, <1>13, <1>14, <1>15, <1>16, <1>17 DEF CallStep

LEMMA PlanMoves ==
  ASSUME TypeInv, [Next]_vars
  PROVE  \A d \in Call : PlanMove(call[d], call'[d])
<1>1. CASE UNCHANGED call
  BY <1>1 DEF PlanMove
<1>2. ASSUME NEW o, NEW result, NEW woken, Resume(o, result, woken)
      PROVE  \A d \in Call : PlanMove(call[d], call'[d])
  <2>1. \A d \in Call : call'[d] = CallAfterFlush(call[d], result) \/ call'[d] = call[d]
    BY <1>2 DEF Resume
  <2>2. ASSUME NEW s \in CallState PROVE PlanMove(s, CallAfterFlush(s, result))
    <3>1. CallAfterFlush(s, result).plan \in {s.plan, EmptyFunction}
      BY <2>2 DEF CallAfterFlush, CallState, IdleCall
    <3> QED
      BY <3>1 DEF PlanMove, EmptyFunction
  <2>3. \A d \in Call : call[d] \in CallState
    BY DEF TypeInv, TypeOK, TaskOK
  <2>4. \A d \in Call : PlanMove(call[d], call[d])
    BY DEF PlanMove
  <2> QED
    BY <2>1, <2>2, <2>3, <2>4, Zenon
<1>3. ASSUME NEW o \in Flusher, FlushNothing(o)
      PROVE  \A d \in Call : PlanMove(call[d], call'[d])
  BY <1>2, <1>3 DEF FlushNothing
<1>4. CASE FlushSucceeds \/ FlushConflicts \/ FlushFault
  <2>1. PICK successes, error : Settle(successes, error)
    BY <1>4 DEF FlushSucceeds, FlushConflicts, FlushFault, FlushFails, FlushUnknown
  <2> QED
    BY <1>2, <2>1 DEF Settle
<1>5. CASE \/ TimerCheck \/ TimerFires \/ shutdown \/ CommitItemStep \/ Environment
           \/ \E o \in Flusher : FlushBegin(o)
           \/ UNCHANGED vars
  BY <1>1, <1>5 DEF TimerCheck, TimerFires, shutdown, CommitItemStep, Environment,
     CommandWrites, ForeignWrite, OrphanApplies, OrphansEnd, CloseInput, FlushBegin,
     vars, taskVars
<1> QED
  BY <1>3, <1>4, <1>5, CallStepPlans DEF Next, FlushStep

LEMMA PlanStep ==
  ASSUME TypeInv, PlanInv, [Next]_vars
  PROVE  PlanInv'
<1>0. /\ nextGen \in Nat /\ nextGen' \in Nat /\ nextGen' >= nextGen /\ nextGen > 0
  BY NextGenGrows, EditCacheAssumption DEF TypeInv, TypeOK, CacheOK, EditCacheAssumption
<1>1. ASSUME NEW p \in Cached'
      PROVE  \/ p \in Cached /\ entry'[p].gen = entry[p].gen
                /\ entry'[p].desired = entry[p].desired
             \/ entry'[p].gen = 0
             \/ entry'[p].gen >= nextGen /\ entry'[p].gen < nextGen'
  BY EntryMoves
<1>2. ASSUME NEW d \in Call, NEW p \in DOMAIN call'[d].plan
      PROVE  \/ p \in DOMAIN call[d].plan /\ call'[d].plan[p] = call[d].plan[p]
             \/ call'[d].plan[p].gen = 0
             \/ /\ p \in Cached /\ UNCHANGED <<entry, nextGen>>
                /\ call'[d].plan[p].gen = entry[p].gen
                /\ call'[d].plan[p].text = entry[p].desired
  BY PlanMoves DEF PlanMove
<1>3. /\ \A p \in Cached : entry[p].gen \in Nat /\ entry[p].gen < nextGen
      /\ \A p \in Cached' : entry'[p].gen \in Nat
  BY StepTypeInv, EditCacheAssumption
     DEF PlanInv, GensOld, TypeInv, TypeOK, CacheOK, Entry, Gen, EditCacheAssumption
<1>4. /\ \A d \in Call : \A p \in DOMAIN call[d].plan :
           call[d].plan[p].gen \in Nat /\ call[d].plan[p].gen < nextGen
      /\ \A d \in Call : \A p \in DOMAIN call'[d].plan : call'[d].plan[p].gen \in Nat
  <2>1. ASSUME NEW plan \in Plan PROVE \A p \in DOMAIN plan : plan[p].gen \in Nat
    BY <2>1, PlanDomain, EditCacheAssumption DEF Seen, Gen, EditCacheAssumption
  <2>2. \A d \in Call : call[d].plan \in Plan /\ call'[d].plan \in Plan
    BY StepTypeInv DEF TypeInv, TypeOK, TaskOK, CallState
  <2> QED
    BY <2>1, <2>2 DEF PlanInv, GensOld
<1>5. ASSUME NEW p \in Cached' PROVE entry'[p].gen < nextGen'
  BY <1>0, <1>1, <1>3, <1>5
<1>6. ASSUME NEW d \in Call, NEW p \in DOMAIN call'[d].plan
      PROVE  call'[d].plan[p].gen < nextGen'
  <2>1. CASE p \in DOMAIN call[d].plan /\ call'[d].plan[p] = call[d].plan[p]
    <3>1. call[d].plan[p].gen < nextGen /\ call[d].plan[p].gen \in Nat
      BY <1>4, <2>1
    <3>2. call'[d].plan[p].gen = call[d].plan[p].gen
      BY <2>1
    <3> QED
      BY <1>0, <3>1, <3>2
  <2>2. CASE call'[d].plan[p].gen = 0
    BY <1>0, <2>2
  <2>3. CASE p \in Cached /\ call'[d].plan[p].gen = entry[p].gen
    BY <1>0, <1>3, <2>3
  <2> QED
    BY <1>2, <2>1, <2>2, <2>3
<1>7. ASSUME NEW d \in Call, NEW p \in DOMAIN call'[d].plan, p \in Cached',
             entry'[p].gen > 0, entry'[p].gen = call'[d].plan[p].gen
      PROVE  call'[d].plan[p].text = entry'[p].desired
  <2>1. CASE p \in DOMAIN call[d].plan /\ call'[d].plan[p] = call[d].plan[p]
    <3>1. entry'[p].gen < nextGen
      BY <1>4, <1>7, <2>1
    <3>2. p \in Cached /\ entry'[p].gen = entry[p].gen
          /\ entry'[p].desired = entry[p].desired
      BY <1>0, <1>1, <1>3, <1>7, <3>1
    <3>3. entry[p].gen > 0 /\ entry[p].gen = call[d].plan[p].gen
      BY <1>7, <2>1, <3>2
    <3>4. call[d].plan[p].text = entry[p].desired
      BY <2>1, <3>2, <3>3 DEF PlanInv, PlanFresh
    <3> QED
      BY <2>1, <3>2, <3>4
  <2>2. CASE /\ p \in Cached /\ UNCHANGED <<entry, nextGen>>
             /\ call'[d].plan[p].text = entry[p].desired
    BY <2>2
  <2>3. CASE call'[d].plan[p].gen = 0
    BY <1>3, <1>7, <2>3
  <2> QED
    BY <1>2, <2>1, <2>2, <2>3
<1>8. GensOld'
  BY <1>5, <1>6 DEF GensOld
<1>9. PlanFresh'
  BY <1>7 DEF PlanFresh
<1> QED
  BY <1>8, <1>9 DEF PlanInv

LEMMA InitPlan == Init => PlanInv
BY DEF Init, PlanInv, GensOld, PlanFresh, IdleCall, EmptyFunction, Cached

(* An edit replaces a buffered or committed generation only on behalf of a *)
(* call that read exactly the text it replaces: concurrent editors of one  *)
(* path fail instead of overwriting each other (mutate_prepared_batch).    *)
THEOREM EditorsNeverOverwrite == Spec => NoLostBufferedEdit
<1>1. ASSUME TypeInv, PlanInv, [Next]_vars,
             NEW p \in Cached \cap DOMAIN entry',
             entry[p].gen > 0, entry'[p].gen # entry[p].gen
      PROVE  \E c \in Call : /\ call[c].pc = "mutate" /\ call'[c].pc = "idle"
                             /\ p \in DOMAIN call[c].plan
                             /\ call[c].plan[p].text = entry[p].desired
  <2>1. PICK c \in Call : EditStep(c) /\ p \in DOMAIN call[c].plan
    BY <1>1, EntryMoves DEF Cached
  <2>2. /\ call[c].pc = "mutate" /\ Return(c)
        /\ entry[p].gen = call[c].plan[p].gen
    BY <2>1 DEF EditStep, PlanCurrent
  <2>3. call'[c].pc = "idle"
    BY <1>1, <2>2 DEF Return, IdleCall, TypeInv, TypeOK, TaskOK
  <2> QED
    BY <1>1, <2>1, <2>2, <2>3 DEF PlanInv, PlanFresh
<1>2. TypeInv /\ PlanInv /\ [Next]_vars =>
        [\A p \in Cached \cap DOMAIN entry' :
           entry[p].gen > 0 /\ entry'[p].gen # entry[p].gen =>
             \E c \in Call : /\ call[c].pc = "mutate" /\ call'[c].pc = "idle"
                             /\ p \in DOMAIN call[c].plan
                             /\ call[c].plan[p].text = entry[p].desired]_vars
  BY <1>1
<1>3. Spec => [](TypeInv /\ PlanInv)
  BY InitTypeInv, StepTypeInv, InitPlan, PlanStep, PTL DEF Spec
<1> QED
  BY <1>2, <1>3, PTL DEF Spec, NoLostBufferedEdit
-----------------------------------------------------------------------------
(* The end of the server. *)
Over == life \notin {"up", "closing"}

ShutdownInv ==
  /\ Over => \A c \in Call : call[c].pc = "idle"
  /\ flusher = "shutdown" => life = "flush"
  /\ ShutdownSound

(* No call takes a step once the shutdown flush has begun. *)
LEMMA NoCallSteps ==
  ASSUME Over, NEW c \in Call, call[c].pc = "idle"
  PROVE  ~(CallStart(c) \/ CallStep(c) \/ CallFault(c))
<1>1. ~CallStart(c)
  BY DEF Over, CallStart, ReadLookup, EditCall, BarrierCall, SyncCall, DiscardCall
<1>2. ~CallFault(c)
  BY DEF CallFault, FetchFails, BarrierLeave, CommandFails, AbortCall
<1>3. ASSUME NEW want, NEW bytes, NEW number,
             mutate_prepared_batch(c, want, bytes, number)
      PROVE  FALSE
  BY <1>3 DEF mutate_prepared_batch
<1>4. ~CallStep(c)
  BY <1>3 DEF CallStep, ReadRemote, cache_clean_if_absent, lookup_entry,
     lookup_complete, LoadLock, fetch_complete, load_complete, EditRejected,
     MutateTooLarge, MutateStale, ImmediateSnapshot, ImmediateWrite,
     ImmediateFails, flush_barrier, CommandEnds, retry_outcome_unknown_host,
     discard_host_edits
<1> QED
  BY <1>1, <1>2, <1>4

(* What a flush makes of the calls and the server. *)
LEMMA FlushEnds ==
  ASSUME TypeInv, NEW o, NEW result, NEW woken, Resume(o, result, woken),
         \A c \in Call : call[c].pc = "idle"
  PROVE  \A c \in Call : call'[c].pc = "idle"
BY DEF Resume, CallAfterFlush, IdleCall

LEMMA ServerMoves ==
  ASSUME TypeInv, [Next]_vars
  PROVE  \/ life' = life
         \/ life = "up" /\ life' = "closing" /\ UNCHANGED flusher
         \/ /\ life' = "flush" /\ UNCHANGED <<call, flusher>>
            /\ \A c \in Call : call[c].pc = "idle"
         \/ /\ life = "flush" \/ flusher = "shutdown"
            /\ flusher' = None /\ life' \in {"synced", "unsynced"}
            /\ life' = "synced" => FlushedClean
<1>1. ASSUME NEW c \in Call, CallStart(c) \/ CallFault(c) PROVE life' = life
  BY <1>1 DEF CallStart, ReadLookup, EditCall, BarrierCall, SyncCall, DiscardCall,
              CallFault, FetchFails, BarrierLeave, CommandFails, AbortCall
<1>2. ASSUME NEW c \in Call, CallStep(c) PROVE life' = life
  <2>1. ASSUME NEW want \in [DOMAIN call[c].plan -> Content], NEW bytes \in Payload,
               NEW number \in Numbering(DOMAIN call[c].plan),
               mutate_prepared_batch(c, want, bytes, number)
        PROVE  life' = life
    BY <2>1 DEF mutate_prepared_batch
  <2> QED
    BY <1>2, <2>1 DEF CallStep, ReadRemote, cache_clean_if_absent, lookup_entry,
       lookup_complete, LoadLock, fetch_complete, load_complete, EditRejected,
       MutateTooLarge, MutateStale, ImmediateSnapshot, ImmediateWrite,
       ImmediateFails, flush_barrier, CommandEnds, retry_outcome_unknown_host,
       discard_host_edits
<1>3. ASSUME NEW o \in Flusher, FlushNothing(o)
      PROVE  \/ life' = life
             \/ /\ life = "flush" /\ flusher' = None
                /\ life' \in {"synced", "unsynced"}
                /\ life' = "synced" => FlushedClean
  <2>1. /\ Resume(o, IF host_conflict THEN "error" ELSE "clean", timer)
        /\ flusher = None /\ UNCHANGED flusher
    BY <1>3 DEF FlushNothing, flushVars
  <2>2. ~host_conflict => FlushedClean
    BY <1>3 DEF FlushNothing, FlushedClean, cacheVars, history
  <2>3. o = "shutdown" => life = "flush"
    BY <1>3, EditCacheAssumption
       DEF FlushNothing, WantsFlush, EditCacheAssumption, Background
  <2> QED
    BY <2>1, <2>2, <2>3 DEF Resume
<1>4. CASE FlushSucceeds \/ FlushConflicts \/ FlushFault
  <2>1. PICK successes, error : Settle(successes, error)
    BY <1>4 DEF FlushSucceeds, FlushConflicts, FlushFault, FlushFails, FlushUnknown
  <2>2. /\ Resume(flusher, IF error # "none" THEN "error"
                           ELSE IF host_dirty(entry') THEN "more" ELSE "clean",
                  Notified)
        /\ flusher' = None
    BY <2>1 DEF Settle
  <2> QED
    BY <2>2 DEF Resume, FlushedClean
<1>5. CASE \/ TimerCheck \/ TimerFires \/ CommitItemStep
           \/ \E o \in Flusher : FlushBegin(o)
           \/ UNCHANGED vars
  BY <1>5 DEF TimerCheck, TimerFires, CommitItemStep, FlushBegin, vars, taskVars
<1>6. CASE shutdown
  BY <1>6 DEF shutdown, flushVars
<1>7. CASE Environment
  BY <1>7 DEF Environment, CommandWrites, ForeignWrite, OrphanApplies, OrphansEnd,
              CloseInput, taskVars, flushVars
<1> QED
  BY <1>1, <1>2, <1>3, <1>4, <1>5, <1>6, <1>7 DEF Next, FlushStep

(* Who holds the flush lock. *)
LEMMA FlusherMoves ==
  ASSUME TypeInv, [Next]_vars, flusher' = "shutdown", flusher # "shutdown"
  PROVE  life = "flush" /\ life' = life
<1>0. None # "shutdown"
  BY EditCacheAssumption DEF EditCacheAssumption, Background
<1>1. ASSUME NEW c \in Call, CallStart(c) \/ CallStep(c) \/ CallFault(c)
      PROVE  FALSE
  <2>1. UNCHANGED flusher \/ flusher' = None
    <3>1. ASSUME NEW want \in [DOMAIN call[c].plan -> Content], NEW bytes \in Payload,
                 NEW number \in Numbering(DOMAIN call[c].plan),
                 mutate_prepared_batch(c, want, bytes, number)
          PROVE  UNCHANGED flusher
      BY <3>1 DEF mutate_prepared_batch, flushVars
    <3>2. CASE CallStep(c)
      BY <3>1, <3>2 DEF CallStep, ReadRemote, cache_clean_if_absent, lookup_entry,
         lookup_complete, LoadLock, fetch_complete, load_complete, EditRejected,
         MutateTooLarge, MutateStale, ImmediateSnapshot, ImmediateWrite,
         ImmediateFails, flush_barrier, CommandEnds, retry_outcome_unknown_host,
         discard_host_edits, flushVars
    <3>3. CASE CallStart(c) \/ CallFault(c)
      BY <3>3 DEF CallStart, ReadLookup, EditCall, BarrierCall, SyncCall, DiscardCall,
         CallFault, FetchFails, BarrierLeave, CommandFails, AbortCall, flushVars
    <3> QED
      BY <1>1, <3>2, <3>3
  <2> QED
    BY <1>0, <2>1
<1>2. CASE FlushSucceeds \/ FlushConflicts \/ FlushFault
  <2>1. flusher' = None
    BY <1>2 DEF FlushSucceeds, FlushConflicts, FlushFault, FlushFails, FlushUnknown,
                Settle
  <2> QED
    BY <1>0, <2>1
<1>3. ASSUME NEW o \in Flusher, FlushNothing(o) \/ FlushBegin(o)
      PROVE  life = "flush" /\ life' = life
  <2>1. FlushBegin(o) /\ o = "shutdown"
    BY <1>3 DEF FlushNothing, FlushBegin, flushVars
  <2> QED
    BY <2>1, EditCacheAssumption
       DEF FlushBegin, WantsFlush, EditCacheAssumption, Background, taskVars
<1>4. CASE \/ TimerCheck \/ TimerFires \/ CommitItemStep \/ shutdown \/ Environment
           \/ UNCHANGED vars
  BY <1>4 DEF TimerCheck, TimerFires, CommitItemStep, shutdown, Environment,
     CommandWrites, ForeignWrite, OrphanApplies, OrphansEnd, CloseInput, vars,
     flushVars
<1> QED
  BY <1>1, <1>2, <1>3, <1>4 DEF Next, FlushStep

(* Nothing becomes dirty without a call. *)
LEMMA StaysClean ==
  ASSUME TypeInv, [Next]_vars, ~host_dirty(entry),
         \A c \in Call : call[c].pc = "idle"
  PROVE  ~host_dirty(entry')
<1>1. CASE CleanStep
  BY <1>1 DEF CleanStep, Keeps, Held, host_dirty, Cached
<1>2. CASE DiscardStep \/ RetryStep \/ \E c \in Call : EditStep(c)
  BY <1>2 DEF DiscardStep, RetryStep, EditStep
<1>3. CASE ApplyStep \/ GiveUpStep
  BY <1>3 DEF ApplyStep, GiveUpStep, host_dirty
<1>4. CASE SettleStep
  BY <1>4, SettledEntries DEF SettleStep, host_dirty, Cached
<1>5. ASSUME NEW o \in Flusher, FlushBegin(o) PROVE ~host_dirty(entry')
  BY <1>5 DEF FlushBegin, Flushable, host_dirty, Cached
<1> QED
  BY <1>1, <1>2, <1>3, <1>4, <1>5, NextStepKind DEF StepKind

LEMMA ShutdownStep ==
  ASSUME TypeInv, InFlightOwned, ShutdownInv, [Next]_vars
  PROVE  ShutdownInv'
<1>1. Over' => \A c \in Call : call'[c].pc = "idle"
  <2>1. CASE Over
    <3>1. \A c \in Call : /\ call[c].pc = "idle"
                          /\ ~(CallStart(c) \/ CallStep(c) \/ CallFault(c))
      BY <2>1, NoCallSteps DEF ShutdownInv
    <3>2. CASE UNCHANGED call
      BY <3>1, <3>2
    <3>3. ASSUME NEW o, NEW result, NEW woken, Resume(o, result, woken)
          PROVE  \A c \in Call : call'[c].pc = "idle"
      BY <3>1, <3>3, FlushEnds
    <3>4. CASE \E o \in Flusher : FlushNothing(o)
      BY <3>3, <3>4 DEF FlushNothing
    <3>5. CASE FlushSucceeds \/ FlushConflicts \/ FlushFault
      BY <3>3, <3>5 DEF FlushSucceeds, FlushConflicts, FlushFault, FlushFails,
                        FlushUnknown, Settle
    <3>6. CASE \/ TimerCheck \/ TimerFires \/ shutdown \/ CommitItemStep
               \/ Environment \/ UNCHANGED vars
               \/ \E o \in Flusher : FlushBegin(o)
      BY <3>2, <3>6 DEF TimerCheck, TimerFires, shutdown, CommitItemStep, Environment,
         CommandWrites, ForeignWrite, OrphanApplies, OrphansEnd, CloseInput,
         FlushBegin, vars, taskVars
    <3> QED
      BY <3>1, <3>4, <3>5, <3>6 DEF Next, FlushStep
  <2>2. CASE ~Over
    BY <2>2, ServerMoves DEF Over, ShutdownInv
  <2> QED
    BY <2>1, <2>2
<1>2. flusher' = "shutdown" => life' = "flush"
  <2>0. None # "shutdown"
    BY EditCacheAssumption DEF EditCacheAssumption, Background
  <2> QED
    BY <2>0, ServerMoves, FlusherMoves DEF ShutdownInv
<1>3. ASSUME life' = "synced" PROVE ~host_dirty(entry')
  <2>1. CASE life = "synced"
    BY <2>1, StaysClean DEF ShutdownInv, ShutdownSound, Over
  <2>2. CASE FlushedClean
    <3>1. CASE Flushable = {} /\ flusher = None /\ UNCHANGED entry
      BY <3>1 DEF Flushable, InFlightOwned, host_dirty, Cached
    <3> QED
      BY <2>2, <3>1 DEF FlushedClean
  <2> QED
    BY <1>3, <2>1, <2>2, ServerMoves
<1> QED
  BY <1>1, <1>2, <1>3 DEF ShutdownInv, ShutdownSound

LEMMA InitShutdown == Init => ShutdownInv
BY EditCacheAssumption
   DEF Init, ShutdownInv, ShutdownSound, Over, EditCacheAssumption, Background

(* Without aborted calls, a shutdown that reports success leaves nothing   *)
(* buffered, whichever other flushes are under way when it starts          *)
(* (EditCache::shutdown, flush_host).                                      *)
THEOREM ShutdownIsSound ==
  ASSUME "abort" \notin Faults
  PROVE  Spec => []ShutdownSound
<1>1. TypeInv /\ InFlightOwned /\ [Next]_vars => InFlightOwned'
  BY InFlightStep
<1>2. Spec => [](TypeInv /\ InFlightOwned)
  BY <1>1, InitTypeInv, StepTypeInv, InitInFlight, PTL DEF Spec
<1>3. Spec => []ShutdownInv
  BY <1>2, InitShutdown, ShutdownStep, PTL DEF Spec
<1>4. ShutdownInv => ShutdownSound
  BY DEF ShutdownInv
<1> QED
  BY <1>3, <1>4, PTL

-----------------------------------------------------------------------------
(* Refinement.  A step that changes a remote file is a write; of the       *)
(* others, each kind above is one step of EditedFiles, or changes nothing  *)
(* that a client can see.                                                  *)

\* What the cache promises whoever else writes the remote files.
SharedFiles == INSTANCE EditedFiles
  WITH text <- Text, buffered <- Dirty, Others <- TRUE,
       GivesUp <- "discard" \in Ops

\* Only a discard call discards.
DiscardAsked == \A c \in Call : call[c].pc = "dwait" => "discard" \in Ops

\* What a client sees of a path that is buffered, and of one that is not.
LEMMA TextOf ==
  /\ \A p \in Path : /\ p \in Dirty => Text[p] = entry[p].desired
                     /\ p \notin Dirty => Text[p] = remote[p]
  /\ \A p \in Path : /\ p \in Dirty' => Text'[p] = entry'[p].desired
                     /\ p \notin Dirty' => Text'[p] = remote'[p]
BY DEF Text

LEMMA TextType ==
  ASSUME TypeInv, TypeInv'
  PROVE  /\ Text \in [Path -> Content] /\ Dirty \subseteq Path
         /\ Text' \in [Path -> Content] /\ Dirty' \subseteq Path
<1>1. /\ remote \in [Path -> Content] /\ Cached \subseteq Path
      /\ \A p \in Cached : entry[p].desired \in Content
  BY DEF TypeInv, TypeOK, RemoteOK, CacheOK, Entry
<1>2. /\ remote' \in [Path -> Content] /\ Cached' \subseteq Path
      /\ \A p \in Cached' : entry'[p].desired \in Content
  BY DEF TypeInv, TypeOK, RemoteOK, CacheOK, Entry
<1> QED
  BY <1>1, <1>2 DEF Text, Dirty

\* The steps that change a remote file leave the buffered texts alone.
RemoteChange ==
  /\ \E p \in Path, text \in Content : remote' = [remote EXCEPT ![p] = text]
  /\ UNCHANGED entry \/ entry' = Without(Evictable({}))

LEMMA RemoteChanges ==
  ASSUME TypeInv, [Next]_vars
  PROVE  UNCHANGED remote \/ RemoteChange
<1>1. ASSUME NEW c \in Call, CallStart(c) \/ CallStep(c)
      PROVE  UNCHANGED remote \/ RemoteChange
  <2>1. CASE \/ CallStart(c)
             \/ ReadRemote(c) \/ cache_clean_if_absent(c)
             \/ lookup_entry(c) \/ lookup_complete(c) \/ LoadLock(c)
             \/ fetch_complete(c) \/ load_complete(c)
             \/ EditRejected(c) \/ MutateTooLarge(c) \/ MutateStale(c)
             \/ ImmediateSnapshot(c) \/ flush_barrier(c) \/ CommandEnds(c)
             \/ retry_outcome_unknown_host(c) \/ discard_host_edits(c)
    BY <2>1 DEF CallStart, ReadLookup, EditCall, BarrierCall, SyncCall, DiscardCall,
       ReadRemote, cache_clean_if_absent, lookup_entry, lookup_complete, LoadLock,
       fetch_complete, load_complete, EditRejected, MutateTooLarge, MutateStale,
       ImmediateSnapshot, flush_barrier, CommandEnds, retry_outcome_unknown_host,
       discard_host_edits, remoteVars
  <2>2. ASSUME NEW want \in [DOMAIN call[c].plan -> Content], NEW bytes \in Payload,
               NEW number \in Numbering(DOMAIN call[c].plan),
               mutate_prepared_batch(c, want, bytes, number)
        PROVE  UNCHANGED remote
    BY <2>2 DEF mutate_prepared_batch, remoteVars
  <2>3. ASSUME NEW text \in Content, ImmediateWrite(c, text) \/ ImmediateFails(c, text)
        PROVE  UNCHANGED remote \/ RemoteChange
    <3>1. /\ call[c].pc = "iwrite"
          /\ \/ UNCHANGED remote
             \/ remote' = [remote EXCEPT ![First(call[c].todo)] = text]
          /\ UNCHANGED entry \/ entry' = Without(Evictable({}))
      BY <2>3 DEF ImmediateWrite, ImmediateFails, InvalidateClean, cacheVars
    <3>2. First(call[c].todo) \in Path
      BY <3>1, FirstTodo DEF Loading
    <3> QED
      BY <3>1, <3>2 DEF RemoteChange
  <2> QED
    BY <1>1, <2>1, <2>2, <2>3 DEF CallStep
<1>2. CASE CommitItemStep
  <2>1. /\ flusher # None /\ Waiting # {} /\ UNCHANGED entry
        /\ remote' = [remote EXCEPT ![First(Waiting)] = items[First(Waiting)].desired]
    BY <1>2 DEF CommitItemStep, cacheVars
  <2>2. Waiting \subseteq Path /\ \A p \in Waiting : items[p].desired \in Content
    BY DEF Waiting, TypeInv, TypeOK, FlushOK, CommitItem
  <2>3. First(Waiting) \in Waiting
    BY <2>1, <2>2, FirstIn
  <2> QED
    BY <2>1, <2>2, <2>3 DEF RemoteChange
<1>3. CASE Environment
  <2>1. ASSUME NEW i \in orphans, OrphanApplies(i) PROVE RemoteChange
    <3>1. i.path \in Path /\ i.desired \in Content
      BY DEF TypeInv, TypeOK, RemoteOK, OrphanItem
    <3> QED
      BY <2>1, <3>1 DEF OrphanApplies, RemoteChange, cacheVars
  <2>2. CASE \/ \E c \in Call, p \in Path, text \in Content : CommandWrites(c, p, text)
             \/ \E p \in Path, text \in Content : ForeignWrite(p, text)
    BY <2>2 DEF CommandWrites, ForeignWrite, RemoteChange, cacheVars
  <2>3. CASE OrphansEnd \/ CloseInput
    BY <2>3 DEF OrphansEnd, CloseInput, remoteVars
  <2> QED
    BY <1>3, <2>1, <2>2, <2>3 DEF Environment
<1>4. ASSUME NEW c \in Call, CallFault(c) PROVE UNCHANGED remote
  BY <1>4 DEF CallFault, FetchFails, BarrierLeave, CommandFails, AbortCall, remoteVars
<1>5. CASE TimerCheck \/ TimerFires \/ shutdown \/ UNCHANGED vars
  BY <1>5 DEF TimerCheck, TimerFires, shutdown, vars, remoteVars
<1>6. ASSUME NEW o \in Flusher, FlushNothing(o) \/ FlushBegin(o) PROVE UNCHANGED remote
  BY <1>6 DEF FlushNothing, FlushBegin, remoteVars
<1>7. CASE FlushSucceeds \/ FlushConflicts \/ FlushFault
  BY <1>7 DEF FlushSucceeds, FlushConflicts, FlushFault, FlushFails, FlushUnknown,
              Settle
<1> QED
  BY <1>1, <1>2, <1>3, <1>4, <1>5, <1>6, <1>7 DEF Next, FlushStep

LEMMA DiscardAskedStep ==
  ASSUME TypeInv, DiscardAsked, [Next]_vars
  PROVE  DiscardAsked'
BY CallMoves DEF DiscardAsked, CallMove
-----------------------------------------------------------------------------
\* Equal texts of every path are equal functions.
LEMMA SameText ==
  ASSUME TypeInv, TypeInv', \A p \in Path : Text'[p] = Text[p]
  PROVE  Text' = Text
<1>1. Text \in [Path -> Content] /\ Text' \in [Path -> Content]
  BY TextType
<1> QED
  BY <1>1

\* A remote file changes: a client sees it, unless its text is buffered.
LEMMA RemoteChangeRefines ==
  ASSUME TypeInv, TypeInv', RemoteChange
  PROVE  SharedFiles!Write \/ UNCHANGED <<Text, Dirty>>
<1>1. PICK p \in Path, text \in Content : remote' = [remote EXCEPT ![p] = text]
  BY DEF RemoteChange
<1>2. \A q \in Path \ {p} : remote'[q] = remote[q]
  BY <1>1 DEF TypeInv, TypeOK, RemoteOK
<1>3. Dirty' = Dirty /\ \A q \in Dirty : entry'[q] = entry[q]
  <2>1. CASE UNCHANGED entry
    BY <2>1 DEF Dirty, Cached
  <2>2. CASE entry' = Without(Evictable({}))
    <3>1. /\ Cached' = Cached \ Evictable({})
          /\ \A q \in Cached \ Evictable({}) : entry'[q] = entry[q]
      BY <2>2 DEF Cached, Without, Restrict
    <3> QED
      BY <3>1 DEF Dirty, Evictable
  <2> QED
    BY <2>1, <2>2 DEF RemoteChange
<1>4. \A q \in Path : q # p \/ p \in Dirty => Text'[q] = Text[q]
  BY <1>2, <1>3, TextOf
<1>5. CASE p \in Dirty
  BY <1>3, <1>4, <1>5, SameText
<1>6. CASE p \notin Dirty
  <2>1. SharedFiles!Keeps({p})
    BY <1>4, TextType DEF SharedFiles!Keeps
  <2> QED
    BY <1>3, <1>6, <2>1 DEF SharedFiles!Write
<1> QED
  BY <1>5, <1>6

\* The texts of the paths of S became buffered, or were replaced.
LEMMA BufferRefines ==
  ASSUME TypeInv, TypeInv', UNCHANGED remote,
         NEW S \in SUBSET Path, Dirty' = Dirty \cup S,
         \A p \in Dirty \ S : entry'[p].desired = entry[p].desired
  PROVE  SharedFiles!Edit \/ UNCHANGED <<Text, Dirty>>
<1>1. \A p \in Path \ S : Text'[p] = Text[p]
  BY TextOf
<1>2. CASE S = {}
  BY <1>1, <1>2, SameText
<1>3. CASE S # {}
  <2>1. SharedFiles!Keeps(S)
    BY <1>1, TextType DEF SharedFiles!Keeps
  <2> QED
    BY <1>3, <2>1 DEF SharedFiles!Edit
<1> QED
  BY <1>2, <1>3

\* Some paths are not buffered any more.
LEMMA StoreRefines ==
  ASSUME TypeInv, TypeInv', UNCHANGED remote, Dirty' \subseteq Dirty,
         \A p \in Dirty' : entry'[p].desired = entry[p].desired
  PROVE  SharedFiles!Store \/ UNCHANGED <<Text, Dirty>>
<1> DEFINE S == Dirty \ Dirty'
<1>1. \A p \in Path \ S : Text'[p] = Text[p]
  BY TextOf
<1>2. CASE S = {}
  BY <1>1, <1>2, SameText
<1>3. CASE S # {}
  <2>1. SharedFiles!Keeps(S) /\ S \in SUBSET Dirty /\ Dirty' = Dirty \ S
    BY <1>1, TextType DEF SharedFiles!Keeps
  <2> QED
    BY <1>3, <2>1 DEF SharedFiles!Store
<1> QED
  BY <1>2, <1>3

\* Every step is a step of EditedFiles, or invisible.
LEMMA StepRefines ==
  ASSUME TypeInv, DiscardAsked, [Next]_vars
  PROVE  SharedFiles!Next \/ UNCHANGED <<Text, Dirty>>
<1>0. TypeInv' /\ Dirty \subseteq Path /\ Dirty' \subseteq Path
  BY StepTypeInv, TextType
<1>1. CASE RemoteChange
  BY <1>0, <1>1, RemoteChangeRefines DEF SharedFiles!Next
<1>2. ASSUME UNCHANGED remote, Dirty' = Dirty,
             \A p \in Dirty : entry'[p].desired = entry[p].desired
      PROVE  UNCHANGED <<Text, Dirty>>
  <2>1. \A p \in Path : Text'[p] = Text[p]
    BY <1>2, TextOf
  <2> QED
    BY <1>0, <1>2, <2>1, SameText
<1>3. CASE UNCHANGED remote /\ CleanStep
  <2>1. Dirty' = Dirty /\ \A p \in Dirty : entry'[p] = entry[p]
    BY <1>3 DEF CleanStep, Keeps, Held, Dirty
  <2> QED
    BY <1>2, <1>3, <2>1
<1>4. CASE UNCHANGED remote /\ (ApplyStep \/ GiveUpStep)
  <2>1. UNCHANGED entry
    BY <1>4 DEF ApplyStep, GiveUpStep
  <2> QED
    BY <1>2, <1>4, <2>1 DEF Dirty, Cached
<1>5. ASSUME UNCHANGED remote, NEW o \in Flusher, FlushBegin(o)
      PROVE  UNCHANGED <<Text, Dirty>>
  <2>1. entry' = [p \in Cached |-> IF p \in Flushable
                    THEN [entry[p] EXCEPT !.inFlight = entry[p].gen] ELSE entry[p]]
    BY <1>5 DEF FlushBegin
  <2>2. \A p \in Cached : entry[p] \in Entry
    BY DEF TypeInv, TypeOK, CacheOK
  <2>3. Cached' = Cached /\ \A p \in Cached : /\ entry'[p].dirty = entry[p].dirty
                                              /\ entry'[p].desired = entry[p].desired
    BY <2>1, <2>2 DEF Entry, Cached
  <2> QED
    BY <1>2, <1>5, <2>3 DEF Dirty
<1>6. ASSUME UNCHANGED remote, NEW c \in Call, EditStep(c)
      PROVE  SharedFiles!Next \/ UNCHANGED <<Text, Dirty>>
  <2> DEFINE batch == DOMAIN call[c].plan
  <2>1. batch \in SUBSET Path
    BY PlanDomain DEF TypeInv, TypeOK, TaskOK, CallState
  <2>2. /\ Dirty' = Dirty \cup batch
        /\ \A p \in Dirty \ batch : entry'[p] = entry[p]
    BY <1>6 DEF EditStep, Keeps, Held, Dirty
  <2> QED
    BY <1>0, <1>6, <2>1, <2>2, BufferRefines DEF SharedFiles!Next
<1>7. CASE UNCHANGED remote /\ RetryStep
  <2>1. /\ Dirty \subseteq Dirty'
        /\ \A p \in Dirty : entry'[p].desired = entry[p].desired
    BY <1>7 DEF RetryStep, Dirty
  <2>2. Dirty' \ Dirty \in SUBSET Path /\ Dirty' = Dirty \cup (Dirty' \ Dirty)
    BY <1>0, <2>1
  <2> QED
    BY <1>0, <1>7, <2>1, <2>2, BufferRefines DEF SharedFiles!Next
<1>8. CASE UNCHANGED remote /\ SettleStep
  <2>1. Dirty' \subseteq Dirty /\ \A p \in Dirty' : entry'[p].desired = entry[p].desired
    BY <1>8, SettledEntries DEF SettleStep, Dirty
  <2> QED
    BY <1>0, <1>8, <2>1, StoreRefines DEF SharedFiles!Next
<1>9. CASE UNCHANGED remote /\ DiscardStep
  <2>1. Dirty' = {} /\ "discard" \in Ops
    BY <1>9 DEF DiscardStep, DiscardAsked, host_dirty, Dirty, Cached
  <2>2. \A p \in Path \ Dirty : Text'[p] = Text[p]
    BY <1>9, <2>1, TextOf
  <2>3. SharedFiles!Keeps(Dirty)
    BY <1>0, <2>2, TextType DEF SharedFiles!Keeps
  <2>4. CASE Dirty = {}
    BY <1>0, <2>1, <2>2, <2>4, SameText
  <2>5. CASE Dirty # {}
    BY <2>1, <2>3, <2>5 DEF SharedFiles!Discard, SharedFiles!Next
  <2> QED
    BY <2>4, <2>5
<1> QED
  BY <1>1, <1>3, <1>4, <1>5, <1>6, <1>7, <1>8, <1>9, RemoteChanges, NextStepKind
     DEF StepKind

LEMMA InitRefines == Init => SharedFiles!Init /\ DiscardAsked
BY DEF Init, SharedFiles!Init, DiscardAsked, IdleCall, Text, Dirty, Cached, EmptyFunction

\* Whoever else writes the remote files, an edit takes effect for the clients of
\* a host on all of its batch at once, a buffered text stays what it is until an
\* edit replaces it, a flush has stored it or a client discards it, and flushes,
\* failures, evictions and invalidations change nothing that a client can see
\* (mutate_prepared_batch, flush_once, make_capacity, invalidate_clean_host).
THEOREM CacheIsInvisible == Spec => SharedFiles!Spec
<1>1. TypeInv /\ DiscardAsked /\ [Next]_vars
        => DiscardAsked' /\ [SharedFiles!Next]_SharedFiles!vars
  BY StepRefines, DiscardAskedStep DEF SharedFiles!vars
<1> QED
  BY <1>1, InitTypeInv, StepTypeInv, InitRefines, PTL DEF Spec, SharedFiles!Spec

-----------------------------------------------------------------------------
(* Accounting.  What the entries of a set of paths take, and what evicting *)
(* some of them leaves.                                                    *)
Bytes == [p \in Cached |-> Size[entry[p].desired]]

LEMMA BytesType ==
  ASSUME TypeInv
  PROVE  /\ \A p \in Cached : Size[entry[p].desired] \in Nat /\ Bytes[p] \in Nat
         /\ \A S \in SUBSET Cached : IsFiniteSet(S)
         /\ \A c \in Content : Size[c] \in Nat
         /\ MaxBytes \in Nat
<1>1. Cached \subseteq Path /\ \A p \in Cached : entry[p].desired \in Content
  BY DEF TypeInv, TypeOK, CacheOK, Entry
<1>2. IsFiniteSet(Path) /\ Size \in [Content -> Nat] /\ MaxBytes \in Nat
  BY EditCacheAssumption DEF EditCacheAssumption
<1>3. \A S \in SUBSET Cached : IsFiniteSet(S)
  BY <1>1, <1>2, FS_Subset
<1> QED
  BY <1>1, <1>2, <1>3 DEF Bytes

LEMMA SizeSplit ==
  ASSUME TypeInv, NEW S \in SUBSET Cached
  PROVE  /\ SizeOf(S) \in Nat /\ SizeOf(Cached \ S) \in Nat /\ SizeOf(Cached) \in Nat
         /\ SizeOf(Cached) = SizeOf(S) + SizeOf(Cached \ S)
<1>1. /\ IsFiniteSet(S) /\ IsFiniteSet(Cached \ S) /\ IsFiniteSet(Cached)
      /\ \A p \in Cached : Bytes[p] \in Nat
  BY BytesType
<1>2. /\ SumFunctionOnSet(Bytes, S) \in Nat
      /\ SumFunctionOnSet(Bytes, Cached \ S) \in Nat
      /\ SumFunctionOnSet(Bytes, Cached) \in Nat
  BY <1>1, SumNat
<1>3. S \cap (Cached \ S) = {} /\ S \cup (Cached \ S) = Cached
  OBVIOUS
<1>4. \A p \in S \cup (Cached \ S) : Bytes[p] \in Int
  BY <1>1, <1>3
<1>5. SumFunctionOnSet(Bytes, S \cup (Cached \ S)) =
        SumFunctionOnSet(Bytes, S) + SumFunctionOnSet(Bytes, Cached \ S)
  BY <1>1, <1>3, <1>4, SumSplit
<1> QED
  BY <1>2, <1>3, <1>5 DEF SizeOf, Bytes

\* The size of a set of paths in the next state.
LEMMA SizeNext ==
  ASSUME TypeInv', NEW S, S \subseteq Cached', NEW f,
         \A p \in S : f[p] = Size[entry'[p].desired]
  PROVE  SizeOf(S)' = SumFunctionOnSet(f, S)
<1>1. Cached' \subseteq Path /\ IsFiniteSet(Path)
  BY EditCacheAssumption DEF TypeInv, TypeOK, CacheOK, EditCacheAssumption
<1>2. IsFiniteSet(S)
  BY <1>1, FS_Subset
<1> DEFINE g == [p \in Cached' |-> Size[entry'[p].desired]]
<1>3. \A p \in S : g[p] = f[p]
  OBVIOUS
<1>4. SizeOf(S)' = SumFunctionOnSet(g, S)
  BY DEF SizeOf
<1> HIDE DEF g
<1> QED
  BY <1>2, <1>3, <1>4, SumAgree

LEMMA SizeKept ==
  ASSUME TypeInv, TypeInv', NEW S, S \subseteq Cached, S \subseteq Cached',
         \A p \in S : entry'[p].desired = entry[p].desired
  PROVE  SizeOf(S)' = SizeOf(S)
<1>1. \A p \in S : Bytes[p] = Size[entry'[p].desired]
  BY DEF Bytes
<1>2. SizeOf(S)' = SumFunctionOnSet(Bytes, S)
  BY <1>1, SizeNext
<1> QED
  BY <1>2 DEF SizeOf, Bytes

\* The texts of the entries stay, or some entries go with their bytes.
Dropping(S) ==
  /\ Cached' = Cached \ S
  /\ \A p \in Cached \ S : entry'[p].desired = entry[p].desired
  /\ cachedBytes' = Minus(cachedBytes, SizeOf(S))

LEMMA DroppingBytes ==
  ASSUME TypeInv, TypeInv', BytesAccounted, NEW S \in SUBSET Cached, Dropping(S)
  PROVE  BytesAccounted'
<1>1. SizeOf(Cached \ S)' = SizeOf(Cached \ S) /\ Cached' = Cached \ S
  BY SizeKept DEF Dropping
<1>2. SizeOf(Cached)' = SizeOf(Cached \ S)
  BY <1>1 DEF SizeOf
<1>3. cachedBytes' = SizeOf(Cached \ S) /\ cachedBytes' =< MaxBytes
  BY SizeSplit, BytesType DEF Dropping, BytesAccounted, Minus
<1> QED
  BY <1>2, <1>3 DEF BytesAccounted

LEMMA SameBytes ==
  ASSUME TypeInv, TypeInv', BytesAccounted, Cached' = Cached, UNCHANGED cachedBytes,
         \A p \in Cached : entry'[p].desired = entry[p].desired
  PROVE  BytesAccounted'
<1>1. SizeOf(Cached)' = SizeOf(Cached)
  <2>1. SizeOf(Cached') = SizeOf(Cached)
    OBVIOUS
  <2>2. \A S : S = Cached => (SizeOf(S)' = SizeOf(S))
    BY SizeKept
  <2> QED
    BY <2>2 DEF SizeOf
<1> QED
  BY <1>1 DEF BytesAccounted

\* The entries of V go, and those of S get the texts f, with the bytes of both.
Replacing(V, S, f) ==
  /\ V \subseteq Cached /\ V \cap S = {}
  /\ Cached' = (Cached \ V) \cup S
  /\ \A p \in Cached \ (V \cup S) : entry'[p].desired = entry[p].desired
  /\ \A p \in S : entry'[p].desired = f[p]

LEMMA ReplacingBytes ==
  ASSUME TypeInv, TypeInv', BytesAccounted, NEW V, NEW S, NEW f, Replacing(V, S, f),
         NEW new, new = SumFunctionOnSet([p \in S |-> Size[f[p]]], S),
         cachedBytes' = Minus(Minus(cachedBytes, SizeOf(V)), SizeOf(S \cap Cached)) + new,
         cachedBytes' =< MaxBytes
  PROVE  BytesAccounted'
<1>0. PICK kept : kept = Cached \ (V \cup S)
  OBVIOUS
<1> DEFINE old == S \cap Cached
           weight == [p \in S |-> Size[f[p]]]
<1>1. Cached' \subseteq Path /\ IsFiniteSet(Path) /\ \A p \in Cached' : Size[entry'[p].desired] \in Nat
  <2>1. Cached' \subseteq Path /\ \A p \in Cached' : entry'[p].desired \in Content
    BY DEF TypeInv, TypeOK, CacheOK, Entry
  <2> QED
    BY <2>1, EditCacheAssumption DEF EditCacheAssumption
<1>2. /\ S \subseteq Cached' /\ kept \subseteq Cached' /\ kept \cup S = Cached'
      /\ S \cap kept = {} /\ IsFiniteSet(S) /\ IsFiniteSet(kept)
  <2>1. /\ S \subseteq Cached' /\ kept \subseteq Cached' /\ kept \cup S = Cached'
        /\ S \cap kept = {}
    BY <1>0 DEF Replacing
  <2> QED
    BY <1>1, <2>1, FS_Subset
<1>3. new \in Nat /\ SizeOf(S)' = new
  <2>1. \A p \in S : weight[p] = Size[entry'[p].desired] /\ weight[p] \in Nat
    BY <1>1, <1>2 DEF Replacing
  <2> HIDE DEF weight
  <2>2. SumFunctionOnSet(weight, S) \in Nat /\ SizeOf(S)' = SumFunctionOnSet(weight, S)
    BY <1>2, <2>1, SumNat, SizeNext
  <2> QED
    BY <2>2 DEF weight
<1>4. SizeOf(kept)' = SizeOf(kept)
  BY <1>0, <1>2, SizeKept DEF Replacing
<1>5. SizeOf(Cached)' = SizeOf(kept) + new
  <2> DEFINE g == [p \in Cached' |-> Size[entry'[p].desired]]
  <2>1. /\ SizeOf(Cached)' = SumFunctionOnSet(g, Cached')
        /\ SizeOf(S)' = SumFunctionOnSet(g, S)
        /\ SizeOf(kept)' = SumFunctionOnSet(g, kept)
    BY DEF SizeOf
  <2>2. \A p \in kept \cup S : g[p] \in Int
    BY <1>1, <1>2
  <2> HIDE DEF g
  <2>3. SumFunctionOnSet(g, kept \cup S) =
          SumFunctionOnSet(g, kept) + SumFunctionOnSet(g, S)
    BY <1>2, <2>2, SumSplit
  <2> QED
    BY <1>2, <1>3, <1>4, <2>1, <2>3
<1>6. /\ SizeOf(V) \in Nat /\ SizeOf(old) \in Nat /\ SizeOf(kept) \in Nat
      /\ SizeOf(Cached) = SizeOf(V) + (SizeOf(old) + SizeOf(kept))
  <2> DEFINE rest == Cached \ V
  <2>1. V \in SUBSET Cached /\ old \in SUBSET Cached /\ kept \in SUBSET Cached
    BY <1>0 DEF Replacing
  <2>2. /\ old \cup kept = rest /\ old \cap kept = {}
        /\ \A p \in old \cup kept : Bytes[p] \in Int
        /\ IsFiniteSet(old) /\ IsFiniteSet(kept)
    BY <1>0, <2>1, BytesType DEF Replacing
  <2> HIDE DEF old
  <2>3. SumFunctionOnSet(Bytes, old \cup kept) =
          SumFunctionOnSet(Bytes, old) + SumFunctionOnSet(Bytes, kept)
    BY <2>2, SumSplit
  <2>4. SizeOf(rest) = SizeOf(old) + SizeOf(kept)
    BY <2>2, <2>3 DEF SizeOf, Bytes
  <2> QED
    BY <2>1, <2>4, SizeSplit
<1>7. cachedBytes' = SizeOf(kept) + new
  BY <1>3, <1>6 DEF BytesAccounted, Minus
<1> QED
  BY <1>5, <1>7 DEF BytesAccounted

LEMMA EvictingBytes ==
  ASSUME TypeInv, TypeInv', BytesAccounted, NEW S \in SUBSET Cached,
         entry' = Without(S), cachedBytes' = Minus(cachedBytes, SizeOf(S))
  PROVE  BytesAccounted'
<1>1. Cached' = Cached \ S /\ \A p \in Cached \ S : entry'[p] = entry[p]
  BY DEF Cached, Without, Restrict
<1> QED
  BY <1>1, DroppingBytes DEF Dropping

LEMMA VictimsCached ==
  ASSUME NEW n, NEW protected
  PROVE  Victims(n, protected) \in SUBSET Cached /\ Victims(n, protected) \cap protected = {}
BY DEF Victims, Evictable

LEMMA InsertBytes ==
  ASSUME TypeInv, TypeInv', BytesAccounted, NEW p, NEW text \in Content, InsertClean(p, text)
  PROVE  BytesAccounted'
<1> DEFINE victims == Victims(Size[text], {})
           clean == [base |-> text, desired |-> text, gen |-> 0, dirty |-> FALSE,
                     inFlight |-> 0, conflict |-> "none"]
           weight == [q \in {p} |-> Size[text]]
<1>0. victims \in SUBSET Cached /\ Size[text] \in Nat
  BY VictimsCached, BytesType
<1>1. CASE UNCHANGED <<entry, cachedBytes>>
  BY <1>1, SameBytes DEF Cached
<1>2. CASE entry' = Without(victims) /\ cachedBytes' = Minus(cachedBytes, SizeOf(victims))
  BY <1>0, <1>2, EvictingBytes
<1>3. CASE /\ p \notin Cached /\ make_capacity(Size[text], {})
           /\ entry' = [q \in (Cached \ victims) \cup {p} |-> IF q = p THEN clean ELSE entry[q]]
           /\ cachedBytes' = Minus(cachedBytes, SizeOf(victims)) + Size[text]
  <2>1. cachedBytes' =< MaxBytes
    BY <1>3 DEF make_capacity
  <2> HIDE DEF victims
  <2>2. Replacing(victims, {p}, [q \in {p} |-> text])
    BY <1>0, <1>3 DEF Replacing, Cached
  <2>3. SumFunctionOnSet(weight, {p}) = Size[text]
    <3>1. {p} = {} \cup {p} /\ IsFiniteSet({}) /\ weight[p] \in Int
      BY <1>0, FS_EmptySet
    <3>2. SumFunctionOnSet(weight, {} \cup {p}) = weight[p] + SumFunctionOnSet(weight, {})
      BY <3>1, SumAdd
    <3> QED
      BY <1>0, <3>1, <3>2, SumEmpty
  <2>4. weight = [q \in {p} |-> Size[[r \in {p} |-> text][q]]]
    OBVIOUS
  <2> HIDE DEF weight
  <2>5. {p} \cap Cached = {} /\ SizeOf({}) = 0 /\ SizeOf(victims) \in Nat
    BY <1>0, <1>3, SumEmpty, SizeSplit DEF SizeOf
  <2>6. cachedBytes \in Nat
    BY SizeSplit DEF BytesAccounted
  <2>7. cachedBytes' = Minus(Minus(cachedBytes, SizeOf(victims)), SizeOf({p} \cap Cached)) + Size[text]
    <3>1. cachedBytes' = Minus(cachedBytes, SizeOf(victims)) + Size[text]
      BY <1>3 DEF victims
    <3>2. SizeOf({p} \cap Cached) = 0
      BY <2>5
    <3>3. Minus(Minus(cachedBytes, SizeOf(victims)), 0) = Minus(cachedBytes, SizeOf(victims))
      BY <2>5, <2>6 DEF Minus
    <3> QED
      BY <3>1, <3>2, <3>3
  <2> QED
    BY <2>1, <2>2, <2>3, <2>4, <2>7, ReplacingBytes
<1> QED
  BY <1>1, <1>2, <1>3 DEF InsertClean

LEMMA MutateBytes ==
  ASSUME TypeInv, TypeInv', BytesAccounted, NEW c \in Call,
         NEW want \in [DOMAIN call[c].plan -> Content], NEW bytes \in Payload,
         NEW number \in Numbering(DOMAIN call[c].plan),
         mutate_prepared_batch(c, want, bytes, number)
  PROVE  BytesAccounted'
<1>0. PICK batch : batch = DOMAIN call[c].plan
  OBVIOUS
<1> DEFINE weight == [p \in batch |-> Size[want[p]]]
           new == SumFunction(weight)
           additional == Minus(new, SizeOf(batch))
<1>1. PICK victims : victims = Victims(additional, batch)
  OBVIOUS
<1>2. batch \subseteq Cached
  BY <1>0 DEF mutate_prepared_batch, PlanCurrent
<1>3. victims \in SUBSET Cached /\ victims \cap batch = {}
  BY <1>1, VictimsCached
<1>4. new = SumFunctionOnSet(weight, batch) /\ new \in Nat
  <2>1. IsFiniteSet(batch) /\ \A p \in batch : weight[p] \in Nat
    BY <1>0, <1>2, BytesType
  <2>2. DOMAIN weight = batch
    OBVIOUS
  <2> HIDE DEF weight
  <2> QED
    BY <2>1, <2>2, SumNat DEF SumFunction
<1>5. CASE make_capacity(additional, batch)
  <2>1. /\ entry' = [q \in Cached \ victims |->
                       IF q \in batch
                       THEN [entry[q] EXCEPT !.desired = want[q],
                               !.gen = number[q], !.dirty = TRUE]
                       ELSE entry[q]]
        /\ cachedBytes' = Minus(Minus(cachedBytes, SizeOf(victims)), SizeOf(batch)) + new
    BY <1>0, <1>1, <1>5 DEF mutate_prepared_batch
  <2>2. \A p \in Cached : entry[p] \in Entry
    BY DEF TypeInv, TypeOK, CacheOK
  <2>3. Replacing(victims, batch, want)
    <3>1. Cached' = (Cached \ victims) \cup batch
      BY <1>2, <1>3, <2>1 DEF Cached
    <3>2. \A p \in batch : entry'[p].desired = want[p]
      BY <1>2, <1>3, <2>1, <2>2 DEF Entry
    <3>3. \A p \in Cached \ (victims \cup batch) : entry'[p].desired = entry[p].desired
      BY <2>1
    <3> QED
      BY <1>3, <3>1, <3>2, <3>3 DEF Replacing
  <2>4. Minus(cachedBytes, SizeOf(victims)) + additional =< MaxBytes
    BY <1>1, <1>5 DEF make_capacity
  <2>5. /\ SizeOf(victims) \in Nat /\ SizeOf(batch) \in Nat /\ cachedBytes \in Nat
        /\ MaxBytes \in Nat /\ cachedBytes =< MaxBytes
        /\ SizeOf(victims) + SizeOf(batch) =< cachedBytes
    <3>1. SizeOf(victims) \in Nat /\ SizeOf(batch) \in Nat /\ SizeOf(Cached) \in Nat
      BY <1>2, <1>3, SizeSplit
    <3>2. SizeOf(victims \cup batch) = SizeOf(victims) + SizeOf(batch)
      <4>1. IsFiniteSet(victims) /\ IsFiniteSet(batch) /\ \A p \in victims \cup batch : Bytes[p] \in Int
        BY <1>2, <1>3, BytesType
      <4> QED
        BY <1>3, <4>1, SumSplit DEF SizeOf, Bytes
    <3>3. /\ victims \cup batch \in SUBSET Cached
          /\ SizeOf(Cached \ (victims \cup batch)) \in Nat
          /\ SizeOf(Cached) = SizeOf(victims \cup batch) + SizeOf(Cached \ (victims \cup batch))
      BY <1>2, <1>3, SizeSplit
    <3> QED
      BY <3>1, <3>2, <3>3, BytesType DEF BytesAccounted
  <2> HIDE DEF new
  <2>6. cachedBytes' =< MaxBytes
    <3>1. PICK v, o, n : v = SizeOf(victims) /\ o = SizeOf(batch) /\ n = new
      OBVIOUS
    <3>2. /\ v \in Nat /\ o \in Nat /\ n \in Nat /\ v + o =< cachedBytes
          /\ cachedBytes \in Nat /\ MaxBytes \in Nat /\ cachedBytes =< MaxBytes
      BY <1>4, <2>5, <3>1
    <3>3. cachedBytes' = cachedBytes - v - o + n
      <4>1. cachedBytes' = Minus(Minus(cachedBytes, v), o) + n
        BY <2>1, <3>1
      <4>2. Minus(cachedBytes, v) = cachedBytes - v
        BY <3>2 DEF Minus
      <4>3. Minus(cachedBytes - v, o) = cachedBytes - v - o
        BY <3>2 DEF Minus
      <4> QED
        BY <4>1, <4>2, <4>3
    <3>4. Minus(cachedBytes, v) + Minus(n, o) =< MaxBytes
      BY <2>4, <3>1
    <3>5. (cachedBytes - v) + (IF n > o THEN n - o ELSE 0) =< MaxBytes
      BY <3>2, <3>4 DEF Minus
    <3> QED
      BY <3>2, <3>3, <3>5
  <2>7. batch \cap Cached = batch
    BY <1>2
  <2> QED
    BY <1>4, <2>1, <2>3, <2>6, <2>7, ReplacingBytes
<1>6. CASE ~make_capacity(additional, batch)
  <2>1. entry' = Without(victims) /\ cachedBytes' = Minus(cachedBytes, SizeOf(victims))
    BY <1>0, <1>1, <1>6 DEF mutate_prepared_batch
  <2> QED
    BY <1>3, <2>1, EvictingBytes
<1> QED
  BY <1>5, <1>6

LEMMA InvalidateBytes ==
  ASSUME TypeInv, TypeInv', BytesAccounted, InvalidateClean
  PROVE  BytesAccounted'
<1>1. Evictable({}) \in SUBSET Cached
  BY DEF Evictable
<1> QED
  BY <1>1, EvictingBytes DEF InvalidateClean

LEMMA CallStepBytes ==
  ASSUME TypeInv, TypeInv', BytesAccounted, NEW c \in Call, CallStart(c) \/ CallStep(c)
  PROVE  BytesAccounted'
<1>0. call[c] \in CallState /\ CallTodo(call[c]) /\ call[c].snap \in Content
  BY DEF TypeInv, TypeOK, TaskOK, TodoOK, CallState
<1>1. CASE UNCHANGED <<entry, cachedBytes>>
  BY <1>1, SameBytes DEF Cached
<1>2. CASE \/ \E p \in Path : ReadLookup(c, p)
           \/ \E batch \in SUBSET Path : EditCall(c, batch)
           \/ \E op \in {"observe", "run"} : BarrierCall(c, op)
           \/ SyncCall(c) \/ DiscardCall(c)
           \/ ReadRemote(c) \/ lookup_entry(c) \/ lookup_complete(c)
           \/ LoadLock(c) \/ fetch_complete(c)
           \/ EditRejected(c) \/ MutateTooLarge(c) \/ MutateStale(c)
           \/ ImmediateSnapshot(c) \/ flush_barrier(c)
           \/ \E text \in Content : ImmediateFails(c, text)
  <2>1. UNCHANGED <<entry, cachedBytes>>
    BY <1>2 DEF ReadLookup, EditCall, BarrierCall, SyncCall, DiscardCall, ReadRemote,
                lookup_entry, lookup_complete, LoadLock, fetch_complete, EditRejected,
                MutateTooLarge, MutateStale, ImmediateSnapshot, flush_barrier,
                ImmediateFails, cacheVars
  <2> QED
    BY <1>1, <2>1
<1>3. CASE cache_clean_if_absent(c) \/ load_complete(c)
  <2>1. UNCHANGED <<entry, cachedBytes>> \/ InsertClean(First(call[c].todo), call[c].snap)
    BY <1>3 DEF cache_clean_if_absent, load_complete
  <2> QED
    BY <1>0, <1>1, <2>1, InsertBytes
<1>4. CASE CommandEnds(c) \/ \E text \in Content : ImmediateWrite(c, text)
  <2>1. UNCHANGED <<entry, cachedBytes>> \/ InvalidateClean
    BY <1>4 DEF CommandEnds, ImmediateWrite, cacheVars
  <2> QED
    BY <1>1, <2>1, InvalidateBytes
<1>5. CASE retry_outcome_unknown_host(c)
  <2>1. /\ entry' = [p \in Cached |->
                       IF entry[p].conflict = "OutcomeUnknown"
                       THEN [entry[p] EXCEPT !.conflict = "none", !.dirty = TRUE]
                       ELSE entry[p]]
        /\ UNCHANGED cachedBytes
    BY <1>5 DEF retry_outcome_unknown_host
  <2>2. \A p \in Cached : entry[p] \in Entry
    BY DEF TypeInv, TypeOK, CacheOK
  <2>3. Cached' = Cached /\ \A p \in Cached : entry'[p].desired = entry[p].desired
    BY <2>1, <2>2 DEF Entry, Cached
  <2> QED
    BY <2>1, <2>3, SameBytes
<1>6. CASE discard_host_edits(c)
  <2>1. \/ UNCHANGED <<entry, cachedBytes>>
        \/ entry' = Without(Pending) /\ cachedBytes' = Minus(cachedBytes, SizeOf(Pending))
    BY <1>6 DEF discard_host_edits, cacheVars
  <2>2. Pending \in SUBSET Cached
    BY DEF Pending
  <2> QED
    BY <1>1, <2>1, <2>2, EvictingBytes
<1> QED
  BY <1>2, <1>3, <1>4, <1>5, <1>6, MutateBytes DEF CallStart, CallStep

LEMMA BytesStep ==
  ASSUME TypeInv, BytesAccounted, [Next]_vars
  PROVE  BytesAccounted'
<1>0. TypeInv' /\ \A p \in Cached : entry[p] \in Entry
  BY StepTypeInv DEF TypeInv, TypeOK, CacheOK
<1>1. CASE UNCHANGED <<entry, cachedBytes>>
  BY <1>0, <1>1, SameBytes DEF Cached
<1>2. CASE \/ \E c \in Call : CallFault(c)
           \/ TimerCheck \/ TimerFires \/ shutdown
           \/ \E o \in Flusher : FlushNothing(o)
           \/ CommitItemStep \/ Environment \/ UNCHANGED vars
  <2>1. UNCHANGED <<entry, cachedBytes>>
    BY <1>2 DEF CallFault, FetchFails, BarrierLeave, CommandFails, AbortCall, TimerCheck,
                TimerFires, shutdown, FlushNothing, CommitItemStep, Environment,
                CommandWrites, ForeignWrite, OrphanApplies, OrphansEnd, CloseInput, vars,
                cacheVars
  <2> QED
    BY <1>1, <2>1
<1>3. ASSUME NEW o \in Flusher, FlushBegin(o) PROVE BytesAccounted'
  <2>1. /\ entry' = [p \in Cached |-> IF p \in Flushable
                       THEN [entry[p] EXCEPT !.inFlight = entry[p].gen] ELSE entry[p]]
        /\ UNCHANGED cachedBytes
    BY <1>3 DEF FlushBegin
  <2>2. Cached' = Cached /\ \A p \in Cached : entry'[p].desired = entry[p].desired
    BY <1>0, <2>1 DEF Entry, Cached
  <2> QED
    BY <1>0, <2>1, <2>2, SameBytes
<1>4. CASE FlushSucceeds \/ FlushConflicts \/ FlushFault
  <2>1. done \in SUBSET DOMAIN items
    BY DEF TypeInv, TypeOK, FlushOK
  <2>2. PICK successes \in SUBSET done, error \in ErrorKind \cup {"none"} :
          Settle(successes, error)
    BY <1>4, <2>1 DEF FlushSucceeds, FlushConflicts, FlushFault, FlushFails, FlushUnknown,
                ErrorKind
  <2>3. Cached' = Cached /\ \A p \in Cached : entry'[p].desired = entry[p].desired
    BY <2>2, SettledEntries
  <2>4. UNCHANGED cachedBytes
    BY <2>2 DEF Settle
  <2> QED
    BY <1>0, <2>3, <2>4, SameBytes
<1> QED
  BY <1>0, <1>2, <1>3, <1>4, CallStepBytes DEF Next, FlushStep

LEMMA InitBytes == Init => BytesAccounted
<1> SUFFICES ASSUME Init PROVE BytesAccounted
  OBVIOUS
<1>1. Cached = {} /\ cachedBytes = 0
  BY DEF Init, Cached, EmptyFunction
<1>2. SizeOf(Cached) = 0
  BY <1>1, SumEmpty DEF SizeOf
<1> QED
  BY <1>1, <1>2, EditCacheAssumption DEF BytesAccounted, EditCacheAssumption

\* cached_bytes is the size of what is cached, and at most max_bytes, whatever
\* mix of loads, mutations, evictions, invalidations, flushes and discards ran
\* (make_capacity, mutate_prepared_batch, discard_host_edits).
THEOREM BytesAlwaysAccounted == Spec => []BytesAccounted
<1>1. TypeInv /\ BytesAccounted /\ [Next]_vars => BytesAccounted'
  BY BytesStep
<1> QED
  BY <1>1, InitTypeInv, StepTypeInv, InitBytes, PTL DEF Spec

-----------------------------------------------------------------------------
(* Nobody else writes.  While every text fits in the cache nothing is      *)
(* evicted for lack of room and no edit is immediate.                      *)

LEMMA Fitting ==
  ASSUME Undisturbed, NEW all \in [Path -> Content], NEW S \in SUBSET Path
  PROVE  SumFunctionOnSet([p \in Path |-> Size[all[p]]], S) =< MaxBytes
<1> DEFINE weight == [p \in Path |-> Size[all[p]]]
<1>1. IsFiniteSet(Path) /\ MaxBytes \in Nat /\ \A p \in Path : weight[p] \in Nat
  BY EditCacheAssumption DEF EditCacheAssumption
<1>2. SumFunction(weight) =< MaxBytes
  BY DEF Undisturbed
<1>3. DOMAIN weight = Path
  OBVIOUS
<1> HIDE DEF weight
<1>4. SumFunctionOnSet(weight, Path) =< MaxBytes
  BY <1>2, <1>3 DEF SumFunction
<1>5. IsFiniteSet(S) /\ \A p \in S : weight[p] \in Nat
  BY <1>1, FS_Subset
<1>6. /\ SumFunctionOnSet(weight, S) \in Nat /\ SumFunctionOnSet(weight, Path) \in Nat
      /\ SumFunctionOnSet(weight, S) =< SumFunctionOnSet(weight, Path)
  BY <1>1, <1>5, SumNat, SumSubset
<1>7. SumFunctionOnSet(weight, S) =< MaxBytes
  BY <1>1, <1>4, <1>6
<1> QED
  BY <1>7 DEF weight

LEMMA AnyFits ==
  ASSUME Undisturbed, Path # {}, NEW text \in Content
  PROVE  Size[text] =< MaxBytes
<1>1. PICK p \in Path : TRUE
  OBVIOUS
<1> DEFINE all == [q \in Path |-> text]
           weight == [q \in Path |-> Size[all[q]]]
<1>2. /\ all \in [Path -> Content] /\ {p} \in SUBSET Path
      /\ weight[p] = Size[text] /\ Size[text] \in Nat
  BY <1>1, EditCacheAssumption DEF EditCacheAssumption
<1>3. SumFunctionOnSet(weight, {p}) =< MaxBytes
  BY <1>2, Fitting
<1> HIDE DEF weight
<1>4. SumFunctionOnSet(weight, {} \cup {p}) = weight[p] + SumFunctionOnSet(weight, {})
  BY <1>2, SumAdd, FS_EmptySet
<1>5. {} \cup {p} = {p} /\ SumFunctionOnSet(weight, {}) = 0
  BY SumEmpty
<1> QED
  BY <1>2, <1>3, <1>4, <1>5

LEMMA NoVictims ==
  ASSUME TypeInv, BytesAccounted, NEW n \in Nat, cachedBytes + n =< MaxBytes, NEW protected
  PROVE  Victims(n, protected) = {} /\ make_capacity(n, protected)
<1>1. \A S \in SUBSET Cached : SizeOf(S) \in Nat
  BY SizeSplit
<1>2. cachedBytes \in Nat /\ MaxBytes \in Nat
  BY <1>1, BytesType DEF BytesAccounted
<1>3. \A k \in Nat : Minus(cachedBytes, k) \in Nat /\ Minus(cachedBytes, k) =< cachedBytes
  BY <1>2 DEF Minus
<1>4. \A k \in Nat : Minus(cachedBytes, k) + n =< MaxBytes
  BY <1>2, <1>3
<1>5. \A p : {q \in Evictable(protected) : <<q, p>> \in older} \in SUBSET Cached
  BY DEF Evictable
<1>6. \A p : Minus(cachedBytes, SizeOf({q \in Evictable(protected) : <<q, p>> \in older})) + n
               =< MaxBytes
  BY <1>1, <1>4, <1>5
<1>7. ASSUME NEW p \in Victims(n, protected) PROVE FALSE
  <2> DEFINE k == Minus(cachedBytes, SizeOf({q \in Evictable(protected) : <<q, p>> \in older}))
  <2>1. k + n > MaxBytes
    BY DEF Victims
  <2>2. k + n =< MaxBytes /\ k \in Nat
    BY <1>1, <1>3, <1>5, <1>6
  <2> HIDE DEF k
  <2> QED
    BY <1>2, <2>1, <2>2
<1>8. SizeOf({}) \in Nat
  BY <1>1
<1> QED
  BY <1>4, <1>7, <1>8 DEF make_capacity

\* What is cached, with the texts of an edit in the place of some of it.
LEMMA CachedFits ==
  ASSUME TypeInv, BytesAccounted, Undisturbed, NEW S \in SUBSET Path,
         NEW want \in [S -> Content], NEW rest, rest = Cached \ S
  PROVE  /\ SumFunctionOnSet([p \in S |-> Size[want[p]]], S) \in Nat
         /\ SizeOf(rest) + SumFunctionOnSet([p \in S |-> Size[want[p]]], S) =< MaxBytes
<1> DEFINE weight == [p \in S |-> Size[want[p]]]
           all == [p \in Path |-> IF p \in S THEN want[p]
                                  ELSE IF p \in Cached THEN entry[p].desired ELSE NoFile]
           total == [p \in Path |-> Size[all[p]]]
<1>0. Cached \subseteq Path /\ \A p \in Cached : entry[p].desired \in Content
  BY DEF TypeInv, TypeOK, CacheOK, Entry
<1>1. all \in [Path -> Content]
  BY <1>0, EditCacheAssumption DEF EditCacheAssumption
<1>2. /\ IsFiniteSet(S) /\ IsFiniteSet(rest) /\ S \cup rest \in SUBSET Path
      /\ S \cap rest = {}
      /\ \A p \in Path : total[p] \in Nat
  BY <1>0, <1>1, BytesType, EditCacheAssumption, FS_Subset DEF EditCacheAssumption
<1>3. SumFunctionOnSet(total, S \cup rest) =< MaxBytes
  BY <1>1, <1>2, Fitting
<1>4. \A p \in S : total[p] = weight[p]
  OBVIOUS
<1>5. \A p \in rest : total[p] = Bytes[p]
  BY <1>0 DEF Bytes
<1> HIDE DEF weight, total
<1>6. SumFunctionOnSet(total, S) = SumFunctionOnSet(weight, S)
  BY <1>2, <1>4, SumAgree
<1>7. SumFunctionOnSet(total, rest) = SumFunctionOnSet(Bytes, rest)
  BY <1>2, <1>5, SumAgree
<1>8. /\ SumFunctionOnSet(total, S) \in Nat /\ SumFunctionOnSet(total, rest) \in Nat
      /\ SumFunctionOnSet(total, S \cup rest) =
           SumFunctionOnSet(total, S) + SumFunctionOnSet(total, rest)
  <2>1. (\A p \in S : total[p] \in Nat) /\ (\A p \in rest : total[p] \in Nat)
    BY <1>2
  <2>2. \A p \in S \cup rest : total[p] \in Int
    BY <2>1
  <2> QED
    BY <1>2, <2>1, <2>2, SumNat, SumSplit
<1>9. SizeOf(rest) = SumFunctionOnSet(Bytes, rest)
  BY DEF SizeOf, Bytes
<1>10. /\ SumFunctionOnSet(weight, S) \in Nat
       /\ SizeOf(rest) + SumFunctionOnSet(weight, S) =< MaxBytes
  BY <1>3, <1>6, <1>7, <1>8, <1>9, BytesType
<1> QED
  BY <1>10 DEF weight

LEMMA InsertFits ==
  ASSUME TypeInv, BytesAccounted, Undisturbed, NEW p \in Path, NEW text \in Content,
         InsertClean(p, text)
  PROVE  /\ p \in Cached' /\ Cached \subseteq Cached'
         /\ \A q \in Cached : entry'[q] = entry[q]
<1> DEFINE victims == Victims(Size[text], {})
           clean == [base |-> text, desired |-> text, gen |-> 0, dirty |-> FALSE,
                     inFlight |-> 0, conflict |-> "none"]
<1>1. Size[text] \in Nat /\ Size[text] =< MaxBytes /\ MaxBytes \in Nat
  BY AnyFits, BytesType
<1>2. CASE p \in Cached
  BY <1>2 DEF InsertClean, Cached
<1>3. CASE p \notin Cached
  <2> DEFINE want == [q \in {p} |-> text]
             weight == [q \in {p} |-> Size[want[q]]]
  <2>1. want \in [{p} -> Content] /\ {p} \in SUBSET Path /\ Cached = Cached \ {p}
    BY <1>3
  <2>2. SizeOf(Cached) + SumFunctionOnSet(weight, {p}) =< MaxBytes
    BY <2>1, CachedFits
  <2>3. SumFunctionOnSet(weight, {p}) = Size[text]
    <3>1. {p} = {} \cup {p} /\ IsFiniteSet({}) /\ weight[p] = Size[text]
      BY FS_EmptySet
    <3> HIDE DEF weight
    <3>2. SumFunctionOnSet(weight, {} \cup {p}) = weight[p] + SumFunctionOnSet(weight, {})
      <4>1. p \notin {} /\ \A q \in {} \cup {p} : weight[q] \in Int
        BY <1>1, <3>1
      <4> QED
        BY <3>1, <4>1, SumAdd
    <3> QED
      BY <1>1, <3>1, <3>2, SumEmpty
  <2>4. victims = {} /\ make_capacity(Size[text], {})
    BY <1>1, <2>2, <2>3, NoVictims DEF BytesAccounted
  <2>5. ~(p \in Cached \/ MaxBytes < Size[text])
    BY <1>1, <1>3
  <2>6. entry' = [q \in (Cached \ victims) \cup {p} |-> IF q = p THEN clean ELSE entry[q]]
    BY <2>4, <2>5 DEF InsertClean
  <2> HIDE DEF victims, clean
  <2> QED
    BY <1>3, <2>4, <2>6 DEF Cached
<1> QED
  BY <1>2, <1>3

LEMMA MutateFits ==
  ASSUME TypeInv, BytesAccounted, Undisturbed, NEW c \in Call,
         NEW want \in [DOMAIN call[c].plan -> Content], NEW bytes \in Payload,
         NEW number \in Numbering(DOMAIN call[c].plan),
         mutate_prepared_batch(c, want, bytes, number)
  PROVE  Return(c) /\ Cached' = Cached
<1>0. PICK batch : batch = DOMAIN call[c].plan
  OBVIOUS
<1> DEFINE weight == [p \in batch |-> Size[want[p]]]
           new == SumFunction(weight)
           additional == Minus(new, SizeOf(batch))
           victims == Victims(additional, batch)
<1>1. batch \in SUBSET Cached /\ batch \in SUBSET Path
  BY <1>0 DEF mutate_prepared_batch, PlanCurrent, TypeInv, TypeOK, CacheOK
<1>2. /\ new = SumFunctionOnSet(weight, batch) /\ new \in Nat
      /\ SizeOf(Cached \ batch) + new =< MaxBytes
  <2>1. DOMAIN weight = batch
    OBVIOUS
  <2>2. new = SumFunctionOnSet(weight, batch)
    BY <2>1 DEF SumFunction
  <2>3. want \in [batch -> Content]
    BY <1>0
  <2> QED
    BY <1>1, <2>2, <2>3, CachedFits
<1> HIDE DEF new
<1>3. /\ SizeOf(batch) \in Nat /\ SizeOf(Cached \ batch) \in Nat
      /\ cachedBytes = SizeOf(batch) + SizeOf(Cached \ batch)
      /\ cachedBytes =< MaxBytes /\ MaxBytes \in Nat
  BY <1>1, SizeSplit, BytesType DEF BytesAccounted
<1>4. additional \in Nat /\ cachedBytes + additional =< MaxBytes
  BY <1>2, <1>3 DEF Minus
<1> HIDE DEF additional
<1>5. victims = {} /\ make_capacity(additional, batch)
  BY <1>4, NoVictims
<1>6. /\ Return(c)
      /\ entry' = [q \in Cached \ victims |->
                     IF q \in batch
                     THEN [entry[q] EXCEPT !.desired = want[q], !.gen = number[q],
                                           !.dirty = TRUE]
                     ELSE entry[q]]
  BY <1>0, <1>5 DEF mutate_prepared_batch, additional, new
<1> QED
  BY <1>5, <1>6 DEF Cached

-----------------------------------------------------------------------------
(* The calls of an undisturbed cache: none is on the immediate path, and   *)
(* what a call has just loaded is still there when it looks again.         *)
CallQuiet(s) ==
  /\ s.pc \notin {"iflush", "isnap", "iwrite", "dwait"}
  /\ s.pc = "command" \/ s.pc = "bwait" \/ s.pc = "bflush" => s.op # "run"
  /\ s.pc = "lookup2" => First(s.todo) \in Cached

CallsQuiet == \A c \in Call : CallQuiet(call[c])

\* One call moves on, nothing leaves the cache.
LEMMA OneQuietCall ==
  ASSUME TypeInv, CallsQuiet, Cached \subseteq Cached', NEW c \in Call, NEW t,
         call' = [call EXCEPT ![c] = t], CallQuiet(t)'
  PROVE  CallsQuiet'
<1>1. call \in [Call -> CallState]
  BY DEF TypeInv, TypeOK, TaskOK
<1>2. call'[c] = t /\ \A d \in Call \ {c} : call'[d] = call[d]
  BY <1>1
<1>3. ASSUME NEW d \in Call PROVE CallQuiet(call[d])'
  <2>1. CASE d = c
    BY <1>2, <2>1 DEF CallQuiet
  <2>2. CASE d # c
    BY <1>2, <2>2 DEF CallsQuiet, CallQuiet
  <2> QED
    BY <2>1, <2>2
<1> QED
  BY <1>3 DEF CallsQuiet

LEMMA QuietReturn ==
  ASSUME TypeInv, CallsQuiet, Cached \subseteq Cached', NEW c \in Call, Return(c)
  PROVE  CallsQuiet'
<1>1. call' = [call EXCEPT ![c] = IdleCall] /\ CallQuiet(IdleCall)'
  BY DEF Return, CallQuiet, IdleCall
<1> QED
  BY <1>1, OneQuietCall

LEMMA QuietGoto ==
  ASSUME TypeInv, CallsQuiet, Cached \subseteq Cached', NEW c \in Call,
         NEW pc \in PC \ {"iflush", "isnap", "iwrite", "dwait"}, Goto(c, pc),
         pc = "lookup2" => First(call[c].todo) \in Cached',
         pc \in {"command", "bwait", "bflush"} => call[c].op # "run"
  PROVE  CallsQuiet'
<1>0. PICK t : t = [call[c] EXCEPT !.pc = pc]
  OBVIOUS
<1>1. call[c] \in CallState
  BY DEF TypeInv, TypeOK, TaskOK
<1>2. t.pc = pc /\ t.todo = call[c].todo /\ t.op = call[c].op
  BY <1>0, <1>1 DEF CallState
<1>3. call' = [call EXCEPT ![c] = t]
  BY <1>0, <1>1 DEF Goto, TypeInv, TypeOK, TaskOK
<1>4. CallQuiet(t)'
  BY <1>2 DEF CallQuiet
<1> QED
  BY <1>3, <1>4, OneQuietCall

LEMMA QuietCallStep ==
  ASSUME TypeInv, BytesAccounted, Undisturbed, CallsQuiet, NEW c \in Call,
         CallStart(c) \/ CallStep(c) \/ CallFault(c)
  PROVE  Cached \subseteq Cached' /\ CallsQuiet'
<1>0. /\ call[c] \in CallState /\ CallTodo(call[c]) /\ CallQuiet(call[c])
      /\ call[c].todo # {} => First(call[c].todo) \in call[c].todo
      /\ call[c].todo \subseteq Path /\ call[c].snap \in Content
      /\ "run" \notin Ops /\ "discard" \notin Ops /\ MaxBytes > 0
  <2>1. call[c] \in CallState /\ CallTodo(call[c]) /\ CallQuiet(call[c])
    BY DEF TypeInv, TypeOK, TaskOK, TodoOK, CallsQuiet
  <2> QED
    BY <2>1, FirstIn DEF CallState, Undisturbed
<1>1. CASE UNCHANGED entry /\ Return(c)
  BY <1>1, QuietReturn DEF Cached
<1>2. CASE UNCHANGED entry /\ UNCHANGED call
  BY <1>2 DEF Cached, CallsQuiet, CallQuiet
<1>3. ASSUME UNCHANGED entry, NEW pc \in {"rfetch", "lookup", "load", "loadwait", "fetch",
                                          "insert", "sflush"},
             Goto(c, pc)
      PROVE  Cached \subseteq Cached' /\ CallsQuiet'
  BY <1>3, QuietGoto DEF Cached, PC
<1>4. ASSUME UNCHANGED entry, NEW t, CallQuiet(t), call' = [call EXCEPT ![c] = t]
      PROVE  Cached \subseteq Cached' /\ CallsQuiet'
  <2>1. Cached' = Cached /\ CallQuiet(t)'
    BY <1>4 DEF Cached, CallQuiet
  <2> QED
    BY <1>4, <2>1, OneQuietCall
<1>5. ASSUME NEW p \in Path, ReadLookup(c, p)
      PROVE  Cached \subseteq Cached' /\ CallsQuiet'
  <2>1. PICK t : t = [IdleCall EXCEPT !.pc = "rfetch", !.todo = {p}]
    OBVIOUS
  <2>2. UNCHANGED entry /\ (UNCHANGED call \/ call' = [call EXCEPT ![c] = t])
    BY <1>5, <2>1 DEF ReadLookup
  <2>3. CallQuiet(t)
    BY <2>1 DEF CallQuiet, IdleCall
  <2> QED
    BY <1>2, <1>4, <2>2, <2>3
<1>6. ASSUME NEW batch \in SUBSET Path, EditCall(c, batch)
      PROVE  Cached \subseteq Cached' /\ CallsQuiet'
  <2>1. PICK t : t = [IdleCall EXCEPT !.op = "edit", !.pc = "lookup", !.todo = batch]
    OBVIOUS
  <2>2. UNCHANGED entry /\ call' = [call EXCEPT ![c] = t]
    BY <1>6, <2>1 DEF EditCall, cacheVars
  <2>3. CallQuiet(t)
    BY <2>1 DEF CallQuiet, IdleCall
  <2> QED
    BY <1>4, <2>2, <2>3
<1>7. ASSUME NEW op \in {"observe", "run"}, BarrierCall(c, op)
      PROVE  Cached \subseteq Cached' /\ CallsQuiet'
  <2>1. PICK t : t = [IdleCall EXCEPT !.op = op, !.pc = "bwait", !.before = nextGen]
    OBVIOUS
  <2>2. UNCHANGED entry /\ call' = [call EXCEPT ![c] = t] /\ op # "run"
    BY <1>0, <1>7, <2>1 DEF BarrierCall, cacheVars
  <2>3. CallQuiet(t)
    BY <2>1, <2>2 DEF CallQuiet, IdleCall
  <2> QED
    BY <1>4, <2>2, <2>3
<1>8. CASE SyncCall(c)
  <2>1. PICK t : t = [IdleCall EXCEPT !.op = "sync", !.pc = "swait"]
    OBVIOUS
  <2>2. UNCHANGED entry /\ call' = [call EXCEPT ![c] = t]
    BY <1>8, <2>1 DEF SyncCall, cacheVars
  <2>3. CallQuiet(t)
    BY <2>1 DEF CallQuiet, IdleCall
  <2> QED
    BY <1>4, <2>2, <2>3
<1>9. CASE ReadRemote(c)
  <2>1. PICK t : t = [call[c] EXCEPT !.pc = "rinsert",
                                     !.snap = remote[First(call[c].todo)]]
    OBVIOUS
  <2>2. UNCHANGED entry /\ (Return(c) \/ call' = [call EXCEPT ![c] = t])
    BY <1>0, <1>9, <2>1 DEF ReadRemote, Return, cacheVars, TypeInv, TypeOK, TaskOK
  <2>3. CallQuiet(t)
    BY <1>0, <2>1 DEF CallQuiet, CallState
  <2> QED
    BY <1>1, <1>4, <2>2, <2>3
<1>10. CASE fetch_complete(c)
  <2>1. PICK t : t = [call[c] EXCEPT !.pc = "insert",
                                     !.snap = remote[First(call[c].todo)]]
    OBVIOUS
  <2>2. UNCHANGED entry /\ call' = [call EXCEPT ![c] = t]
    BY <1>0, <1>10, <2>1 DEF fetch_complete, cacheVars, TypeInv, TypeOK, TaskOK
  <2>3. CallQuiet(t)
    BY <1>0, <2>1 DEF CallQuiet, CallState
  <2> QED
    BY <1>4, <2>2, <2>3
<1>11. CASE lookup_entry(c)
  <2>0. UNCHANGED entry /\ call[c].pc \in {"lookup", "lookup2"}
    BY <1>11 DEF lookup_entry
  <2>1. CASE Return(c)
    BY <1>1, <2>0, <2>1
  <2>2. CASE Goto(c, "load")
    BY <1>3, <2>0, <2>2
  <2>3. CASE Loaded(c, First(call[c].todo))
    <3> DEFINE p == First(call[c].todo)
               rest == call[c].todo \ {p}
               seen == [gen |-> entry[p].gen, text |-> entry[p].desired]
    <3>1. PICK t : t = [call[c] EXCEPT
                          !.todo = rest,
                          !.plan = [q \in DOMAIN call[c].plan \cup {p} |->
                                      IF q = p THEN seen ELSE call[c].plan[q]],
                          !.pc = IF rest = {} THEN "mutate" ELSE "lookup"]
      OBVIOUS
    <3>2. call' = [call EXCEPT ![c] = t]
      BY <1>0, <2>3, <3>1 DEF Loaded, TypeInv, TypeOK, TaskOK
    <3>3. t.pc \in {"mutate", "lookup"}
      BY <1>0, <3>1 DEF CallState
    <3>4. CallQuiet(t)
      BY <3>3 DEF CallQuiet
    <3> QED
      BY <1>4, <2>0, <3>2, <3>4
  <2>4. CASE First(call[c].todo) \notin Cached /\ call[c].pc = "lookup2"
    BY <1>0, <2>4 DEF CallQuiet
  <2> QED
    BY <1>11, <2>1, <2>2, <2>3, <2>4 DEF lookup_entry
<1>12. CASE lookup_complete(c) \/ LoadLock(c)
  <2>1. /\ UNCHANGED entry
        /\ \/ First(call[c].todo) \in Cached /\ Goto(c, "lookup2")
           \/ Goto(c, "loadwait") \/ Goto(c, "fetch")
    BY <1>12 DEF lookup_complete, LoadLock
  <2>2. ASSUME First(call[c].todo) \in Cached, Goto(c, "lookup2")
        PROVE  Cached \subseteq Cached' /\ CallsQuiet'
    <3>1. Cached' = Cached
      BY <2>1 DEF Cached
    <3> QED
      BY <2>2, <3>1, QuietGoto DEF PC
  <2> QED
    BY <1>3, <2>1, <2>2
<1>13. CASE load_complete(c) \/ cache_clean_if_absent(c)
  <2>1. First(call[c].todo) \in Path
    BY <1>0, <1>13 DEF load_complete, cache_clean_if_absent, CallTodo, Loading
  <2>2. InsertClean(First(call[c].todo), call[c].snap)
    BY <1>0, <1>13 DEF load_complete, cache_clean_if_absent
  <2>3. First(call[c].todo) \in Cached' /\ Cached \subseteq Cached'
    BY <1>0, <2>1, <2>2, InsertFits
  <2>4. CASE Return(c)
    BY <2>3, <2>4, QuietReturn
  <2>5. CASE Goto(c, "lookup2")
    BY <2>3, <2>5, QuietGoto DEF PC
  <2> QED
    BY <1>13, <2>4, <2>5 DEF load_complete, cache_clean_if_absent
<1>14. CASE MutateTooLarge(c)
  <2>1. PICK p \in Path : TRUE
    BY <1>0, <1>14, PlanDomain DEF MutateTooLarge, CallTodo, CallState
  <2>2. PICK d \in Content : Size[d] > MaxBytes
    BY <1>14 DEF MutateTooLarge
  <2> QED
    BY <2>1, <2>2, AnyFits, BytesType
<1>15. ASSUME NEW want \in [DOMAIN call[c].plan -> Content], NEW bytes \in Payload,
              NEW number \in Numbering(DOMAIN call[c].plan),
              mutate_prepared_batch(c, want, bytes, number)
       PROVE  Cached \subseteq Cached' /\ CallsQuiet'
  <2>1. Return(c) /\ Cached' = Cached
    BY <1>15, MutateFits
  <2> QED
    BY <2>1, QuietReturn
<1>16. CASE \/ ImmediateSnapshot(c) \/ discard_host_edits(c) \/ DiscardCall(c)
            \/ \E text \in Content : ImmediateWrite(c, text) \/ ImmediateFails(c, text)
  BY <1>0, <1>16 DEF ImmediateSnapshot, discard_host_edits, DiscardCall, ImmediateWrite,
                     ImmediateFails, CallQuiet
<1>17. CASE \/ EditRejected(c) \/ MutateStale(c) \/ CommandEnds(c) \/ CallFault(c)
  <2>1. UNCHANGED entry /\ Return(c)
    BY <1>0, <1>17 DEF EditRejected, MutateStale, CommandEnds, CallFault, FetchFails,
       BarrierLeave, CommandFails, AbortCall, cacheVars, CallQuiet
  <2> QED
    BY <1>1, <2>1
<1>18. CASE flush_barrier(c)
  <2>1. Cached' = Cached /\ Goto(c, "bflush") /\ call[c].op # "run"
    BY <1>0, <1>18 DEF flush_barrier, cacheVars, Cached, CallQuiet
  <2> QED
    BY <2>1, QuietGoto DEF PC
<1>19. CASE retry_outcome_unknown_host(c)
  <2>1. Cached' = Cached /\ Goto(c, "sflush")
    BY <1>19 DEF retry_outcome_unknown_host, Cached
  <2> QED
    BY <2>1, QuietGoto DEF PC
<1> QED
  BY <1>5, <1>6, <1>7, <1>8, <1>9, <1>10, <1>11, <1>12, <1>13, <1>14, <1>15, <1>16, <1>17,
     <1>18, <1>19 DEF CallStart, CallStep

LEMMA QuietStep ==
  ASSUME TypeInv, BytesAccounted, Undisturbed, CallsQuiet, [Next]_vars
  PROVE  Cached \subseteq Cached' /\ CallsQuiet'
<1>1. CASE UNCHANGED <<entry, call>>
  BY <1>1 DEF Cached, CallsQuiet, CallQuiet
<1>2. ASSUME NEW o, NEW result, NEW woken, Resume(o, result, woken), Cached' = Cached
      PROVE  CallsQuiet'
  <2>1. \A d \in Call : call'[d] = CallAfterFlush(call[d], result) \/ call'[d] = call[d]
    BY <1>2 DEF Resume
  <2>2. ASSUME NEW d \in Call PROVE CallQuiet(call[d])'
    <3>0. call[d] \in CallState /\ CallQuiet(call[d])
      BY DEF TypeInv, TypeOK, TaskOK, CallsQuiet
    <3>1. CASE call'[d] = call[d]
      BY <1>2, <3>0, <3>1 DEF CallQuiet
    <3>2. CASE call'[d] = IdleCall
      BY <3>2 DEF CallQuiet, IdleCall
    <3>3. CASE call[d].pc = "bflush" /\ call'[d] = [call[d] EXCEPT !.pc = "command"]
      BY <3>0, <3>3 DEF CallQuiet, CallState
    <3> QED
      BY <2>1, <3>0, <3>1, <3>2, <3>3 DEF CallAfterFlush, CallQuiet
  <2> QED
    BY <2>2 DEF CallsQuiet
<1>3. ASSUME NEW o \in Flusher, FlushNothing(o)
      PROVE  Cached \subseteq Cached' /\ CallsQuiet'
  BY <1>2, <1>3 DEF FlushNothing, cacheVars, Cached
<1>4. CASE FlushSucceeds \/ FlushConflicts \/ FlushFault
  <2>1. PICK successes, error : Settle(successes, error)
    BY <1>4 DEF FlushSucceeds, FlushConflicts, FlushFault, FlushFails, FlushUnknown
  <2>2. Cached' = Cached
    BY <2>1 DEF Settle, Cached
  <2> QED
    BY <1>2, <2>1, <2>2 DEF Settle
<1>5. ASSUME NEW o \in Flusher, FlushBegin(o)
      PROVE  Cached \subseteq Cached' /\ CallsQuiet'
  <2>1. Cached' = Cached /\ UNCHANGED call
    BY <1>5 DEF FlushBegin, taskVars, Cached
  <2> QED
    BY <2>1 DEF CallsQuiet, CallQuiet
<1>6. CASE TimerCheck \/ TimerFires \/ shutdown \/ CommitItemStep \/ Environment
           \/ UNCHANGED vars
  <2>1. UNCHANGED <<entry, call>>
    BY <1>6 DEF TimerCheck, TimerFires, shutdown, CommitItemStep, Environment,
     CommandWrites, ForeignWrite, OrphanApplies, OrphansEnd, CloseInput, vars, taskVars,
     cacheVars
  <2> QED
    BY <1>1, <2>1
<1> QED
  BY <1>3, <1>4, <1>5, <1>6, QuietCallStep DEF Next, FlushStep

-----------------------------------------------------------------------------
(* The batch being committed, and what a batch that was given up left      *)
(* behind, belong to paths that stay buffered.                             *)
Numbered(p) == entry[p].gen \in 1 .. nextGen - 1

DirtyNumbered == \A p \in Cached : entry[p].dirty => Numbered(p)

NeverUnknown == \A p \in Cached : entry[p].conflict # "OutcomeUnknown"

BatchHeld ==
  \A p \in DOMAIN items :
    /\ p \in Cached /\ entry[p].dirty /\ entry[p].inFlight = items[p].gen
    /\ items[p].gen \in 1 .. nextGen - 1
    /\ entry[p].gen = items[p].gen => entry[p].desired = items[p].desired

DoneStored == \A p \in done : remote[p] = items[p].desired

OrphansHeld ==
  \A i \in orphans :
    /\ i.path \in Cached /\ entry[i.path].dirty /\ entry[i.path].inFlight # 0
    /\ i.path \notin DOMAIN items

QuietInv == CallsQuiet /\ DirtyNumbered /\ NeverUnknown /\ BatchHeld /\ DoneStored
              /\ OrphansHeld

GivenUp == {[path |-> p, base |-> items[p].base, desired |-> items[p].desired,
             gen |-> items[p].gen] : p \in Waiting}

\* Only a batch, or what is left of one, changes a remote file.
LEMMA QuietMoves ==
  ASSUME TypeInv, Undisturbed, CallsQuiet, [Next]_vars
  PROVE  \/ CommitItemStep
         \/ \E i \in orphans : OrphanApplies(i)
         \/ /\ UNCHANGED remote /\ done' \subseteq done
            /\ \/ orphans' \subseteq orphans
               \/ GiveUpStep /\ orphans' = orphans \cup GivenUp
<1>0. /\ "run" \notin Ops /\ "discard" \notin Ops
      /\ "foreign" \notin Faults /\ "unknown" \notin Faults
  BY DEF Undisturbed
<1> DEFINE Still == UNCHANGED remote /\ done' \subseteq done /\ orphans' \subseteq orphans
<1>1. ASSUME NEW c \in Call, CallStart(c) \/ CallStep(c) PROVE Still
  <2>0. CallQuiet(call[c])
    BY DEF CallsQuiet
  <2>1. CASE \E text \in Content : ImmediateWrite(c, text) \/ ImmediateFails(c, text)
    BY <2>0, <2>1 DEF ImmediateWrite, ImmediateFails, CallQuiet
  <2>2. CASE \/ CallStart(c)
             \/ ReadRemote(c) \/ cache_clean_if_absent(c)
             \/ lookup_entry(c) \/ lookup_complete(c) \/ LoadLock(c)
             \/ fetch_complete(c) \/ load_complete(c)
    BY <2>2 DEF CallStart, ReadLookup, EditCall, BarrierCall, SyncCall, DiscardCall,
       ReadRemote, cache_clean_if_absent, lookup_entry, lookup_complete, LoadLock,
       fetch_complete, load_complete, remoteVars, flushVars
  <2>3. CASE \/ EditRejected(c) \/ MutateTooLarge(c) \/ MutateStale(c)
             \/ ImmediateSnapshot(c) \/ flush_barrier(c) \/ CommandEnds(c)
             \/ retry_outcome_unknown_host(c) \/ discard_host_edits(c)
    BY <2>3 DEF EditRejected, MutateTooLarge, MutateStale, ImmediateSnapshot,
       flush_barrier, CommandEnds, retry_outcome_unknown_host, discard_host_edits,
       remoteVars, flushVars
  <2>4. ASSUME NEW want \in [DOMAIN call[c].plan -> Content], NEW bytes \in Payload,
               NEW number \in Numbering(DOMAIN call[c].plan),
               mutate_prepared_batch(c, want, bytes, number)
        PROVE  Still
    BY <2>4 DEF mutate_prepared_batch, remoteVars, flushVars
  <2> QED
    BY <1>1, <2>1, <2>2, <2>3, <2>4 DEF CallStep
<1>2. ASSUME NEW c \in Call, FetchFails(c) \/ BarrierLeave(c) \/ CommandFails(c) PROVE Still
  BY <1>2 DEF FetchFails, BarrierLeave, CommandFails, remoteVars, flushVars
<1>3. ASSUME NEW c \in Call, AbortCall(c)
      PROVE  Still \/ (UNCHANGED remote /\ done' \subseteq done /\ GiveUpStep
                         /\ orphans' = orphans \cup GivenUp)
  <2>1. CASE flusher = c
    BY <1>3, <2>1 DEF AbortCall, GiveUpStep, GivenUp, cacheVars, history
  <2>2. CASE flusher # c
    BY <1>3, <2>2 DEF AbortCall, flushVars
  <2> QED
    BY <2>1, <2>2
<1>4. ASSUME TimerCheck \/ TimerFires \/ shutdown \/ UNCHANGED vars
               \/ \E o \in Flusher : FlushNothing(o)
      PROVE  Still
  BY <1>4 DEF TimerCheck, TimerFires, shutdown, FlushNothing, vars, remoteVars, flushVars
<1>5. ASSUME NEW o \in Flusher, FlushBegin(o) PROVE Still
  BY <1>5 DEF FlushBegin, remoteVars
<1>6. ASSUME FlushSucceeds \/ FlushConflicts \/ FlushFault PROVE Still
  <2>1. (\E successes, error : Settle(successes, error)) /\ UNCHANGED orphans
    BY <1>0, <1>6 DEF FlushSucceeds, FlushConflicts, FlushFault, FlushFails, FlushUnknown
  <2> QED
    BY <2>1 DEF Settle
<1>7. ASSUME \/ \E c \in Call, p \in Path, text \in Content : CommandWrites(c, p, text)
             \/ \E p \in Path, text \in Content : ForeignWrite(p, text)
      PROVE  FALSE
  BY <1>0, <1>7 DEF CommandWrites, ForeignWrite, CallsQuiet, CallQuiet
<1>8. ASSUME OrphansEnd \/ CloseInput PROVE Still
  BY <1>8 DEF OrphansEnd, CloseInput, remoteVars, flushVars
<1> HIDE DEF Still
<1>9. \/ Still
      \/ CommitItemStep
      \/ \E i \in orphans : OrphanApplies(i)
      \/ /\ UNCHANGED remote /\ done' \subseteq done
         /\ GiveUpStep /\ orphans' = orphans \cup GivenUp
  BY <1>1, <1>2, <1>3, <1>4, <1>5, <1>6, <1>7, <1>8
     DEF Next, CallFault, FlushStep, Environment
<1> QED
  BY <1>9 DEF Still

\* What the batch invariants need of a step that leaves the batch alone.
LEMMA HeldStays ==
  ASSUME TypeInv, QuietInv,
         \A p \in Cached : Held(p) => Keeps(p),
         \A p \in Cached' : p \in Cached => Keeps(p) \/ ~Held(p),
         UNCHANGED <<items, nextGen, remote>>, done' \subseteq done,
         orphans' \subseteq orphans
  PROVE  BatchHeld' /\ DoneStored' /\ OrphansHeld'
<1>1. BatchHeld'
  BY DEF QuietInv, BatchHeld, Held, Keeps
<1>2. DoneStored'
  BY DEF QuietInv, DoneStored
<1>3. OrphansHeld'
  BY DEF QuietInv, OrphansHeld, Held, Keeps
<1> QED
  BY <1>1, <1>2, <1>3

LEMMA QuietCommit ==
  ASSUME TypeInv, QuietInv, CommitItemStep
  PROVE  /\ DirtyNumbered' /\ NeverUnknown' /\ BatchHeld' /\ DoneStored' /\ OrphansHeld'
         /\ UNCHANGED entry /\ \E p \in Dirty : \E text : remote' = [remote EXCEPT ![p] = text]
<1>0. PICK p : p = First(Waiting)
  OBVIOUS
<1>1. /\ remote' = [remote EXCEPT ![p] = items[p].desired] /\ done' = done \cup {p}
      /\ UNCHANGED <<orphans, items, entry, nextGen>>
  BY <1>0 DEF CommitItemStep, cacheVars
<1>2. p \in DOMAIN items /\ DOMAIN items \subseteq Path
  BY <1>0, FirstIn DEF CommitItemStep, Waiting, TypeInv, TypeOK, FlushOK
<1>3. remote'[p] = items[p].desired /\ \A q \in Path \ {p} : remote'[q] = remote[q]
  BY <1>1, <1>2 DEF TypeInv, TypeOK, RemoteOK
<1>4. DoneStored'
  BY <1>1, <1>2, <1>3 DEF QuietInv, DoneStored, TypeInv, TypeOK, FlushOK
<1>5. p \in Dirty
  BY <1>2 DEF QuietInv, BatchHeld, Dirty
<1>6. DirtyNumbered' /\ NeverUnknown' /\ BatchHeld' /\ OrphansHeld'
  BY <1>1 DEF QuietInv, DirtyNumbered, Numbered, NeverUnknown, BatchHeld, OrphansHeld,
              Cached
<1> QED
  BY <1>1, <1>4, <1>5, <1>6

LEMMA QuietOrphan ==
  ASSUME TypeInv, QuietInv, NEW i \in orphans, OrphanApplies(i)
  PROVE  /\ DirtyNumbered' /\ NeverUnknown' /\ BatchHeld' /\ DoneStored' /\ OrphansHeld'
         /\ UNCHANGED entry /\ \E p \in Dirty : \E text : remote' = [remote EXCEPT ![p] = text]
<1>1. /\ remote' = [remote EXCEPT ![i.path] = i.desired] /\ orphans' = orphans \ {i}
      /\ UNCHANGED <<done, items, entry, nextGen>>
  BY DEF OrphanApplies, cacheVars, flushVars
<1>2. i.path \in Dirty /\ i.path \notin DOMAIN items
  BY DEF QuietInv, OrphansHeld, Dirty
<1>3. \A q \in Path \ {i.path} : remote'[q] = remote[q]
  BY <1>1 DEF TypeInv, TypeOK, RemoteOK
<1>4. DoneStored'
  BY <1>1, <1>2, <1>3 DEF QuietInv, DoneStored, TypeInv, TypeOK, FlushOK
<1>5. DirtyNumbered' /\ NeverUnknown' /\ BatchHeld' /\ OrphansHeld'
  BY <1>1 DEF QuietInv, DirtyNumbered, Numbered, NeverUnknown, BatchHeld, OrphansHeld,
              Cached
<1> QED
  BY <1>1, <1>2, <1>4, <1>5

LEMMA QuietBatch ==
  ASSUME TypeInv, Undisturbed, QuietInv, [Next]_vars
  PROVE  DirtyNumbered' /\ NeverUnknown' /\ BatchHeld' /\ DoneStored' /\ OrphansHeld'
<1>0. /\ "unknown" \notin Faults
      /\ nextGen \in Nat /\ nextGen' \in Nat /\ nextGen' >= nextGen
      /\ \A p \in Cached : entry[p] \in Entry
      /\ \A p \in Cached : p \in Path /\ entry[p].gen \in Nat
      /\ \A c \in Call : call[c].pc # "dwait"
  <2>1. \A p \in Cached : p \in Path /\ entry[p] \in Entry
    BY DEF TypeInv, TypeOK, CacheOK
  <2>2. \A p \in Cached : entry[p].gen \in Nat
    BY <2>1, EditCacheAssumption DEF Entry, Gen, EditCacheAssumption
  <2> QED
    BY <2>1, <2>2, NextGenGrows DEF Undisturbed, QuietInv, CallsQuiet, CallQuiet
<1>1. CASE CommitItemStep
  BY <1>1, QuietCommit
<1>2. CASE \E i \in orphans : OrphanApplies(i)
  BY <1>2, QuietOrphan
<1>3. ASSUME UNCHANGED remote, done' \subseteq done,
             \/ orphans' \subseteq orphans
             \/ GiveUpStep /\ orphans' = orphans \cup GivenUp
      PROVE  DirtyNumbered' /\ NeverUnknown' /\ BatchHeld' /\ DoneStored' /\ OrphansHeld'
  <2>1. CASE GiveUpStep /\ orphans' = orphans \cup GivenUp
    <3>1. items' = EmptyFunction /\ done' = {} /\ UNCHANGED <<entry, nextGen>>
      BY <2>1 DEF GiveUpStep
    <3>2. DOMAIN items' = {}
      BY <3>1 DEF EmptyFunction
    <3>3. ASSUME NEW i \in orphans'
          PROVE  i.path \in Cached /\ entry[i.path].dirty /\ entry[i.path].inFlight # 0
      <4>1. CASE i \in orphans
        BY <4>1 DEF QuietInv, OrphansHeld
      <4>2. CASE i \in GivenUp
        <5>1. PICK p \in Waiting : i.path = p
          BY <4>2 DEF GivenUp
        <5> QED
          BY <1>0, <5>1 DEF Waiting, QuietInv, BatchHeld
      <4> QED
        BY <2>1, <4>1, <4>2
    <3>4. BatchHeld' /\ DoneStored' /\ OrphansHeld'
      BY <3>1, <3>2, <3>3 DEF BatchHeld, DoneStored, OrphansHeld, Cached
    <3>5. DirtyNumbered' /\ NeverUnknown'
      BY <3>1 DEF QuietInv, DirtyNumbered, Numbered, NeverUnknown, Cached
    <3> QED
      BY <3>4, <3>5
  <2> SUFFICES ASSUME orphans' \subseteq orphans
               PROVE  DirtyNumbered' /\ NeverUnknown' /\ BatchHeld' /\ DoneStored'
                        /\ OrphansHeld'
    BY <1>3, <2>1
  <2>2. CASE CleanStep
    <3>1. /\ \A p \in Cached : Held(p) => Keeps(p)
          /\ \A p \in Cached' : \/ p \in Cached /\ Keeps(p)
                                \/ p \notin Cached /\ ~Held(p)' /\ entry'[p].conflict = "none"
          /\ UNCHANGED <<items, nextGen>>
      BY <2>2 DEF CleanStep
    <3>2. BatchHeld' /\ DoneStored' /\ OrphansHeld'
      BY <1>3, <3>1, HeldStays
    <3>3. DirtyNumbered' /\ NeverUnknown'
      BY <3>1 DEF QuietInv, DirtyNumbered, Numbered, NeverUnknown, Held, Keeps
    <3> QED
      BY <3>2, <3>3
  <2>3. CASE DiscardStep
    BY <1>0, <2>3 DEF DiscardStep
  <2>4. CASE RetryStep \/ ApplyStep
    <3>1. /\ Cached' = Cached /\ \A p \in Cached : entry'[p] = entry[p]
          /\ UNCHANGED <<items, nextGen>>
      BY <2>4 DEF RetryStep, ApplyStep, Cached, QuietInv, NeverUnknown
    <3>2. BatchHeld' /\ DoneStored' /\ OrphansHeld'
      BY <1>3, <3>1, HeldStays DEF Keeps
    <3>3. DirtyNumbered' /\ NeverUnknown'
      BY <3>1 DEF QuietInv, DirtyNumbered, Numbered, NeverUnknown
    <3> QED
      BY <3>2, <3>3
  <2>5. CASE GiveUpStep
    <3>1. items' = EmptyFunction /\ done' = {} /\ UNCHANGED <<entry, nextGen>>
      BY <2>5 DEF GiveUpStep
    <3>2. DOMAIN items' = {}
      BY <3>1 DEF EmptyFunction
    <3> QED
      BY <3>1, <3>2 DEF QuietInv, DirtyNumbered, Numbered, NeverUnknown, BatchHeld,
                        DoneStored, OrphansHeld, Cached
  <2>6. CASE SettleStep
    <3>1. PICK successes \in SUBSET done, error \in ErrorKind \cup {"none"} :
            Settle(successes, error) /\ error # "OutcomeUnknown"
      BY <1>0, <2>6 DEF SettleStep
    <3>2. items' = EmptyFunction /\ done' = {} /\ UNCHANGED nextGen /\ DOMAIN items' = {}
      BY <3>1 DEF Settle, EmptyFunction
    <3>3. /\ Cached' = Cached
          /\ \A p \in Cached : /\ entry'[p].gen = entry[p].gen
                               /\ entry'[p].dirty => entry[p].dirty
                               /\ entry'[p].conflict \in {entry[p].conflict, error}
                               /\ p \notin DOMAIN items => entry'[p] = entry[p]
      BY <3>1, SettledEntries
    <3>4. DirtyNumbered' /\ NeverUnknown'
      BY <3>1, <3>2, <3>3 DEF QuietInv, DirtyNumbered, Numbered, NeverUnknown
    <3>5. OrphansHeld'
      BY <3>2, <3>3 DEF QuietInv, OrphansHeld
    <3>6. BatchHeld' /\ DoneStored'
      BY <3>2 DEF BatchHeld, DoneStored
    <3> QED
      BY <3>4, <3>5, <3>6
  <2>7. ASSUME NEW c \in Call, EditStep(c)
        PROVE  DirtyNumbered' /\ NeverUnknown' /\ BatchHeld' /\ DoneStored' /\ OrphansHeld'
    <3>1. PICK batch : batch = DOMAIN call[c].plan
      OBVIOUS
    <3>2. /\ batch \subseteq Cached
          /\ \A p \in batch :
               /\ p \in Cached' /\ entry'[p].dirty
               /\ entry'[p].inFlight = entry[p].inFlight
               /\ entry'[p].conflict = entry[p].conflict
               /\ entry'[p].gen \in nextGen .. nextGen' - 1
          /\ \A p \in Cached \ batch : Held(p) => Keeps(p)
          /\ \A p \in Cached' \ batch : p \in Cached /\ Keeps(p)
          /\ UNCHANGED items
      BY <2>7, <3>1 DEF EditStep, PlanCurrent
    <3>3. DirtyNumbered'
      <4>1. ASSUME NEW p \in Cached', entry'[p].dirty PROVE Numbered(p)'
        <5>1. nextGen \in 1 .. MaxGen + 1 /\ MaxGen \in Nat
          BY EditCacheAssumption DEF EditCacheAssumption, TypeInv, TypeOK, CacheOK
        <5>2. CASE p \in batch
          BY <1>0, <3>2, <5>1, <5>2 DEF Numbered
        <5>3. CASE p \notin batch
          <6>1. Numbered(p) /\ entry'[p].gen = entry[p].gen
            BY <3>2, <4>1, <5>3 DEF QuietInv, DirtyNumbered, Keeps
          <6> QED
            BY <1>0, <6>1 DEF Numbered
        <5> QED
          BY <5>2, <5>3
      <4> QED
        BY <4>1 DEF DirtyNumbered
    <3>4. NeverUnknown'
      BY <3>2 DEF QuietInv, NeverUnknown, Keeps
    <3>5. BatchHeld'
      <4>1. ASSUME NEW p \in DOMAIN items
            PROVE  /\ p \in Cached' /\ entry'[p].dirty /\ entry'[p].inFlight = items[p].gen
                   /\ items[p].gen \in 1 .. nextGen' - 1
                   /\ entry'[p].gen = items[p].gen => entry'[p].desired = items[p].desired
        <5>1. /\ p \in Cached /\ entry[p].dirty /\ entry[p].inFlight = items[p].gen
              /\ items[p].gen \in 1 .. nextGen - 1
              /\ entry[p].gen = items[p].gen => entry[p].desired = items[p].desired
          BY DEF QuietInv, BatchHeld
        <5>2. items[p].gen \in 1 .. nextGen' - 1
          BY <1>0, <5>1
        <5>3. CASE p \in batch
          <6>1. entry'[p].gen # items[p].gen
            BY <1>0, <3>2, <5>1, <5>3
          <6> QED
            BY <3>2, <5>1, <5>2, <5>3, <6>1
        <5>4. CASE p \notin batch
          BY <3>2, <5>1, <5>2, <5>4 DEF Held, Keeps
        <5> QED
          BY <5>3, <5>4
      <4> QED
        BY <3>2, <4>1 DEF BatchHeld
    <3>6. DoneStored'
      BY <1>3, <3>2 DEF QuietInv, DoneStored
    <3>7. OrphansHeld'
      BY <1>3, <3>2 DEF QuietInv, OrphansHeld, Held, Keeps
    <3> QED
      BY <3>3, <3>4, <3>5, <3>6, <3>7
  <2>8. ASSUME NEW o \in Flusher, FlushBegin(o)
        PROVE  DirtyNumbered' /\ NeverUnknown' /\ BatchHeld' /\ DoneStored' /\ OrphansHeld'
    <3>1. /\ items' = [p \in Flushable |-> [base |-> entry[p].base,
                         desired |-> entry[p].desired, gen |-> entry[p].gen]]
          /\ done' = {}
          /\ entry' = [p \in Cached |-> IF p \in Flushable
                         THEN [entry[p] EXCEPT !.inFlight = entry[p].gen] ELSE entry[p]]
          /\ UNCHANGED nextGen
      BY <2>8 DEF FlushBegin
    <3>2. /\ Cached' = Cached
          /\ \A p \in Cached : /\ entry'[p].gen = entry[p].gen
                               /\ entry'[p].desired = entry[p].desired
                               /\ entry'[p].dirty = entry[p].dirty
                               /\ entry'[p].conflict = entry[p].conflict
          /\ \A p \in Flushable : /\ p \in Cached /\ entry[p].dirty /\ entry[p].inFlight = 0
                                  /\ entry'[p].inFlight = entry[p].gen
          /\ \A p \in Cached \ Flushable : entry'[p].inFlight = entry[p].inFlight
      <4>1. Flushable \subseteq Cached
        BY DEF Flushable
      <4> QED
        BY <1>0, <3>1, <4>1 DEF Entry, Cached, Flushable
    <3>3. DirtyNumbered' /\ NeverUnknown'
      BY <3>1, <3>2 DEF QuietInv, DirtyNumbered, Numbered, NeverUnknown
    <3>4. DOMAIN items' = Flushable /\ \A p \in Flushable : /\ items'[p].gen = entry[p].gen
                                                            /\ items'[p].desired = entry[p].desired
      BY <3>1
    <3>5. BatchHeld' /\ DoneStored'
      <4>1. ASSUME NEW p \in Flushable
            PROVE  /\ p \in Cached' /\ entry'[p].dirty /\ entry'[p].inFlight = items'[p].gen
                   /\ items'[p].gen \in 1 .. nextGen' - 1
                   /\ entry'[p].desired = items'[p].desired
        <5>1. entry[p].gen \in 1 .. nextGen - 1 /\ UNCHANGED nextGen
          BY <3>1, <3>2 DEF QuietInv, DirtyNumbered, Numbered
        <5>2. /\ p \in Cached' /\ entry'[p].dirty /\ entry'[p].inFlight = entry[p].gen
              /\ entry'[p].desired = entry[p].desired
          BY <3>2
        <5> QED
          BY <3>4, <5>1, <5>2
      <4> QED
        BY <3>1, <3>4, <4>1 DEF BatchHeld, DoneStored
    <3>6. OrphansHeld'
      <4>1. ASSUME NEW i \in orphans'
            PROVE  /\ i.path \in Cached' /\ entry'[i.path].dirty
                   /\ entry'[i.path].inFlight # 0 /\ i.path \notin Flushable
        BY <3>2 DEF QuietInv, OrphansHeld
      <4> QED
        BY <3>4, <4>1 DEF OrphansHeld
    <3> QED
      BY <3>3, <3>5, <3>6
  <2> QED
    BY <2>2, <2>3, <2>4, <2>5, <2>6, <2>7, <2>8, NextStepKind DEF StepKind
<1> QED
  BY <1>1, <1>2, <1>3, QuietMoves DEF QuietInv

LEMMA InitQuiet == Undisturbed /\ Init => QuietInv
BY DEF Init, QuietInv, CallsQuiet, CallQuiet, IdleCall, DirtyNumbered, NeverUnknown,
       BatchHeld, DoneStored, OrphansHeld, Cached, EmptyFunction

LEMMA QuietInvStep ==
  ASSUME TypeInv, BytesAccounted, Undisturbed, QuietInv, [Next]_vars
  PROVE  QuietInv'
BY QuietStep, QuietBatch DEF QuietInv

\* A client sees nothing but edits.
LEMMA QuietText ==
  ASSUME TypeInv, Undisturbed, QuietInv, [Next]_vars
  PROVE  Text' = Text \/ SharedFiles!Edit
<1>0. TypeInv' /\ Dirty \subseteq Path /\ Dirty' \subseteq Path
  BY StepTypeInv, TextType
<1>1. ASSUME UNCHANGED entry, \E p \in Dirty : \E text : remote' = [remote EXCEPT ![p] = text]
      PROVE  Text' = Text
  <2>1. PICK p \in Dirty : \E text : remote' = [remote EXCEPT ![p] = text]
    BY <1>1
  <2>2. Dirty' = Dirty /\ \A q \in Path \ {p} : remote'[q] = remote[q]
    BY <1>1, <2>1 DEF Dirty, Cached, TypeInv, TypeOK, RemoteOK
  <2>3. \A q \in Path : Text'[q] = Text[q]
    BY <1>1, <2>1, <2>2, TextOf
  <2> QED
    BY <1>0, <2>3, SameText
<1>2. CASE CommitItemStep \/ \E i \in orphans : OrphanApplies(i)
  BY <1>1, <1>2, QuietCommit, QuietOrphan
<1>3. ASSUME UNCHANGED remote PROVE Text' = Text \/ SharedFiles!Edit
  <2>1. ASSUME Dirty' = Dirty, \A p \in Dirty : entry'[p].desired = entry[p].desired
        PROVE  Text' = Text
    <3>1. \A p \in Path : Text'[p] = Text[p]
      BY <1>3, <2>1, TextOf
    <3> QED
      BY <1>0, <3>1, SameText
  <2>2. CASE CleanStep
    <3>1. Dirty' = Dirty /\ \A p \in Dirty : entry'[p] = entry[p]
      BY <2>2 DEF CleanStep, Keeps, Held, Dirty
    <3> QED
      BY <2>1, <3>1
  <2>3. CASE DiscardStep
    BY <2>3 DEF DiscardStep, QuietInv, CallsQuiet, CallQuiet
  <2>4. CASE RetryStep \/ ApplyStep \/ GiveUpStep
    <3>1. Cached' = Cached /\ \A p \in Cached : entry'[p] = entry[p]
      BY <2>4 DEF RetryStep, ApplyStep, GiveUpStep, Cached, QuietInv, NeverUnknown
    <3> QED
      BY <2>1, <3>1 DEF Dirty
  <2>5. ASSUME NEW o \in Flusher, FlushBegin(o) PROVE Text' = Text
    <3>1. entry' = [p \in Cached |-> IF p \in Flushable
                      THEN [entry[p] EXCEPT !.inFlight = entry[p].gen] ELSE entry[p]]
      BY <2>5 DEF FlushBegin
    <3>2. \A p \in Cached : entry[p] \in Entry
      BY DEF TypeInv, TypeOK, CacheOK
    <3>3. Cached' = Cached /\ \A p \in Cached : /\ entry'[p].dirty = entry[p].dirty
                                                /\ entry'[p].desired = entry[p].desired
      BY <3>1, <3>2 DEF Entry, Cached
    <3> QED
      BY <2>1, <3>3 DEF Dirty
  <2>6. CASE SettleStep
    <3>1. PICK successes \in SUBSET done, error \in ErrorKind \cup {"none"} :
            Settle(successes, error)
      BY <2>6 DEF SettleStep
    <3>2. /\ Cached' = Cached
          /\ \A p \in Cached : /\ entry'[p].desired = entry[p].desired
                               /\ entry'[p].dirty => entry[p].dirty
                               /\ entry[p].dirty => \/ entry'[p].dirty
                                                    \/ /\ p \in successes
                                                       /\ entry[p].gen = items[p].gen
      BY <3>1, SettledEntries
    <3>3. ASSUME NEW p \in Path PROVE Text'[p] = Text[p]
      <4>1. CASE p \in Dirty'
        BY <3>2, <4>1, TextOf DEF Dirty
      <4>2. CASE p \notin Dirty
        BY <1>3, <3>2, <4>2, TextOf DEF Dirty
      <4>3. CASE p \in Dirty /\ p \notin Dirty'
        <5>1. p \in done /\ entry[p].gen = items[p].gen
          BY <3>2, <4>3 DEF Dirty
        <5>2. remote[p] = items[p].desired /\ entry[p].desired = items[p].desired
          BY <5>1 DEF QuietInv, DoneStored, BatchHeld, TypeInv, TypeOK, FlushOK
        <5> QED
          BY <1>3, <4>3, <5>2, TextOf
      <4> QED
        BY <4>1, <4>2, <4>3
    <3> QED
      BY <1>0, <3>3, SameText
  <2>7. ASSUME NEW c \in Call, EditStep(c) PROVE Text' = Text \/ SharedFiles!Edit
    <3> DEFINE batch == DOMAIN call[c].plan
    <3>1. batch \in SUBSET Path
      BY PlanDomain DEF TypeInv, TypeOK, TaskOK, CallState
    <3>2. /\ Dirty' = Dirty \cup batch
          /\ \A p \in Dirty \ batch : entry'[p] = entry[p]
      BY <2>7 DEF EditStep, Keeps, Held, Dirty
    <3> QED
      BY <1>0, <1>3, <3>1, <3>2, BufferRefines
  <2> QED
    BY <2>2, <2>3, <2>4, <2>5, <2>6, <2>7, NextStepKind DEF StepKind
<1> QED
  BY <1>2, <1>3, QuietMoves DEF QuietInv

LEMMA QuietRefines ==
  ASSUME TypeInv, Undisturbed, DiscardAsked, QuietInv, [Next]_vars
  PROVE  Files!Next \/ UNCHANGED <<Text, Dirty>>
<1>1. CASE SharedFiles!Edit
  BY <1>1 DEF SharedFiles!Edit, Files!Edit, SharedFiles!Keeps, Files!Keeps, Files!Next
<1>2. CASE Text' = Text
  <2>0. Text' \in [Path -> Content]
    BY StepTypeInv, TextType
  <2>1. ASSUME NEW S \in SUBSET Dirty, S # {}, Dirty' = Dirty \ S
        PROVE  Files!Store
    BY <1>2, <2>0, <2>1 DEF Files!Store, Files!Keeps
  <2>2. CASE SharedFiles!Store
    BY <2>1, <2>2 DEF SharedFiles!Store, Files!Next
  <2>3. CASE SharedFiles!Write
    BY <1>2, <2>3 DEF SharedFiles!Write
  <2>4. CASE SharedFiles!Discard
    <3>1. Dirty' = Dirty \ Dirty /\ Dirty # {}
      BY <2>4 DEF SharedFiles!Discard
    <3> QED
      BY <2>1, <3>1 DEF Files!Next
  <2> QED
    BY <1>1, <1>2, <2>2, <2>3, <2>4, StepRefines DEF SharedFiles!Next
<1> QED
  BY <1>1, <1>2, QuietText

\* With nobody else writing, each file a client sees changes only by an edit of
\* it, at once with its whole batch.
LEMMA QuietWriteBackHides ==
  ASSUME Undisturbed
  PROVE  Spec => WriteBackInvisible
<1>1. /\ TypeInv /\ BytesAccounted /\ DiscardAsked /\ QuietInv /\ [Next]_vars
           => DiscardAsked' /\ QuietInv' /\ [Files!Next]_Files!vars
  BY QuietInvStep, QuietRefines, DiscardAskedStep DEF Files!vars
<1>2. Init => Files!Init
  BY InitRefines DEF SharedFiles!Init, Files!Init
<1>3. Init => QuietInv
  BY InitQuiet
<1> QED
  BY <1>1, <1>2, <1>3, BytesAlwaysAccounted, InitTypeInv, StepTypeInv, InitRefines, PTL
     DEF Spec, WriteBackInvisible, Files!Spec

\* The same as the runs state it: whoever else writes the remote files, and with
\* a stored text that stays what it is when nobody does.
THEOREM WriteBackHides == Spec => WriteBackInvisible
<1>1. CASE Undisturbed
  BY <1>1, QuietWriteBackHides
<1>2. CASE ~Undisturbed
  <2>1. SharedFiles!Init => Files!Init
    BY DEF SharedFiles!Init, Files!Init
  <2>2. SharedFiles!Next => Files!Next
    BY <1>2 DEF SharedFiles!Next, Files!Next, SharedFiles!Edit, Files!Edit,
       SharedFiles!Store, Files!Store, SharedFiles!Write, Files!Write,
       SharedFiles!Discard, Files!Discard, SharedFiles!Keeps, Files!Keeps
  <2> QED
    BY <2>1, <2>2, CacheIsInvisible, PTL
       DEF WriteBackInvisible, SharedFiles!Spec, Files!Spec, SharedFiles!vars, Files!vars
<1> QED
  BY <1>1, <1>2

-----------------------------------------------------------------------------
(* The base that guards a buffered text.  Two facts of a single call's plan *)
(* carry it: what the plan names is not loaded again, and an entry that has *)
(* kept its generation has kept its text.                                   *)
Editing == {"lookup", "load", "loadwait", "fetch", "insert", "lookup2", "mutate"}

PlanStays(s, t) ==
  t.pc \in Editing =>
    \/ t.plan = EmptyFunction
    \/ /\ s.pc \in Editing /\ t.todo \subseteq s.todo
       /\ DOMAIN t.plan \subseteq DOMAIN s.plan \cup (s.todo \ t.todo)
       /\ \A p \in DOMAIN t.plan :
            \/ p \in DOMAIN s.plan /\ t.plan[p] = s.plan[p]
            \/ /\ p \in Cached /\ UNCHANGED entry
               /\ t.plan[p].gen = entry[p].gen /\ t.plan[p].text = entry[p].desired

LEMMA OnePlanStays ==
  ASSUME TypeInv, NEW c \in Call, NEW t, PlanStays(call[c], t),
         call' = [call EXCEPT ![c] = t]
  PROVE  \A d \in Call : PlanStays(call[d], call'[d])
<1>1. call \in [Call -> CallState]
  BY DEF TypeInv, TypeOK, TaskOK
<1>2. call'[c] = t /\ \A d \in Call \ {c} : call'[d] = call[d]
  BY <1>1
<1> QED
  BY <1>2 DEF PlanStays

LEMMA ReturnPlanStays ==
  ASSUME TypeInv, NEW c \in Call, Return(c)
  PROVE  \A d \in Call : PlanStays(call[d], call'[d])
<1>1. call' = [call EXCEPT ![c] = IdleCall] /\ PlanStays(call[c], IdleCall)
  BY DEF Return, PlanStays, IdleCall, Editing
<1> QED
  BY <1>1, OnePlanStays

LEMMA GotoPlanStays ==
  ASSUME TypeInv, NEW c \in Call, NEW pc, Goto(c, pc),
         pc \in Editing => call[c].pc \in Editing
  PROVE  \A d \in Call : PlanStays(call[d], call'[d])
<1>0. PICK t : t = [call[c] EXCEPT !.pc = pc]
  OBVIOUS
<1>1. call[c] \in CallState /\ call \in [Call -> CallState]
  BY DEF TypeInv, TypeOK, TaskOK
<1>2. t.pc = pc /\ t.todo = call[c].todo /\ t.plan = call[c].plan
  BY <1>0, <1>1 DEF CallState
<1>3. call' = [call EXCEPT ![c] = t]
  BY <1>0, <1>1 DEF Goto
<1>4. PlanStays(call[c], t)
  BY <1>2 DEF PlanStays
<1> QED
  BY <1>3, <1>4, OnePlanStays

LEMMA LoadedPlanStays ==
  ASSUME TypeInv, NEW c \in Call, call[c].pc \in Editing, UNCHANGED entry,
         NEW p \in Cached \cap call[c].todo, Loaded(c, p)
  PROVE  \A d \in Call : PlanStays(call[d], call'[d])
<1>0. call[c] \in CallState /\ call \in [Call -> CallState]
  BY DEF TypeInv, TypeOK, TaskOK
<1>1. PICK rest, pc, seen, plan, t :
        /\ rest = call[c].todo \ {p}
        /\ pc = (IF rest = {} THEN "mutate" ELSE "lookup")
        /\ seen = [gen |-> entry[p].gen, text |-> entry[p].desired]
        /\ plan = [q \in DOMAIN call[c].plan \cup {p} |->
                     IF q = p THEN seen ELSE call[c].plan[q]]
        /\ t = [call[c] EXCEPT !.todo = rest, !.plan = plan, !.pc = pc]
  OBVIOUS
<1>2. call' = [call EXCEPT ![c] = t]
  BY <1>0, <1>1 DEF Loaded
<1>3. t.plan = plan /\ t.todo = rest /\ DOMAIN plan = DOMAIN call[c].plan \cup {p}
  BY <1>0, <1>1 DEF CallState
<1>4. ASSUME NEW q \in DOMAIN plan
      PROVE  \/ q \in DOMAIN call[c].plan /\ plan[q] = call[c].plan[q]
             \/ /\ q \in Cached
                /\ plan[q].gen = entry[q].gen /\ plan[q].text = entry[q].desired
  BY <1>1
<1>5. PlanStays(call[c], t)
  BY <1>1, <1>3, <1>4 DEF PlanStays
<1> QED
  BY <1>2, <1>5, OnePlanStays

\* A state outside of an edit, or at its beginning.
LEMMA OutsidePlanStays ==
  ASSUME TypeInv, NEW c \in Call, NEW t,
         t.pc \notin Editing \/ t.plan = EmptyFunction,
         call' = [call EXCEPT ![c] = t]
  PROVE  \A d \in Call : PlanStays(call[d], call'[d])
<1>1. PlanStays(call[c], t)
  BY DEF PlanStays
<1> QED
  BY <1>1, OnePlanStays

LEMMA CallPlanStays ==
  ASSUME TypeInv, NEW c \in Call, CallStart(c) \/ CallStep(c) \/ CallFault(c)
  PROVE  \A d \in Call : PlanStays(call[d], call'[d])
<1> DEFINE Goal == \A d \in Call : PlanStays(call[d], call'[d])
<1>0. call \in [Call -> CallState] /\ call[c] \in CallState /\ CallTodo(call[c])
  BY DEF TypeInv, TypeOK, TaskOK, TodoOK
<1>1. ASSUME UNCHANGED call PROVE Goal
  BY <1>1 DEF PlanStays
<1>2. ASSUME ToImmediate(c) PROVE Goal
  <2>1. PICK t : t = [call[c] EXCEPT !.pc = "iflush",
                        !.todo = call[c].todo \cup DOMAIN call[c].plan,
                        !.plan = EmptyFunction]
    OBVIOUS
  <2>2. call' = [call EXCEPT ![c] = t] /\ t.plan = EmptyFunction
    BY <1>0, <1>2, <2>1 DEF ToImmediate, CallState
  <2> QED
    BY <2>2, OutsidePlanStays
<1>3. ASSUME NEW p \in Path, ReadLookup(c, p) PROVE Goal
  <2>1. PICK t : t = [IdleCall EXCEPT !.pc = "rfetch", !.todo = {p}]
    OBVIOUS
  <2>2. t.pc \notin Editing /\ (UNCHANGED call \/ call' = [call EXCEPT ![c] = t])
    BY <1>3, <2>1 DEF ReadLookup, IdleCall, Editing
  <2> QED
    BY <1>1, <2>2, OutsidePlanStays
<1>4. ASSUME NEW batch \in SUBSET Path, EditCall(c, batch) PROVE Goal
  <2>1. PICK t : t = [IdleCall EXCEPT !.op = "edit", !.pc = "lookup", !.todo = batch]
    OBVIOUS
  <2>2. t.plan = EmptyFunction /\ call' = [call EXCEPT ![c] = t]
    BY <1>4, <2>1 DEF EditCall, IdleCall
  <2> QED
    BY <2>2, OutsidePlanStays
<1>5. ASSUME NEW op, NEW pc \in {"bwait", "swait", "dwait"}, NEW before,
             call' = [call EXCEPT ![c] = [IdleCall EXCEPT !.op = op, !.pc = pc,
                                                          !.before = before]]
      PROVE  Goal
  <2>1. PICK t : t = [IdleCall EXCEPT !.op = op, !.pc = pc, !.before = before]
    OBVIOUS
  <2>2. t.pc \notin Editing /\ call' = [call EXCEPT ![c] = t]
    BY <1>5, <2>1 DEF IdleCall, Editing
  <2> QED
    BY <2>2, OutsidePlanStays
<1>6. ASSUME CallStart(c) PROVE Goal
  <2>1. ASSUME NEW op \in {"observe", "run"}, BarrierCall(c, op) PROVE Goal
    BY <1>5, <2>1 DEF BarrierCall
  <2>2. ASSUME SyncCall(c) \/ DiscardCall(c) PROVE Goal
    <3>1. PICK op \in AllOps, pc \in {"swait", "dwait"} :
            call' = [call EXCEPT ![c] = [IdleCall EXCEPT !.op = op, !.pc = pc]]
      BY <2>2 DEF SyncCall, DiscardCall, AllOps
    <3>2. PICK t : t = [IdleCall EXCEPT !.op = op, !.pc = pc]
      OBVIOUS
    <3>3. t.pc \notin Editing /\ call' = [call EXCEPT ![c] = t]
      BY <3>1, <3>2 DEF IdleCall, Editing
    <3> QED
      BY <3>3, OutsidePlanStays
  <2> QED
    BY <1>3, <1>4, <1>6, <2>1, <2>2 DEF CallStart
<1>7. ASSUME ReadRemote(c) PROVE Goal
  <2>1. PICK t : t = [call[c] EXCEPT !.pc = "rinsert",
                                     !.snap = remote[First(call[c].todo)]]
    OBVIOUS
  <2>2. t.pc \notin Editing
    BY <1>0, <2>1 DEF CallState, Editing
  <2>3. Return(c) \/ call' = [call EXCEPT ![c] = t]
    BY <1>0, <1>7, <2>1 DEF ReadRemote, Return
  <2> QED
    BY <2>2, <2>3, ReturnPlanStays, OutsidePlanStays
<1>8. ASSUME fetch_complete(c) PROVE Goal
  <2>1. PICK t : t = [call[c] EXCEPT !.pc = "insert",
                                     !.snap = remote[First(call[c].todo)]]
    OBVIOUS
  <2>2. /\ t.plan = call[c].plan /\ t.todo = call[c].todo
        /\ call' = [call EXCEPT ![c] = t] /\ call[c].pc \in Editing
    BY <1>0, <1>8, <2>1 DEF fetch_complete, CallState, Editing
  <2>3. PlanStays(call[c], t)
    BY <2>2 DEF PlanStays
  <2> QED
    BY <2>2, <2>3, OnePlanStays
<1>9. ASSUME lookup_entry(c) PROVE Goal
  <2>1. UNCHANGED entry /\ call[c].pc \in {"lookup", "lookup2"}
    BY <1>9 DEF lookup_entry
  <2>2. First(call[c].todo) \in call[c].todo
    BY <1>0, <2>1, FirstIn DEF CallTodo, Loading, CallState
  <2>3. \/ Return(c) \/ Goto(c, "load") \/ ToImmediate(c)
        \/ First(call[c].todo) \in Cached /\ Loaded(c, First(call[c].todo))
    BY <1>9 DEF lookup_entry
  <2> QED
    BY <1>2, <2>1, <2>2, <2>3, ReturnPlanStays, GotoPlanStays, LoadedPlanStays
       DEF Editing
<1>10. ASSUME lookup_complete(c) \/ LoadLock(c) \/ load_complete(c) PROVE Goal
  BY <1>10, GotoPlanStays DEF lookup_complete, LoadLock, load_complete, Editing
<1>11. ASSUME flush_barrier(c) \/ retry_outcome_unknown_host(c) PROVE Goal
  BY <1>11, GotoPlanStays DEF flush_barrier, retry_outcome_unknown_host, Editing
<1>12. ASSUME \/ cache_clean_if_absent(c) \/ EditRejected(c) \/ MutateStale(c)
              \/ CommandEnds(c) \/ discard_host_edits(c) \/ CallFault(c)
              \/ \E text \in Content : ImmediateFails(c, text)
       PROVE  Goal
  BY <1>12, ReturnPlanStays DEF cache_clean_if_absent, EditRejected, MutateStale,
     CommandEnds, discard_host_edits, CallFault, FetchFails, BarrierLeave, CommandFails,
     AbortCall, ImmediateFails
<1>13. ASSUME NEW want \in [DOMAIN call[c].plan -> Content], NEW bytes \in Payload,
              NEW number \in Numbering(DOMAIN call[c].plan),
              mutate_prepared_batch(c, want, bytes, number)
       PROVE  Goal
  <2>1. Return(c) \/ ToImmediate(c)
    BY <1>13 DEF mutate_prepared_batch
  <2> QED
    BY <1>2, <2>1, ReturnPlanStays
<1>14. ASSUME MutateTooLarge(c) PROVE Goal
  BY <1>2, <1>14 DEF MutateTooLarge
<1>15. ASSUME ImmediateSnapshot(c) PROVE Goal
  <2>1. PICK todo, plan, pc :
          /\ pc \in {"isnap", "iwrite"}
          /\ call' = [call EXCEPT ![c].plan = plan, ![c].todo = todo, ![c].pc = pc]
    BY <1>15 DEF ImmediateSnapshot
  <2>2. PICK t : t = [call[c] EXCEPT !.plan = plan, !.todo = todo, !.pc = pc]
    OBVIOUS
  <2>3. t.pc \notin Editing /\ call' = [call EXCEPT ![c] = t]
    BY <1>0, <2>1, <2>2 DEF CallState, Editing
  <2> QED
    BY <2>3, OutsidePlanStays
<1>16. ASSUME NEW text \in Content, ImmediateWrite(c, text) PROVE Goal
  <2>1. PICK t : t = [call[c] EXCEPT !.todo = @ \ {First(call[c].todo)}]
    OBVIOUS
  <2>2. Return(c) \/ call' = [call EXCEPT ![c] = t]
    BY <1>0, <1>16, <2>1 DEF ImmediateWrite
  <2>3. t.pc \notin Editing
    BY <1>0, <1>16, <2>1 DEF ImmediateWrite, CallState, Editing
  <2> QED
    BY <2>2, <2>3, ReturnPlanStays, OutsidePlanStays
<1> HIDE DEF Goal
<1>17. Goal
  BY <1>6, <1>7, <1>8, <1>9, <1>10, <1>11, <1>12, <1>13, <1>14, <1>15, <1>16
     DEF CallStep
<1> QED
  BY <1>17 DEF Goal

LEMMA EditingMoves ==
  ASSUME TypeInv, [Next]_vars
  PROVE  \A d \in Call : PlanStays(call[d], call'[d])
<1>1. CASE UNCHANGED call
  BY <1>1 DEF PlanStays
<1>2. ASSUME NEW o, NEW result, NEW woken, Resume(o, result, woken), NEW d \in Call
      PROVE  PlanStays(call[d], call'[d])
  <2>0. call[d] \in CallState
    BY DEF TypeInv, TypeOK, TaskOK
  <2>1. call'[d] = CallAfterFlush(call[d], result) \/ call'[d] = call[d]
    BY <1>2 DEF Resume
  <2>2. call'[d] = call[d] \/ call'[d].pc \notin Editing
    BY <2>0, <2>1 DEF CallAfterFlush, CallState, IdleCall, Editing
  <2> QED
    BY <2>2 DEF PlanStays
<1>3. ASSUME NEW o \in Flusher, FlushNothing(o)
      PROVE  \A d \in Call : PlanStays(call[d], call'[d])
  BY <1>2, <1>3 DEF FlushNothing
<1>4. CASE FlushSucceeds \/ FlushConflicts \/ FlushFault
  <2>1. PICK successes, error : Settle(successes, error)
    BY <1>4 DEF FlushSucceeds, FlushConflicts, FlushFault, FlushFails, FlushUnknown
  <2> QED
    BY <1>2, <2>1 DEF Settle
<1>5. CASE \/ TimerCheck \/ TimerFires \/ shutdown \/ CommitItemStep \/ Environment
           \/ \E o \in Flusher : FlushBegin(o)
           \/ UNCHANGED vars
  BY <1>1, <1>5 DEF TimerCheck, TimerFires, shutdown, CommitItemStep, Environment,
     CommandWrites, ForeignWrite, OrphanApplies, OrphansEnd, CloseInput, FlushBegin,
     vars, taskVars
<1> QED
  BY <1>3, <1>4, <1>5, CallPlanStays DEF Next, FlushStep

\* Only a load puts a path into the cache: the one it was asked for, as it found it.
LEMMA NewEntries ==
  ASSUME TypeInv, [Next]_vars, NEW p \in Cached' \ Cached
  PROVE  \E c \in Call : /\ p = First(call[c].todo) /\ call[c].todo # {}
                         /\ entry'[p].desired = call[c].snap
                         /\ \/ call[c].pc = "insert" /\ Goto(c, "lookup2")
                            \/ call[c].pc = "rinsert" /\ Return(c)
<1>0. Cached' \subseteq Cached => FALSE
  OBVIOUS
<1>1. ASSUME NEW S, entry' = Without(S) PROVE FALSE
  BY <1>0, <1>1 DEF Without, Restrict, Cached
<1>2. ASSUME UNCHANGED entry PROVE FALSE
  BY <1>0, <1>2 DEF Cached
<1>3. ASSUME NEW c \in Call, cache_clean_if_absent(c) \/ load_complete(c)
      PROVE  /\ p = First(call[c].todo) /\ call[c].todo # {}
             /\ entry'[p].desired = call[c].snap
             /\ \/ call[c].pc = "insert" /\ Goto(c, "lookup2")
                \/ call[c].pc = "rinsert" /\ Return(c)
  <2>0. \/ call[c].pc = "insert" /\ Goto(c, "lookup2")
        \/ call[c].pc = "rinsert" /\ Return(c)
    BY <1>3 DEF cache_clean_if_absent, load_complete
  <2>1. InsertClean(First(call[c].todo), call[c].snap)
    BY <1>2, <1>3 DEF cache_clean_if_absent, load_complete
  <2>2. /\ Cached' \subseteq Cached \cup {First(call[c].todo)}
        /\ entry'[First(call[c].todo)].desired = call[c].snap
    BY <1>1, <1>2, <2>1 DEF InsertClean, Cached
  <2>3. call[c].todo # {}
    BY <2>0 DEF TypeInv, TodoOK, CallTodo, Loading
  <2>4. p = First(call[c].todo)
    BY <2>2
  <2> QED
    BY <2>0, <2>2, <2>3, <2>4
<1>4. ASSUME NEW c \in Call, \/ CallStart(c) \/ CallFault(c)
                             \/ ReadRemote(c) \/ lookup_entry(c) \/ lookup_complete(c)
                             \/ LoadLock(c) \/ fetch_complete(c)
      PROVE  FALSE
  BY <1>2, <1>4 DEF CallStart, CallFault, ReadLookup, EditCall, BarrierCall, SyncCall,
     DiscardCall, FetchFails, BarrierLeave, CommandFails, AbortCall, ReadRemote,
     lookup_entry, lookup_complete, LoadLock, fetch_complete, cacheVars
<1>5. ASSUME NEW c \in Call, \/ EditRejected(c) \/ MutateTooLarge(c) \/ MutateStale(c)
                             \/ ImmediateSnapshot(c) \/ flush_barrier(c)
                             \/ \E text \in Content : ImmediateFails(c, text)
      PROVE  FALSE
  BY <1>2, <1>5 DEF EditRejected, MutateTooLarge, MutateStale, ImmediateSnapshot,
     flush_barrier, ImmediateFails, cacheVars
<1>6. ASSUME NEW c \in Call, \/ \E text \in Content : ImmediateWrite(c, text)
                             \/ CommandEnds(c) \/ discard_host_edits(c)
      PROVE  FALSE
  BY <1>1, <1>2, <1>6 DEF ImmediateWrite, CommandEnds, discard_host_edits,
     InvalidateClean, cacheVars
<1>7. ASSUME NEW c \in Call, retry_outcome_unknown_host(c) PROVE FALSE
  BY <1>0, <1>7 DEF retry_outcome_unknown_host, Cached
<1>8. ASSUME NEW c \in Call, NEW want \in [DOMAIN call[c].plan -> Content],
             NEW bytes \in Payload, NEW number \in Numbering(DOMAIN call[c].plan),
             mutate_prepared_batch(c, want, bytes, number)
      PROVE  FALSE
  <2>1. PICK S : Cached' = Cached \ S
    BY <1>8 DEF mutate_prepared_batch, Without, Restrict, Cached
  <2> QED
    BY <1>0, <2>1
<1>9. ASSUME FlushSucceeds \/ FlushConflicts \/ FlushFault PROVE FALSE
  <2>1. PICK successes, error : Settle(successes, error)
    BY <1>9 DEF FlushSucceeds, FlushConflicts, FlushFault, FlushFails, FlushUnknown
  <2> QED
    BY <1>0, <2>1 DEF Settle, Cached
<1>10. ASSUME NEW o \in Flusher, FlushNothing(o) \/ FlushBegin(o) PROVE FALSE
  <2>1. Cached' = Cached
    BY <1>10 DEF FlushNothing, FlushBegin, cacheVars, Cached
  <2> QED
    BY <1>0, <2>1
<1>11. ASSUME TimerCheck \/ TimerFires \/ shutdown \/ CommitItemStep \/ Environment
              \/ UNCHANGED vars
       PROVE  FALSE
  BY <1>2, <1>11 DEF TimerCheck, TimerFires, shutdown, CommitItemStep, Environment,
     CommandWrites, ForeignWrite, OrphanApplies, OrphansEnd, CloseInput, vars, cacheVars
<1>12. ASSUME NEW c \in Call, CallStep(c)
       PROVE  cache_clean_if_absent(c) \/ load_complete(c)
  BY <1>4, <1>5, <1>6, <1>7, <1>8, <1>12 DEF CallStep
<1> QED
  BY <1>3, <1>4, <1>9, <1>10, <1>11, <1>12 DEF Next, FlushStep

(* What the guard rests on, whoever edits: a batch is what the entries of   *)
(* its generations hold, what is in flight or of unknown outcome is dirty,  *)
(* and a clean entry is its base.                                           *)
BatchCurrent ==
  /\ DOMAIN items # {} => ~host_conflict
  /\ \A p \in DOMAIN items :
       /\ items[p].gen \in 1 .. nextGen - 1
       /\ p \in Cached /\ entry[p].gen = items[p].gen =>
            entry[p].desired = items[p].desired

MarkedDirty ==
  \A p \in Cached :
    entry[p].inFlight # 0 \/ entry[p].conflict = "OutcomeUnknown" => entry[p].dirty

CleanBased == \A p \in Cached : ~entry[p].dirty => entry[p].base = entry[p].desired

BufferInv == DirtyNumbered /\ BatchCurrent /\ MarkedDirty /\ CleanBased

\* An accepted edit has a new generation, its own text and the old base.
LEMMA BufferEdit ==
  ASSUME TypeInv, BufferInv, [Next]_vars, NEW c \in Call, EditStep(c)
  PROVE  BufferInv'
<1>0. /\ nextGen \in Nat /\ nextGen' \in Nat /\ nextGen' >= nextGen /\ nextGen >= 1
  BY NextGenGrows, EditCacheAssumption DEF EditCacheAssumption, TypeInv, TypeOK, CacheOK
<1>1. PICK batch : batch = DOMAIN call[c].plan
  OBVIOUS
<1>2. /\ batch \subseteq Cached
      /\ \A p \in batch :
           /\ p \in Cached' /\ entry'[p].dirty
           /\ entry'[p].conflict = entry[p].conflict
           /\ entry'[p].gen \in nextGen .. nextGen' - 1
      /\ \A p \in Cached' \ batch : p \in Cached /\ entry'[p] = entry[p]
      /\ UNCHANGED items
  BY <1>1 DEF EditStep, PlanCurrent, Keeps
<1>3. ASSUME NEW p \in Cached', entry'[p].dirty PROVE Numbered(p)'
  <2>1. CASE p \in batch
    BY <1>0, <1>2, <2>1 DEF Numbered
  <2>2. CASE p \notin batch
    <3>1. Numbered(p) /\ entry'[p].gen = entry[p].gen
      BY <1>2, <1>3, <2>2 DEF BufferInv, DirtyNumbered
    <3> QED
      BY <1>0, <3>1 DEF Numbered
  <2> QED
    BY <2>1, <2>2
<1>4. ASSUME NEW p \in DOMAIN items
      PROVE  /\ items[p].gen \in 1 .. nextGen' - 1
             /\ p \in Cached' /\ entry'[p].gen = items[p].gen =>
                  entry'[p].desired = items[p].desired
  <2>1. items[p].gen \in 1 .. nextGen - 1
    BY DEF BufferInv, BatchCurrent
  <2>2. items[p].gen \in 1 .. nextGen' - 1
    BY <1>0, <2>1
  <2>3. CASE p \in batch
    <3>1. entry'[p].gen # items[p].gen
      BY <1>0, <1>2, <2>1, <2>3
    <3> QED
      BY <2>2, <3>1
  <2>4. CASE p \in Cached' \ batch
    BY <1>2, <2>2, <2>4 DEF BufferInv, BatchCurrent
  <2> QED
    BY <2>2, <2>3, <2>4
<1>5. host_conflict' => host_conflict
  BY <1>2 DEF host_conflict
<1>6. MarkedDirty' /\ CleanBased'
  BY <1>2 DEF BufferInv, MarkedDirty, CleanBased
<1> QED
  BY <1>2, <1>3, <1>4, <1>5, <1>6 DEF BufferInv, DirtyNumbered, BatchCurrent

\* What Settle makes of the bases, and of what they are said to be.
LEMMA SettledBases ==
  ASSUME TypeInv, NEW successes \in SUBSET done,
         NEW error \in ErrorKind \cup {"none"}, Settle(successes, error),
         NEW p \in Cached
  PROVE  \/ /\ entry'[p].base = entry[p].base /\ entry'[p].dirty = entry[p].dirty
            /\ root'[p] = root[p]
            /\ \/ entry'[p].conflict = entry[p].conflict
                    /\ entry'[p].inFlight \in {entry[p].inFlight, 0}
               \/ p \in DOMAIN items /\ entry[p].inFlight = items[p].gen
         \/ /\ p \in DOMAIN items /\ entry[p].inFlight = items[p].gen
            /\ entry'[p].base = items[p].desired /\ root'[p] = items[p].desired
            /\ entry'[p].conflict = entry[p].conflict /\ entry'[p].inFlight = 0
            /\ entry'[p].dirty <=> entry[p].dirty /\ entry[p].gen # items[p].gen
<1> DEFINE mine == p \in DOMAIN items /\ entry[p].inFlight = items[p].gen
<1>0. entry[p] \in Entry /\ p \in Path
  BY DEF TypeInv, TypeOK, CacheOK
<1>1. /\ entry'[p] = IF mine /\ p \in successes THEN Succeeded(entry[p], items[p])
                     ELSE IF mine THEN Failed(entry[p], error)
                     ELSE entry[p]
      /\ root'[p] = IF mine /\ p \in successes THEN items[p].desired ELSE root[p]
  BY <1>0 DEF Settle
<1>2. CASE mine /\ p \in successes
  <2>1. entry'[p] = Succeeded(entry[p], items[p]) /\ root'[p] = items[p].desired
    BY <1>1, <1>2
  <2> QED
    BY <1>0, <1>2, <2>1 DEF Succeeded, Entry
<1>3. CASE mine /\ p \notin successes
  <2>1. entry'[p] = Failed(entry[p], error) /\ root'[p] = root[p]
    BY <1>1, <1>3
  <2> QED
    BY <1>0, <1>3, <2>1 DEF Failed, Entry
<1>4. CASE ~mine
  BY <1>1, <1>4
<1> QED
  BY <1>2, <1>3, <1>4

LEMMA BufferSettle ==
  ASSUME TypeInv, BufferInv, SettleStep
  PROVE  BufferInv' /\ (GuardMatchesText => GuardMatchesText')
<1>1. PICK successes \in SUBSET done, error \in ErrorKind \cup {"none"} :
        Settle(successes, error)
  BY DEF SettleStep
<1>2. items' = EmptyFunction /\ UNCHANGED nextGen /\ DOMAIN items' = {}
  BY <1>1 DEF Settle, EmptyFunction
<1>3. /\ Cached' = Cached
      /\ \A p \in Cached : /\ entry'[p].gen = entry[p].gen
                           /\ entry'[p].desired = entry[p].desired
                           /\ entry'[p].dirty => entry[p].dirty
  BY <1>1, SettledEntries
<1>4. DirtyNumbered'
  BY <1>2, <1>3 DEF BufferInv, DirtyNumbered, Numbered
<1>5. BatchCurrent'
  BY <1>2 DEF BatchCurrent
<1>6. ASSUME NEW p \in Cached
      PROVE  /\ entry'[p].inFlight # 0 \/ entry'[p].conflict = "OutcomeUnknown" =>
                  entry'[p].dirty
             /\ ~entry'[p].dirty => entry'[p].base = entry'[p].desired
             /\ GuardMatchesText => (entry'[p].dirty => entry'[p].base = root'[p])
  <2>1. /\ entry[p].inFlight # 0 \/ entry[p].conflict = "OutcomeUnknown" => entry[p].dirty
        /\ ~entry[p].dirty => entry[p].base = entry[p].desired
        /\ GuardMatchesText => (entry[p].dirty => entry[p].base = root[p])
    BY DEF BufferInv, MarkedDirty, CleanBased, GuardMatchesText
  <2>2. p \in DOMAIN items => /\ items[p].gen # 0 /\ entry[p].conflict = "none"
                              /\ entry[p].gen = items[p].gen =>
                                   entry[p].desired = items[p].desired
    <3>1. nextGen \in Nat
      BY EditCacheAssumption DEF EditCacheAssumption, TypeInv, TypeOK, CacheOK
    <3> QED
      BY <3>1 DEF BufferInv, BatchCurrent, host_conflict
  <2>3. CASE /\ entry'[p].base = entry[p].base /\ entry'[p].dirty = entry[p].dirty
             /\ root'[p] = root[p]
             /\ \/ entry'[p].conflict = entry[p].conflict
                     /\ entry'[p].inFlight \in {entry[p].inFlight, 0}
                \/ p \in DOMAIN items /\ entry[p].inFlight = items[p].gen
    BY <1>3, <2>1, <2>2, <2>3
  <2>4. CASE /\ p \in DOMAIN items /\ entry[p].inFlight = items[p].gen
             /\ entry'[p].base = items[p].desired /\ root'[p] = items[p].desired
             /\ entry'[p].conflict = entry[p].conflict /\ entry'[p].inFlight = 0
             /\ entry'[p].dirty <=> entry[p].dirty /\ entry[p].gen # items[p].gen
    BY <1>3, <2>1, <2>2, <2>4
  <2> QED
    BY <1>1, <2>3, <2>4, SettledBases
<1>7. MarkedDirty' /\ CleanBased' /\ (GuardMatchesText => GuardMatchesText')
  BY <1>3, <1>6 DEF MarkedDirty, CleanBased, GuardMatchesText
<1> QED
  BY <1>4, <1>5, <1>7 DEF BufferInv

LEMMA BufferBegin ==
  ASSUME TypeInv, BufferInv, NEW o \in Flusher, FlushBegin(o)
  PROVE  BufferInv' /\ (GuardMatchesText => GuardMatchesText')
<1>1. /\ items' = [p \in Flushable |-> [base |-> entry[p].base,
                     desired |-> entry[p].desired, gen |-> entry[p].gen]]
      /\ entry' = [p \in Cached |-> IF p \in Flushable
                     THEN [entry[p] EXCEPT !.inFlight = entry[p].gen] ELSE entry[p]]
      /\ ~host_conflict /\ UNCHANGED <<nextGen, root>>
  BY DEF FlushBegin, history
<1>2. /\ \A p \in Cached : entry[p] \in Entry
      /\ Flushable \subseteq Cached /\ \A p \in Flushable : entry[p].dirty
  BY DEF TypeInv, TypeOK, CacheOK, Flushable
<1>3. /\ Cached' = Cached
      /\ \A p \in Cached : /\ entry'[p].gen = entry[p].gen
                           /\ entry'[p].desired = entry[p].desired
                           /\ entry'[p].base = entry[p].base
                           /\ entry'[p].dirty = entry[p].dirty
                           /\ entry'[p].conflict = entry[p].conflict
                           /\ p \in Flushable \/ entry'[p].inFlight = entry[p].inFlight
  BY <1>1, <1>2 DEF Entry, Cached
<1>4. DirtyNumbered'
  BY <1>1, <1>3 DEF BufferInv, DirtyNumbered, Numbered
<1>5. DOMAIN items' = Flushable /\ \A p \in Flushable : /\ items'[p].gen = entry[p].gen
                                                        /\ items'[p].desired = entry[p].desired
  BY <1>1
<1>6. \A p \in Flushable : entry[p].gen \in 1 .. nextGen - 1
  BY <1>2 DEF BufferInv, DirtyNumbered, Numbered
<1>7. BatchCurrent'
  <2>1. ~host_conflict'
    BY <1>1, <1>3 DEF host_conflict
  <2>2. ASSUME NEW p \in DOMAIN items'
        PROVE  /\ items'[p].gen \in 1 .. nextGen' - 1
               /\ entry'[p].desired = items'[p].desired
    BY <1>1, <1>2, <1>3, <1>5, <1>6, <2>2
  <2> QED
    BY <2>1, <2>2 DEF BatchCurrent
<1>8. MarkedDirty' /\ CleanBased' /\ (GuardMatchesText => GuardMatchesText')
  BY <1>1, <1>2, <1>3 DEF BufferInv, MarkedDirty, CleanBased, GuardMatchesText
<1> QED
  BY <1>4, <1>7, <1>8 DEF BufferInv

\* The kinds of steps that neither edit nor begin or end a batch.
LEMMA BufferKeeps ==
  ASSUME TypeInv, BufferInv,
         CleanStep \/ DiscardStep \/ RetryStep \/ ApplyStep \/ GiveUpStep
  PROVE  BufferInv' /\ (GuardMatchesText => GuardMatchesText')
<1>1. ASSUME UNCHANGED <<nextGen, root>>, UNCHANGED items \/ DOMAIN items' = {},
             \A p \in Cached' :
               \/ p \in Cached /\ entry'[p] = entry[p]
               \/ /\ ~entry'[p].dirty /\ entry'[p].inFlight = 0 /\ entry'[p].gen = 0
                  /\ entry'[p].conflict = "none" /\ entry'[p].base = entry'[p].desired
      PROVE  BufferInv' /\ (GuardMatchesText => GuardMatchesText')
  <2>1. DirtyNumbered' /\ MarkedDirty' /\ CleanBased'
    BY <1>1 DEF BufferInv, DirtyNumbered, Numbered, MarkedDirty, CleanBased
  <2>2. host_conflict' => host_conflict
    BY <1>1 DEF host_conflict
  <2>3. ASSUME UNCHANGED items, NEW p \in DOMAIN items
        PROVE  /\ items[p].gen \in 1 .. nextGen - 1
               /\ p \in Cached' /\ entry'[p].gen = items[p].gen =>
                    entry'[p].desired = items[p].desired
    <3>1. /\ items[p].gen \in 1 .. nextGen - 1
          /\ p \in Cached /\ entry[p].gen = items[p].gen =>
               entry[p].desired = items[p].desired
      BY DEF BufferInv, BatchCurrent
    <3>2. items[p].gen # 0
      BY <3>1, EditCacheAssumption DEF EditCacheAssumption, TypeInv, TypeOK, CacheOK
    <3> QED
      BY <1>1, <3>1, <3>2
  <2>4. BatchCurrent'
    BY <1>1, <2>2, <2>3 DEF BatchCurrent, BufferInv
  <2>5. GuardMatchesText => GuardMatchesText'
    BY <1>1 DEF GuardMatchesText
  <2> QED
    BY <2>1, <2>4, <2>5 DEF BufferInv
<1>2. CASE CleanStep
  <2>1. \A p \in Cached' :
          \/ p \in Cached /\ entry'[p] = entry[p]
          \/ /\ ~entry'[p].dirty /\ entry'[p].inFlight = 0 /\ entry'[p].gen = 0
             /\ entry'[p].conflict = "none" /\ entry'[p].base = entry'[p].desired
    BY <1>2 DEF CleanStep, Keeps, Held
  <2> QED
    BY <1>1, <1>2, <2>1 DEF CleanStep
<1>3. CASE DiscardStep
  BY <1>1, <1>3 DEF DiscardStep, Keeps
<1>4. CASE RetryStep
  <2>1. ASSUME NEW p \in Cached
        PROVE  /\ (entry'[p].dirty <=> entry[p].dirty) /\ entry'[p].base = entry[p].base
               /\ entry'[p].gen = entry[p].gen /\ entry'[p].desired = entry[p].desired
               /\ entry'[p].inFlight = entry[p].inFlight
               /\ entry'[p].conflict \in {entry[p].conflict, "none"}
    BY <1>4 DEF RetryStep, BufferInv, MarkedDirty
  <2>2. Cached' = Cached /\ UNCHANGED <<nextGen, items, root>>
    BY <1>4 DEF RetryStep
  <2>3. DirtyNumbered' /\ MarkedDirty' /\ CleanBased'
    BY <2>1, <2>2 DEF BufferInv, DirtyNumbered, Numbered, MarkedDirty, CleanBased
  <2>4. BatchCurrent'
    BY <2>1, <2>2 DEF BufferInv, BatchCurrent, host_conflict
  <2> QED
    BY <2>1, <2>2, <2>3, <2>4 DEF BufferInv, GuardMatchesText
<1>5. CASE ApplyStep \/ GiveUpStep
  <2>1. UNCHANGED <<entry, nextGen, root>> /\ (UNCHANGED items \/ DOMAIN items' = {})
    BY <1>5 DEF ApplyStep, GiveUpStep, EmptyFunction
  <2> QED
    BY <1>1, <2>1 DEF Cached
<1> QED
  BY <1>2, <1>3, <1>4, <1>5

(* One call at a time. *)
Alone == \A c, d \in Call : c = d

(* What an edit still has to load is not in its plan, and an entry that has *)
(* the generation the plan names has the text the plan names.               *)
PlanTrue ==
  \A d \in Call : call[d].pc \in Editing =>
    /\ call[d].todo \cap DOMAIN call[d].plan = {}
    /\ \A p \in DOMAIN call[d].plan \cap Cached :
         entry[p].gen = call[d].plan[p].gen => call[d].plan[p].text = entry[p].desired

LEMMA PlanTrueStep ==
  ASSUME Alone, TypeInv, PlanInv, PlanTrue, [Next]_vars
  PROVE  PlanTrue'
<1>0. /\ nextGen \in Nat
      /\ \A d \in Call : call[d] \in CallState
  BY NextGenGrows DEF TypeInv, TypeOK, TaskOK
<1>1. ASSUME NEW d \in Call, call'[d].pc \in Editing
      PROVE  /\ call'[d].todo \cap DOMAIN call'[d].plan = {}
             /\ \A p \in DOMAIN call'[d].plan \cap Cached' :
                  entry'[p].gen = call'[d].plan[p].gen =>
                    call'[d].plan[p].text = entry'[p].desired
  <2>1. CASE call'[d].plan = EmptyFunction
    BY <2>1 DEF EmptyFunction
  <2>2. CASE call'[d].plan # EmptyFunction
    <3>1. /\ call[d].pc \in Editing /\ call'[d].todo \subseteq call[d].todo
          /\ DOMAIN call'[d].plan \subseteq
               DOMAIN call[d].plan \cup (call[d].todo \ call'[d].todo)
          /\ \A p \in DOMAIN call'[d].plan :
               \/ p \in DOMAIN call[d].plan /\ call'[d].plan[p] = call[d].plan[p]
               \/ /\ p \in Cached /\ UNCHANGED entry
                  /\ call'[d].plan[p].gen = entry[p].gen
                  /\ call'[d].plan[p].text = entry[p].desired
      BY <1>1, <2>2, EditingMoves DEF PlanStays
    <3>2. call[d].todo \cap DOMAIN call[d].plan = {}
      BY <3>1 DEF PlanTrue
    <3>3. call'[d].todo \cap DOMAIN call'[d].plan = {}
      BY <3>1, <3>2
    <3>4. ASSUME NEW p \in DOMAIN call'[d].plan \cap Cached',
                 entry'[p].gen = call'[d].plan[p].gen
          PROVE  call'[d].plan[p].text = entry'[p].desired
      <4>1. CASE UNCHANGED entry /\ call'[d].plan[p].text = entry[p].desired
        BY <4>1
      <4>2. CASE p \in DOMAIN call[d].plan /\ call'[d].plan[p] = call[d].plan[p]
        <5>1. CASE /\ p \in Cached /\ entry'[p].gen = entry[p].gen
                   /\ entry'[p].desired = entry[p].desired
          BY <3>1, <3>4, <4>2, <5>1 DEF PlanTrue
        <5>2. CASE p \notin Cached
          <6>1. PICK c \in Call : /\ p = First(call[c].todo) /\ call[c].todo # {}
                                  /\ \/ call[c].pc = "insert"
                                     \/ call[c].pc = "rinsert"
            BY <5>2, NewEntries
          <6>2. c = d
            BY DEF Alone
          <6>3. p \in call[d].todo
            BY <1>0, <6>1, <6>2, FirstIn DEF CallState
          <6> QED
            BY <3>2, <4>2, <6>3
        <5>3. CASE entry'[p].gen >= nextGen
          <6>1. call[d].plan[p].gen < nextGen
            BY <4>2 DEF PlanInv, GensOld
          <6>2. call[d].plan[p].gen \in Nat
            BY <1>0, <4>2, PlanDomain, EditCacheAssumption
               DEF CallState, Seen, Gen, EditCacheAssumption
          <6> QED
            BY <1>0, <3>4, <4>2, <5>3, <6>1, <6>2
        <5> QED
          BY <5>1, <5>2, <5>3, EntryMoves
      <4> QED
        BY <3>1, <4>1, <4>2
    <3> QED
      BY <3>3, <3>4
  <2> QED
    BY <2>1, <2>2
<1> QED
  BY <1>1 DEF PlanTrue

GuardInv == PlanInv /\ BufferInv /\ PlanTrue /\ GuardMatchesText

LEMMA InitGuard == Init => GuardInv
BY InitPlan DEF Init, GuardInv, BufferInv, DirtyNumbered, BatchCurrent, MarkedDirty,
   CleanBased, PlanTrue, GuardMatchesText, Cached, IdleCall, EmptyFunction, Editing

\* The edit derives its text from what it read, and that is the base.
LEMMA GuardEdit ==
  ASSUME TypeInv, GuardInv, NEW c \in Call, EditStep(c)
  PROVE  GuardMatchesText'
<1>1. PICK batch : batch = DOMAIN call[c].plan
  OBVIOUS
<1>2. /\ batch \subseteq Cached /\ call[c].pc = "mutate"
      /\ \A p \in batch : /\ entry'[p].base = entry[p].base
                          /\ entry[p].gen = call[c].plan[p].gen
      /\ \A p \in Cached' \ batch : p \in Cached /\ entry'[p] = entry[p]
      /\ \A p \in Path : root'[p] = IF p \in batch /\ ~entry[p].dirty
                                    THEN call[c].plan[p].text ELSE root[p]
      /\ Cached \subseteq Path
  BY <1>1 DEF EditStep, PlanCurrent, Keeps, TypeInv, TypeOK, CacheOK
<1>3. ASSUME NEW p \in batch, ~entry[p].dirty
      PROVE  entry[p].base = call[c].plan[p].text
  <2>1. entry[p].base = entry[p].desired
    BY <1>2, <1>3 DEF GuardInv, BufferInv, CleanBased
  <2>2. call[c].plan[p].text = entry[p].desired
    BY <1>1, <1>2 DEF GuardInv, PlanTrue, Editing
  <2> QED
    BY <2>1, <2>2
<1>4. ASSUME NEW p \in Cached', entry'[p].dirty PROVE entry'[p].base = root'[p]
  <2>1. CASE p \in batch /\ ~entry[p].dirty
    BY <1>2, <1>3, <2>1
  <2>2. CASE p \in batch /\ entry[p].dirty
    BY <1>2, <2>2 DEF GuardInv, GuardMatchesText
  <2>3. CASE p \notin batch
    BY <1>2, <1>4, <2>3 DEF GuardInv, GuardMatchesText
  <2> QED
    BY <2>1, <2>2, <2>3
<1> QED
  BY <1>4 DEF GuardMatchesText

LEMMA GuardStep ==
  ASSUME Alone, TypeInv, GuardInv, [Next]_vars
  PROVE  GuardInv'
<1>1. PlanInv' /\ PlanTrue'
  BY PlanStep, PlanTrueStep DEF GuardInv
<1>2. BufferInv' /\ GuardMatchesText'
  <2>1. CASE CleanStep \/ DiscardStep \/ RetryStep \/ ApplyStep \/ GiveUpStep
    BY <2>1, BufferKeeps DEF GuardInv
  <2>2. CASE SettleStep
    BY <2>2, BufferSettle DEF GuardInv
  <2>3. ASSUME NEW c \in Call, EditStep(c) PROVE BufferInv' /\ GuardMatchesText'
    BY <2>3, BufferEdit, GuardEdit DEF GuardInv
  <2>4. ASSUME NEW o \in Flusher, FlushBegin(o) PROVE BufferInv' /\ GuardMatchesText'
    BY <2>4, BufferBegin DEF GuardInv
  <2> QED
    BY <2>1, <2>2, <2>3, <2>4, NextStepKind DEF StepKind
<1> QED
  BY <1>1, <1>2 DEF GuardInv

(* With one call at a time, the remote state that guards a buffered text at *)
(* its commit is the state the text was derived from, whatever the remote   *)
(* side, commands, retries and lost replies do (flush_once,                 *)
(* mutate_prepared_batch, load_complete).  With two calls it is not, since  *)
(* generations of clean entries are all 0.                                  *)
THEOREM GuardHolds ==
  ASSUME Alone
  PROVE  Spec => []GuardMatchesText
<1>1. TypeInv /\ GuardInv /\ [Next]_vars => (TypeInv /\ GuardInv)'
  BY StepTypeInv, GuardStep
<1>2. Init => TypeInv /\ GuardInv
  BY InitTypeInv, InitGuard
<1>3. TypeInv /\ GuardInv => GuardMatchesText
  BY DEF GuardInv
<1> QED
  BY <1>1, <1>2, <1>3, PTL DEF Spec

-----------------------------------------------------------------------------
(* Reads from the cache.  One call at a time, nobody else on the remote     *)
(* side, no failure that leaves a remote write behind without its           *)
(* invalidation, and no discard of a batch that is already under way: each  *)
(* of these makes a clean entry differ from the remote file.                *)
Calm == Alone /\ Faults \subseteq {"transient", "fetch", "leave", "close"}
              /\ "discard" \notin Ops

Obtaining(s) == s.pc \in {"fetch", "insert", "rfetch", "rinsert"}

Writing(s) == s.pc = "iwrite" \/ (s.pc = "command" /\ s.op = "run")

AllClean == ~host_dirty(entry) /\ DOMAIN items = {}

(* What a call is about to load is not cached and as it was read; past its  *)
(* flush nothing is buffered, and the files it will write are as it read    *)
(* them.                                                                    *)
MirrorCall(s) ==
  /\ Obtaining(s) => First(s.todo) \notin Cached
  /\ s.pc \in {"insert", "rinsert"} => s.snap = remote[First(s.todo)]
  /\ s.pc = "iflush" => s.plan = EmptyFunction
  /\ s.pc \in {"isnap", "iwrite", "command"} => AllClean
  /\ s.pc = "isnap" => \A p \in DOMAIN s.plan : s.plan[p].text = remote[p]
  /\ s.pc = "iwrite" => \A p \in s.todo : p \in DOMAIN s.plan /\ s.plan[p].text = remote[p]

BatchMarked ==
  \A p \in DOMAIN items : p \in Cached /\ entry[p].inFlight = items[p].gen

(* Who waits for a flush, and that a flush under way has something to send. *)
FlushWaits ==
  /\ flusher # None => DOMAIN items # {}
  /\ flusher \in Call => call[flusher].pc \in {"iflush", "sflush"}
  /\ barrier \in Call => call[barrier].pc = "bflush"

Mirrored ==
  (\A c \in Call : ~Writing(call[c])) =>
    \A p \in Cached : ~entry[p].dirty => entry[p].desired = remote[p]

MirrorInv ==
  /\ DiscardAsked /\ InFlightOwned /\ BufferInv
  /\ BatchMarked /\ DoneStored /\ orphans = {} /\ FlushWaits
  /\ \A c \in Call : MirrorCall(call[c])
  /\ Mirrored

LEMMA BatchMarkedStep ==
  ASSUME Calm, TypeInv, MirrorInv, [Next]_vars
  PROVE  BatchMarked'
<1>0. /\ \A p \in DOMAIN items : /\ p \in Cached /\ entry[p].inFlight = items[p].gen
                                 /\ items[p].gen # 0
      /\ \A c \in Call : call[c].pc # "dwait"
  <2>1. nextGen \in Nat
    BY EditCacheAssumption DEF EditCacheAssumption, TypeInv, TypeOK, CacheOK
  <2> QED
    BY <2>1 DEF Calm, MirrorInv, DiscardAsked, BatchMarked, BufferInv, BatchCurrent
<1>1. CASE CleanStep
  BY <1>0, <1>1 DEF CleanStep, Held, Keeps, BatchMarked
<1>2. CASE DiscardStep
  BY <1>0, <1>2 DEF DiscardStep
<1>3. CASE RetryStep
  BY <1>0, <1>3 DEF RetryStep, BatchMarked
<1>4. CASE ApplyStep
  BY <1>0, <1>4 DEF ApplyStep, BatchMarked, Cached
<1>5. CASE SettleStep
  BY <1>5 DEF SettleStep, Settle, BatchMarked, EmptyFunction
<1>6. CASE GiveUpStep
  BY <1>6 DEF GiveUpStep, BatchMarked, EmptyFunction
<1>7. ASSUME NEW c \in Call, EditStep(c) PROVE BatchMarked'
  BY <1>0, <1>7 DEF EditStep, PlanCurrent, Held, Keeps, BatchMarked
<1>8. ASSUME NEW o \in Flusher, FlushBegin(o) PROVE BatchMarked'
  <2>1. /\ items' = [p \in Flushable |-> [base |-> entry[p].base,
                       desired |-> entry[p].desired, gen |-> entry[p].gen]]
        /\ entry' = [p \in Cached |-> IF p \in Flushable
                       THEN [entry[p] EXCEPT !.inFlight = entry[p].gen] ELSE entry[p]]
    BY <1>8 DEF FlushBegin
  <2>2. Flushable \subseteq Cached /\ \A p \in Cached : entry[p] \in Entry
    BY DEF Flushable, TypeInv, TypeOK, CacheOK
  <2>3. ASSUME NEW p \in Flushable
        PROVE  p \in Cached' /\ entry'[p].inFlight = items'[p].gen
    BY <2>1, <2>2 DEF Cached, Entry
  <2>4. DOMAIN items' = Flushable
    BY <2>1
  <2> QED
    BY <2>3, <2>4 DEF BatchMarked
<1> QED
  BY <1>1, <1>2, <1>3, <1>4, <1>5, <1>6, <1>7, <1>8, NextStepKind DEF StepKind

\* An immediate write finds what its snapshot found.
LEMMA WritesGuarded ==
  ASSUME Calm, TypeInv, MirrorInv, NEW c \in Call, NEW text, ImmediateFails(c, text)
  PROVE  FALSE
<1>0. "unknown" \notin Faults /\ "permanent" \notin Faults /\ MirrorCall(call[c])
  BY DEF Calm, MirrorInv
<1>1. call[c] \in CallState /\ CallTodo(call[c])
  BY DEF TypeInv, TypeOK, TaskOK, TodoOK
<1>2. call[c].pc = "iwrite" /\ remote[First(call[c].todo)] # call[c].plan[First(call[c].todo)].text
  BY <1>0 DEF ImmediateFails
<1>3. First(call[c].todo) \in call[c].todo
  BY <1>1, <1>2, FirstIn DEF CallState, CallTodo, Loading
<1> QED
  BY <1>0, <1>2, <1>3 DEF MirrorCall

\* A batch, an immediate write or a command changes a remote file; no other step.
LEMMA CalmMoves ==
  ASSUME Calm, TypeInv, MirrorInv, [Next]_vars
  PROVE  /\ orphans' = {}
         /\ \/ CommitItemStep
            \/ \E c \in Call, text \in Content : ImmediateWrite(c, text)
            \/ \E c \in Call, p \in Path, text \in Content : CommandWrites(c, p, text)
            \/ UNCHANGED remote /\ (UNCHANGED <<items, done>> \/ done' = {})
<1>0. /\ "foreign" \notin Faults /\ "unknown" \notin Faults /\ "abort" \notin Faults
      /\ "permanent" \notin Faults /\ "runfails" \notin Faults
      /\ orphans = {} /\ \A c \in Call : MirrorCall(call[c])
  BY DEF Calm, MirrorInv
<1> DEFINE Still == /\ UNCHANGED <<remote, orphans>>
                    /\ UNCHANGED <<items, done>> \/ done' = {}
<1>1. ASSUME NEW c \in Call, CallStart(c) \/ CallStep(c)
      PROVE  Still \/ \E text \in Content : ImmediateWrite(c, text)
  <2>1. ASSUME NEW text \in Content, ImmediateFails(c, text) PROVE FALSE
    BY <2>1, WritesGuarded
  <2>2. CASE \/ CallStart(c)
             \/ ReadRemote(c) \/ cache_clean_if_absent(c)
             \/ lookup_entry(c) \/ lookup_complete(c) \/ LoadLock(c)
             \/ fetch_complete(c) \/ load_complete(c)
    BY <2>2 DEF CallStart, ReadLookup, EditCall, BarrierCall, SyncCall, DiscardCall,
       ReadRemote, cache_clean_if_absent, lookup_entry, lookup_complete, LoadLock,
       fetch_complete, load_complete, remoteVars, flushVars
  <2>3. CASE \/ EditRejected(c) \/ MutateTooLarge(c) \/ MutateStale(c)
             \/ ImmediateSnapshot(c) \/ flush_barrier(c) \/ CommandEnds(c)
             \/ retry_outcome_unknown_host(c) \/ discard_host_edits(c)
    BY <2>3 DEF EditRejected, MutateTooLarge, MutateStale, ImmediateSnapshot,
       flush_barrier, CommandEnds, retry_outcome_unknown_host, discard_host_edits,
       remoteVars, flushVars
  <2>4. ASSUME NEW want \in [DOMAIN call[c].plan -> Content], NEW bytes \in Payload,
               NEW number \in Numbering(DOMAIN call[c].plan),
               mutate_prepared_batch(c, want, bytes, number)
        PROVE  Still
    BY <2>4 DEF mutate_prepared_batch, remoteVars, flushVars
  <2> QED
    BY <1>1, <2>1, <2>2, <2>3, <2>4 DEF CallStep
<1>2. ASSUME NEW c \in Call, CallFault(c) PROVE Still
  BY <1>0, <1>2 DEF CallFault, FetchFails, BarrierLeave, CommandFails, AbortCall,
     remoteVars, flushVars
<1>3. ASSUME TimerCheck \/ TimerFires \/ shutdown \/ UNCHANGED vars
               \/ \E o \in Flusher : FlushNothing(o)
      PROVE  Still
  BY <1>3 DEF TimerCheck, TimerFires, shutdown, FlushNothing, vars, remoteVars, flushVars
<1>4. ASSUME NEW o \in Flusher, FlushBegin(o) PROVE Still
  BY <1>4 DEF FlushBegin, remoteVars
<1>5. ASSUME FlushSucceeds \/ FlushConflicts \/ FlushFault PROVE Still
  <2>1. (\E successes, error : Settle(successes, error)) /\ UNCHANGED orphans
    BY <1>0, <1>5 DEF FlushSucceeds, FlushConflicts, FlushFault, FlushFails, FlushUnknown
  <2> QED
    BY <2>1 DEF Settle
<1>6. ASSUME Environment
      PROVE  \/ Still
             \/ orphans' = {} /\ UNCHANGED <<remote, items, done>>
             \/ \E c \in Call, p \in Path, text \in Content : CommandWrites(c, p, text)
  BY <1>0, <1>6 DEF Environment, ForeignWrite, OrphanApplies, OrphansEnd, CloseInput,
     remoteVars, flushVars
<1>7. Still => orphans' = {} /\ UNCHANGED remote /\ (UNCHANGED <<items, done>> \/ done' = {})
  BY <1>0
<1> HIDE DEF Still
<1>8. ASSUME \/ CommitItemStep
             \/ \E c \in Call, text \in Content : ImmediateWrite(c, text)
             \/ \E c \in Call, p \in Path, text \in Content : CommandWrites(c, p, text)
      PROVE  orphans' = {}
  BY <1>0, <1>8 DEF CommitItemStep, ImmediateWrite, CommandWrites
<1> QED
  BY <1>1, <1>2, <1>3, <1>4, <1>5, <1>6, <1>7, <1>8 DEF Next, FlushStep

\* A call that does not move, by a step that writes no more than a batch does.
LEMMA MirrorCallStays ==
  ASSUME TypeInv, NEW s \in CallState, CallTodo(s), MirrorCall(s),
         Cached' \subseteq Cached, AllClean => AllClean' /\ UNCHANGED remote,
         \A p \in Path \ Cached : remote'[p] = remote[p]
  PROVE  MirrorCall(s)'
<1>1. ASSUME Obtaining(s) PROVE First(s.todo) \in Path \ Cached
  <2>1. s.todo # {} /\ s.todo \in SUBSET Path
    BY <1>1 DEF Obtaining, CallTodo, Loading, CallState
  <2> QED
    BY <1>1, <2>1, FirstIn DEF MirrorCall
<1>2. Obtaining(s)' <=> Obtaining(s)
  BY DEF Obtaining
<1>3. /\ Obtaining(s)' => First(s.todo) \notin Cached'
      /\ s.pc \in {"insert", "rinsert"} => s.snap = remote'[First(s.todo)]
  BY <1>1, <1>2 DEF MirrorCall, Obtaining
<1>4. s.pc \in {"isnap", "iwrite", "command"} => AllClean' /\ UNCHANGED remote
  BY DEF MirrorCall
<1> QED
  BY <1>3, <1>4 DEF MirrorCall

\* The states a call is in while it neither loads nor is past a flush.
LEMMA MirrorCallFree ==
  ASSUME NEW t, t.pc \notin {"fetch", "insert", "rfetch", "rinsert", "iflush", "isnap",
                             "iwrite", "command"}
  PROVE  MirrorCall(t)'
BY DEF MirrorCall, Obtaining

LEMMA MirrorFlushed ==
  ASSUME TypeInv, MirrorInv, NEW o, NEW result, NEW woken, Resume(o, result, woken),
         Cached' = Cached, UNCHANGED remote,
         AllClean => AllClean', result = "clean" => AllClean'
  PROVE  \A d \in Call : MirrorCall(call[d])'
<1>1. ASSUME NEW d \in Call PROVE MirrorCall(call[d])'
  <2>0. call[d] \in CallState /\ CallTodo(call[d]) /\ MirrorCall(call[d])
    BY DEF TypeInv, TypeOK, TaskOK, TodoOK, MirrorInv
  <2>2. CASE call'[d] = call[d]
    <3>1. PICK s \in CallState : s = call[d]
      BY <2>0
    <3>2. MirrorCall(s)'
      BY <2>0, <3>1, MirrorCallStays
    <3> QED
      BY <2>2, <3>1, <3>2 DEF MirrorCall, Obtaining
  <2>3. CASE call'[d] = IdleCall
    BY <2>3 DEF MirrorCall, Obtaining, IdleCall
  <2>4. CASE /\ result = "clean"
             /\ \/ call[d].pc = "iflush" /\ call'[d] = [call[d] EXCEPT !.pc = "isnap"]
                \/ call[d].pc = "bflush" /\ call'[d] = [call[d] EXCEPT !.pc = "command"]
    <3>1. call'[d].pc \in {"isnap", "command"} /\ call'[d].plan = call[d].plan
      BY <2>0, <2>4 DEF CallState
    <3>2. call'[d].pc = "isnap" => call[d].plan = EmptyFunction
      BY <2>0, <2>4 DEF MirrorCall, CallState
    <3> QED
      BY <2>4, <3>1, <3>2 DEF MirrorCall, Obtaining, EmptyFunction
  <2>5. call'[d] = CallAfterFlush(call[d], result) \/ call'[d] = call[d]
    BY DEF Resume
  <2> QED
    BY <2>2, <2>3, <2>4, <2>5 DEF CallAfterFlush
<1> QED
  BY <1>1

\* The states in which a call relies on nothing.
LEMMA MirrorMoves ==
  ASSUME Alone, TypeInv, NEW c \in Call, NEW t, call' = [call EXCEPT ![c] = t],
         t.pc \in {"idle", "lookup", "load", "loadwait", "lookup2", "mutate", "bwait",
                   "bflush", "swait", "sflush", "dwait"}
  PROVE  \A d \in Call : MirrorCall(call[d])'
<1>1. \A d \in Call : call'[d] = t
  BY DEF Alone, TypeInv, TypeOK, TaskOK
<1> QED
  BY <1>1 DEF MirrorCall, Obtaining

LEMMA MirrorReturns ==
  ASSUME Alone, TypeInv, NEW c \in Call, Return(c)
  PROVE  \A d \in Call : MirrorCall(call[d])'
BY MirrorMoves DEF Return, IdleCall

LEMMA MirrorGoes ==
  ASSUME Alone, TypeInv, NEW c \in Call,
         NEW pc \in {"load", "loadwait", "lookup2", "bflush", "sflush"}, Goto(c, pc)
  PROVE  \A d \in Call : MirrorCall(call[d])'
<1>0. call[c] \in CallState
  BY DEF TypeInv, TypeOK, TaskOK
<1>1. PICK t : t = [call[c] EXCEPT !.pc = pc]
  OBVIOUS
<1>2. t.pc = pc /\ call' = [call EXCEPT ![c] = t]
  BY <1>0, <1>1 DEF Goto, CallState
<1> QED
  BY <1>2, MirrorMoves

\* A call that starts.
LEMMA MirrorStart ==
  ASSUME Alone, TypeInv, NEW c \in Call, CallStart(c), \A d \in Call : MirrorCall(call[d])
  PROVE  \A d \in Call : MirrorCall(call[d])'
<1>0. call \in [Call -> CallState] /\ \A d \in Call : d = c
  BY DEF Alone, TypeInv, TypeOK, TaskOK
<1>1. ASSUME NEW op, NEW pc \in {"lookup", "bwait", "swait", "dwait"}, NEW todo, NEW before,
             call' = [call EXCEPT ![c] = [IdleCall EXCEPT !.op = op, !.pc = pc,
                                            !.todo = todo, !.before = before]]
      PROVE  \A d \in Call : MirrorCall(call[d])'
  <2>1. PICK t : t = [IdleCall EXCEPT !.op = op, !.pc = pc, !.todo = todo,
                                      !.before = before]
    OBVIOUS
  <2>2. t.pc = pc /\ call' = [call EXCEPT ![c] = t]
    BY <1>1, <2>1 DEF IdleCall
  <2> QED
    BY <2>2, MirrorMoves
<1>2. ASSUME NEW p \in Path, ReadLookup(c, p)
      PROVE  \A d \in Call : MirrorCall(call[d])'
  <2>1. CASE UNCHANGED call
    <3>1. UNCHANGED <<entry, remote, items>>
      BY <1>2 DEF ReadLookup, remoteVars, flushVars
    <3> QED
      BY <2>1, <3>1 DEF MirrorCall, Obtaining, AllClean, Cached
  <2>2. CASE p \notin Cached /\ ~UNCHANGED call
    <3>1. call'[c] = [IdleCall EXCEPT !.pc = "rfetch", !.todo = {p}] /\ UNCHANGED entry
      BY <1>0, <1>2, <2>2 DEF ReadLookup
    <3>2. call'[c].pc = "rfetch" /\ call'[c].todo = {p} /\ p \notin Cached'
      BY <2>2, <3>1 DEF IdleCall, Cached
    <3>3. First({p}) = p
      BY FirstIn
    <3> QED
      BY <1>0, <3>2, <3>3 DEF MirrorCall, Obtaining
  <2> QED
    BY <1>2, <2>1, <2>2 DEF ReadLookup
<1>3. ASSUME NEW batch \in SUBSET Path, EditCall(c, batch)
      PROVE  \A d \in Call : MirrorCall(call[d])'
  <2>1. PICK t : t = [IdleCall EXCEPT !.op = "edit", !.pc = "lookup", !.todo = batch]
    OBVIOUS
  <2>2. t.pc = "lookup" /\ call' = [call EXCEPT ![c] = t]
    BY <1>3, <2>1 DEF EditCall, IdleCall
  <2> QED
    BY <2>2, MirrorMoves
<1>4. ASSUME NEW op \in {"observe", "run"}, BarrierCall(c, op)
      PROVE  \A d \in Call : MirrorCall(call[d])'
  <2>1. PICK t : t = [IdleCall EXCEPT !.op = op, !.pc = "bwait", !.before = nextGen]
    OBVIOUS
  <2>2. t.pc = "bwait" /\ call' = [call EXCEPT ![c] = t]
    BY <1>4, <2>1 DEF BarrierCall, IdleCall
  <2> QED
    BY <2>2, MirrorMoves
<1>5. ASSUME SyncCall(c) \/ DiscardCall(c)
      PROVE  \A d \in Call : MirrorCall(call[d])'
  <2>1. PICK op \in AllOps, pc \in {"swait", "dwait"} :
          call' = [call EXCEPT ![c] = [IdleCall EXCEPT !.op = op, !.pc = pc]]
    BY <1>5 DEF SyncCall, DiscardCall, AllOps
  <2>2. PICK t : t = [IdleCall EXCEPT !.op = op, !.pc = pc]
    OBVIOUS
  <2>3. t.pc = pc /\ call' = [call EXCEPT ![c] = t]
    BY <2>1, <2>2 DEF IdleCall
  <2> QED
    BY <2>3, MirrorMoves
<1> QED
  BY <1>2, <1>3, <1>4, <1>5 DEF CallStart

\* The immediate path, once nothing is buffered.
LEMMA MirrorImmediate ==
  ASSUME Alone, TypeInv, NEW c \in Call, \A d \in Call : MirrorCall(call[d]),
         ImmediateSnapshot(c) \/ \E text \in Content : ImmediateWrite(c, text)
  PROVE  \A d \in Call : MirrorCall(call[d])'
<1>0. /\ call[c] \in CallState /\ CallTodo(call[c]) /\ MirrorCall(call[c])
      /\ call \in [Call -> CallState] /\ remote \in [Path -> Content]
      /\ \A d \in Call : d = c
  BY DEF Alone, TypeInv, TypeOK, TaskOK, TodoOK, RemoteOK
<1>1. PICK p : p = First(call[c].todo)
  OBVIOUS
<1>2. p \in call[c].todo /\ p \in Path /\ AllClean
  BY <1>0, <1>1, FirstIn
     DEF ImmediateSnapshot, ImmediateWrite, CallTodo, Loading, CallState, MirrorCall
<1>3. UNCHANGED items
  BY DEF ImmediateSnapshot, ImmediateWrite, flushVars
<1>4. CASE ImmediateSnapshot(c)
  <2>1. PICK plan : plan = [q \in DOMAIN call[c].plan \cup {p} |->
                              IF q = p THEN [gen |-> 0, text |-> remote[p]]
                              ELSE call[c].plan[q]]
    OBVIOUS
  <2>2. PICK rest : rest = call[c].todo \ {p}
    OBVIOUS
  <2>3. call' = [call EXCEPT ![c].plan = plan,
                             ![c].todo = IF rest = {} THEN DOMAIN plan ELSE rest,
                             ![c].pc = IF rest = {} THEN "iwrite" ELSE "isnap"]
    BY <1>1, <1>4, <2>1, <2>2 DEF ImmediateSnapshot
  <2>4. /\ call'[c].plan = plan
        /\ \/ call'[c].pc = "isnap"
           \/ call'[c].pc = "iwrite" /\ call'[c].todo = DOMAIN plan
    BY <1>0, <2>3 DEF CallState
  <2>5. \A q \in DOMAIN call[c].plan : call[c].plan[q].text = remote[q]
    BY <1>0, <1>4 DEF ImmediateSnapshot, MirrorCall
  <2>6. \A q \in DOMAIN plan : plan[q].text = remote[q]
    BY <2>1, <2>5
  <2>7. UNCHANGED <<entry, remote>>
    BY <1>4 DEF ImmediateSnapshot, remoteVars, cacheVars
  <2>8. AllClean'
    BY <1>2, <1>3, <2>7 DEF AllClean
  <2> QED
    BY <1>0, <2>4, <2>6, <2>7, <2>8 DEF MirrorCall, Obtaining
<1>5. ASSUME NEW text \in Content, ImmediateWrite(c, text)
      PROVE  \A d \in Call : MirrorCall(call[d])'
  <2>1. CASE Return(c)
    BY <2>1, MirrorReturns
  <2>2. CASE /\ call' = [call EXCEPT ![c].todo = @ \ {p}]
             /\ UNCHANGED cacheVars
    <3>1. /\ call'[c].pc = "iwrite" /\ call'[c].todo = call[c].todo \ {p}
          /\ call'[c].plan = call[c].plan
      BY <1>0, <1>5, <2>2 DEF ImmediateWrite, CallState
    <3>2. \A q \in call[c].todo : q \in DOMAIN call[c].plan /\ call[c].plan[q].text = remote[q]
      BY <1>0, <1>5 DEF ImmediateWrite, MirrorCall
    <3>3. remote' = [remote EXCEPT ![p] = text] /\ call[c].todo \subseteq Path
      BY <1>0, <1>1, <1>5 DEF ImmediateWrite, CallState
    <3>4. \A q \in call[c].todo \ {p} : remote'[q] = remote[q]
      BY <1>0, <3>3
    <3>5. AllClean'
      BY <1>2, <1>3, <2>2 DEF AllClean, cacheVars
    <3> QED
      BY <1>0, <3>1, <3>2, <3>4, <3>5 DEF MirrorCall, Obtaining
  <2> QED
    BY <1>1, <1>5, <2>1, <2>2 DEF ImmediateWrite
<1> QED
  BY <1>4, <1>5

LEMMA MirrorCallStep ==
  ASSUME Alone, TypeInv, \A d \in Call : MirrorCall(call[d]),
         NEW c \in Call, CallStart(c) \/ CallStep(c) \/ CallFault(c)
  PROVE  \A d \in Call : MirrorCall(call[d])'
<1> DEFINE Goal == \A d \in Call : MirrorCall(call[d])'
<1>0. /\ call \in [Call -> CallState] /\ call[c] \in CallState /\ CallTodo(call[c])
      /\ MirrorCall(call[c]) /\ \A d \in Call : d = c
  BY DEF Alone, TypeInv, TypeOK, TaskOK, TodoOK
<1>1. CASE CallStart(c)
  BY <1>1, MirrorStart
<1>2. ASSUME ToImmediate(c) PROVE Goal
  <2>1. call'[c].pc = "iflush" /\ call'[c].plan = EmptyFunction
    BY <1>0, <1>2 DEF ToImmediate, CallState
  <2> QED
    BY <1>0, <2>1 DEF MirrorCall, Obtaining
<1>3. ASSUME NEW p, Loaded(c, p) PROVE Goal
  <2>1. PICK t : t = [call[c] EXCEPT
          !.todo = call[c].todo \ {p},
          !.plan = [q \in DOMAIN call[c].plan \cup {p} |->
                      IF q = p THEN [gen |-> entry[p].gen, text |-> entry[p].desired]
                      ELSE call[c].plan[q]],
          !.pc = IF call[c].todo \ {p} = {} THEN "mutate" ELSE "lookup"]
    OBVIOUS
  <2>2. t.pc \in {"mutate", "lookup"} /\ call' = [call EXCEPT ![c] = t]
    BY <1>0, <1>3, <2>1 DEF Loaded, CallState
  <2> QED
    BY <2>2, MirrorMoves
<1>4. CASE lookup_entry(c)
  BY <1>2, <1>3, <1>4, MirrorReturns, MirrorGoes DEF lookup_entry
<1>5. CASE LoadLock(c)
  <2>1. CASE Goto(c, "lookup2")
    BY <2>1, MirrorGoes
  <2>2. CASE Goto(c, "fetch") /\ First(call[c].todo) \notin Cached
    <3>1. /\ call'[c].pc = "fetch" /\ call'[c].todo = call[c].todo
          /\ UNCHANGED entry
      BY <1>0, <1>5, <2>2 DEF Goto, CallState, LoadLock
    <3> QED
      BY <1>0, <2>2, <3>1 DEF MirrorCall, Obtaining, Cached
  <2> QED
    BY <1>5, <2>1, <2>2 DEF LoadLock
<1>6. CASE fetch_complete(c) \/ ReadRemote(c)
  <2>1. CASE call' = [call EXCEPT ![c] = IdleCall]
    BY <2>1, MirrorReturns DEF Return
  <2>2. CASE \E pc \in {"insert", "rinsert"} :
               call' = [call EXCEPT ![c].pc = pc, ![c].snap = remote[First(call[c].todo)]]
    <3>1. /\ call'[c].pc \in {"insert", "rinsert"} /\ call'[c].todo = call[c].todo
          /\ call'[c].snap = remote[First(call[c].todo)]
      BY <1>0, <2>2 DEF CallState
    <3>2. UNCHANGED <<entry, remote>> /\ First(call[c].todo) \notin Cached
      BY <1>0, <1>6 DEF fetch_complete, ReadRemote, cacheVars, remoteVars, MirrorCall, Obtaining
    <3> QED
      BY <1>0, <3>1, <3>2 DEF MirrorCall, Obtaining, Cached
  <2> QED
    BY <1>6, <2>1, <2>2 DEF fetch_complete, ReadRemote
<1>7. CASE ImmediateSnapshot(c) \/ \E text \in Content : ImmediateWrite(c, text)
  BY <1>7, MirrorImmediate
<1>8. CASE \/ lookup_complete(c) \/ load_complete(c)
           \/ flush_barrier(c) \/ retry_outcome_unknown_host(c)
  BY <1>8, MirrorGoes DEF lookup_complete, load_complete, flush_barrier,
     retry_outcome_unknown_host
<1>9. CASE \/ cache_clean_if_absent(c) \/ EditRejected(c) \/ MutateStale(c)
           \/ CommandEnds(c) \/ discard_host_edits(c) \/ CallFault(c)
           \/ \E text \in Content : ImmediateFails(c, text)
  BY <1>9, MirrorReturns DEF cache_clean_if_absent, EditRejected, MutateStale,
     CommandEnds, discard_host_edits, CallFault, FetchFails, BarrierLeave, CommandFails,
     AbortCall, ImmediateFails
<1>10. ASSUME NEW want \in [DOMAIN call[c].plan -> Content], NEW bytes \in Payload,
              NEW number \in Numbering(DOMAIN call[c].plan),
              mutate_prepared_batch(c, want, bytes, number)
       PROVE  Goal
  <2>1. Return(c) \/ ToImmediate(c)
    BY <1>10 DEF mutate_prepared_batch
  <2> QED
    BY <1>2, <2>1, MirrorReturns
<1>11. CASE MutateTooLarge(c)
  BY <1>2, <1>11 DEF MutateTooLarge
<1> QED
  BY <1>1, <1>4, <1>5, <1>6, <1>7, <1>8, <1>9, <1>10, <1>11 DEF CallStep

\* The end of a flush that reports "clean" is the end of everything buffered.
LEMMA NothingLeft ==
  ASSUME TypeInv, MirrorInv, flusher = None, Flushable = {}
  PROVE  AllClean
<1>1. ASSUME NEW p \in DOMAIN items PROVE FALSE
  <2>1. p \in Cached /\ entry[p].inFlight = items[p].gen /\ items[p].gen \in 1 .. nextGen - 1
    BY DEF MirrorInv, BatchMarked, BufferInv, BatchCurrent
  <2>2. entry[p].inFlight # 0
    BY <2>1
  <2> QED
    BY <2>1, <2>2 DEF MirrorInv, InFlightOwned
<1>2. ASSUME NEW p \in Cached, entry[p].dirty PROVE FALSE
  BY <1>2 DEF MirrorInv, InFlightOwned, Flushable
<1> QED
  BY <1>1, <1>2 DEF AllClean, host_dirty, Cached

LEMMA MirrorSettle ==
  ASSUME TypeInv, MirrorInv, NEW successes \in SUBSET done,
         NEW error \in ErrorKind \cup {"none"}, Settle(successes, error)
  PROVE  \A d \in Call : MirrorCall(call[d])'
<1>1. /\ Cached' = Cached /\ UNCHANGED remote /\ DOMAIN items' = {}
      /\ \A p \in Cached : entry'[p].dirty => entry[p].dirty
  BY SettledEntries DEF Settle, EmptyFunction
<1>2. PICK result, woken : /\ Resume(flusher, result, woken)
                           /\ result = "clean" => ~host_dirty(entry')
  BY DEF Settle
<1>3. AllClean => AllClean'
  BY <1>1 DEF AllClean, host_dirty, Cached
<1>4. result = "clean" => AllClean'
  BY <1>1, <1>2 DEF AllClean, host_dirty
<1> QED
  BY <1>1, <1>2, <1>3, <1>4, MirrorFlushed

\* The item being committed is cached and dirty, so no call relies on its file.
LEMMA CommitsHeld ==
  ASSUME TypeInv, MirrorInv, CommitItemStep
  PROVE  \E p \in Cached :
           /\ p \in DOMAIN items \ done /\ entry[p].dirty
           /\ remote' = [remote EXCEPT ![p] = items[p].desired]
           /\ done' = done \cup {p}
<1>1. PICK p : p = First(Waiting)
  OBVIOUS
<1>2. p \in DOMAIN items \ done
  BY <1>1, FirstIn DEF CommitItemStep, Waiting, TypeInv, TypeOK, FlushOK
<1>3. p \in Cached /\ entry[p].inFlight = items[p].gen /\ items[p].gen \in 1 .. nextGen - 1
  BY <1>2 DEF MirrorInv, BatchMarked, BufferInv, BatchCurrent
<1>4. entry[p].dirty
  BY <1>3 DEF MirrorInv, BufferInv, MarkedDirty
<1>5. /\ remote' = [remote EXCEPT ![p] = items[p].desired] /\ done' = done \cup {p}
  BY <1>1 DEF CommitItemStep
<1> QED
  BY <1>2, <1>3, <1>4, <1>5

LEMMA MirrorCalls ==
  ASSUME Calm, TypeInv, MirrorInv, [Next]_vars
  PROVE  \A d \in Call : MirrorCall(call[d])'
<1> DEFINE Goal == \A d \in Call : MirrorCall(call[d])'
<1>0. /\ Alone /\ \A d \in Call : /\ call[d] \in CallState /\ CallTodo(call[d])
                                  /\ MirrorCall(call[d])
      /\ "foreign" \notin Faults /\ orphans = {}
      /\ \A p \in Cached : entry[p] \in Entry
  BY DEF Calm, MirrorInv, TypeInv, TypeOK, TaskOK, TodoOK, CacheOK
<1>1. ASSUME NEW c \in Call, CallStart(c) \/ CallStep(c) \/ CallFault(c) PROVE Goal
  BY <1>0, <1>1, MirrorCallStep
<1>2. ASSUME UNCHANGED call, Cached' \subseteq Cached,
             AllClean => AllClean' /\ UNCHANGED remote,
             \A p \in Path \ Cached : remote'[p] = remote[p]
      PROVE  Goal
  <2>1. ASSUME NEW d \in Call PROVE MirrorCall(call[d])'
    <3>1. PICK s \in CallState : s = call[d]
      BY <1>0
    <3>2. CallTodo(s) /\ MirrorCall(s)
      BY <1>0, <3>1
    <3>3. MirrorCall(s)'
      BY <1>2, <3>2, MirrorCallStays
    <3> QED
      BY <1>2, <3>1, <3>3 DEF MirrorCall, Obtaining
  <2> QED
    BY <2>1
<1>3. ASSUME UNCHANGED <<call, entry, remote, items>> PROVE Goal
  BY <1>2, <1>3 DEF AllClean, Cached
<1>4. CASE TimerCheck \/ TimerFires \/ shutdown \/ UNCHANGED vars
  BY <1>3, <1>4 DEF TimerCheck, TimerFires, shutdown, vars, remoteVars, cacheVars,
     flushVars, taskVars
<1>5. ASSUME NEW o \in Flusher, FlushNothing(o) PROVE Goal
  <2>1. /\ UNCHANGED <<entry, items, remote>>
        /\ Resume(o, IF host_conflict THEN "error" ELSE "clean", timer)
        /\ host_conflict \/ AllClean
    BY <1>5, NothingLeft DEF FlushNothing, remoteVars, cacheVars, flushVars
  <2>2. AllClean' <=> AllClean
    BY <2>1 DEF AllClean
  <2>3. PICK result : /\ Resume(o, result, timer)
                      /\ result = "clean" => ~host_conflict
    BY <2>1
  <2>4. result = "clean" => AllClean'
    BY <2>1, <2>2, <2>3
  <2>5. Cached' = Cached
    BY <2>1 DEF Cached
  <2> QED
    BY <2>1, <2>2, <2>3, <2>4, <2>5, MirrorFlushed
<1>6. ASSUME NEW o \in Flusher, FlushBegin(o) PROVE Goal
  <2>1. ~AllClean /\ Cached' = Cached /\ UNCHANGED <<call, remote>>
    BY <1>6 DEF FlushBegin, AllClean, host_dirty, Flushable, Cached, taskVars, remoteVars
  <2> QED
    BY <1>2, <2>1
<1>7. CASE CommitItemStep
  <2>1. PICK p \in Cached : /\ p \in DOMAIN items \ done /\ entry[p].dirty
                            /\ remote' = [remote EXCEPT ![p] = items[p].desired]
    BY <1>7, CommitsHeld
  <2>2. ~AllClean
    BY <2>1 DEF AllClean
  <2>3. UNCHANGED <<call, entry>>
    BY <1>7 DEF CommitItemStep, taskVars, cacheVars
  <2>4. \A q \in Path \ Cached : remote'[q] = remote[q]
    BY <2>1 DEF TypeInv, TypeOK, RemoteOK
  <2> QED
    BY <1>2, <2>2, <2>3, <2>4 DEF Cached
<1>8. CASE FlushSucceeds \/ FlushConflicts \/ FlushFault
  <2>1. \E successes \in SUBSET done, error \in ErrorKind \cup {"none"} :
          Settle(successes, error)
    BY <1>8 DEF FlushSucceeds, FlushConflicts, FlushFault, FlushFails, FlushUnknown,
       ErrorKind
  <2> QED
    BY <2>1, MirrorSettle
<1>9. ASSUME NEW c \in Call, NEW p \in Path, NEW text \in Content, CommandWrites(c, p, text)
      PROVE  Goal
  <2>1. /\ call[c].pc = "command" /\ \A d \in Call : d = c
        /\ UNCHANGED <<call, entry, items>> /\ AllClean
    BY <1>0, <1>9 DEF CommandWrites, Alone, MirrorCall, cacheVars, flushVars, taskVars
  <2> QED
    BY <2>1 DEF MirrorCall, Obtaining, AllClean, Cached
<1>10. CASE Environment
  <2>1. CASE (\E i \in orphans : OrphanApplies(i)) \/ OrphansEnd
             \/ \E p \in Path, text \in Content : ForeignWrite(p, text)
    BY <1>0, <2>1 DEF OrphansEnd, ForeignWrite
  <2>2. CASE CloseInput
    BY <1>3, <2>2 DEF CloseInput, remoteVars, cacheVars, flushVars
  <2> QED
    BY <1>9, <1>10, <2>1, <2>2 DEF Environment
<1> QED
  BY <1>1, <1>4, <1>5, <1>6, <1>7, <1>8, <1>10 DEF Next, FlushStep

\* A call that flushes, or whose barrier does, only waits.
LEMMA WaitsForFlush ==
  ASSUME TypeInv, "abort" \notin Faults, NEW c \in Call,
         CallStart(c) \/ CallStep(c) \/ CallFault(c)
  PROVE  /\ UNCHANGED <<flusher, items>> /\ call[c].pc \notin {"iflush", "sflush"}
         /\ \/ UNCHANGED barrier /\ call[c].pc # "bflush"
            \/ flush_barrier(c) \/ BarrierLeave(c)
<1>1. CASE CallStart(c)
  BY <1>1 DEF CallStart, ReadLookup, EditCall, BarrierCall, SyncCall, DiscardCall, flushVars
<1>2. CASE CallFault(c)
  BY <1>2 DEF CallFault, FetchFails, BarrierLeave, CommandFails, AbortCall, flushVars
<1>3. CASE \/ ReadRemote(c) \/ cache_clean_if_absent(c)
           \/ lookup_entry(c) \/ lookup_complete(c) \/ LoadLock(c)
           \/ fetch_complete(c) \/ load_complete(c)
  BY <1>3 DEF ReadRemote, cache_clean_if_absent, lookup_entry, lookup_complete, LoadLock,
     fetch_complete, load_complete, flushVars
<1>4. CASE \/ EditRejected(c) \/ MutateTooLarge(c) \/ MutateStale(c)
           \/ ImmediateSnapshot(c) \/ flush_barrier(c) \/ CommandEnds(c)
           \/ retry_outcome_unknown_host(c) \/ discard_host_edits(c)
  BY <1>4 DEF EditRejected, MutateTooLarge, MutateStale, ImmediateSnapshot, flush_barrier,
     CommandEnds, retry_outcome_unknown_host, discard_host_edits, flushVars
<1>5. CASE \/ \E want \in [DOMAIN call[c].plan -> Content], bytes \in Payload,
                 number \in Numbering(DOMAIN call[c].plan) :
                mutate_prepared_batch(c, want, bytes, number)
           \/ \E text \in Content : ImmediateWrite(c, text) \/ ImmediateFails(c, text)
  BY <1>5 DEF mutate_prepared_batch, ImmediateWrite, ImmediateFails, flushVars
<1> QED
  BY <1>1, <1>2, <1>3, <1>4, <1>5 DEF CallStep

\* What a flush does to its caller and to the caller of its barrier.
LEMMA ResumeWaits ==
  ASSUME TypeInv, NEW o \in Flusher, NEW result, NEW woken, Resume(o, result, woken),
         o \in Call => call[o].pc \in {"iflush", "sflush"},
         barrier \in Call => call[barrier].pc = "bflush"
  PROVE  /\ barrier' \in Call => barrier' = barrier /\ call'[barrier].pc = "bflush"
         /\ \A d \in Call : call[d].pc \notin {"iflush", "sflush", "bflush"} =>
              call'[d] = call[d]
<1>1. ASSUME NEW d \in Call, call[d].pc \notin {"iflush", "sflush", "bflush"}
      PROVE  call'[d] = call[d]
  BY <1>1 DEF Resume
<1>2. ASSUME barrier' \in Call
      PROVE  barrier' = barrier /\ call'[barrier].pc = "bflush"
  <2>1. barrier' = barrier
    BY <1>2, EditCacheAssumption DEF Resume, EditCacheAssumption, Background, TypeInv, TypeOK, TaskOK
  <2>2. barrier \in Call /\ call[barrier].pc = "bflush"
    BY <1>2, <2>1
  <2>3. o # barrier
    BY <2>2
  <2>4. o = "barrier" => result = "more"
    BY <1>2, EditCacheAssumption DEF Resume, EditCacheAssumption
  <2>5. call'[barrier] = call[barrier]
    BY <2>2, <2>3, <2>4 DEF Resume, CallAfterFlush
  <2> QED
    BY <2>1, <2>2, <2>5
<1> QED
  BY <1>1, <1>2

LEMMA FlushWaitsStep ==
  ASSUME Calm, TypeInv, MirrorInv, [Next]_vars
  PROVE  FlushWaits'
<1>0. /\ Alone /\ "abort" \notin Faults /\ FlushWaits
      /\ call \in [Call -> CallState] /\ \A c, d \in Call : c = d
      /\ barrier \in Call \cup {None, "off"} /\ flusher \in Flusher \cup {None}
  BY EditCacheAssumption DEF Calm, Alone, MirrorInv, TypeInv, TypeOK, TaskOK, FlushOK,
     Flusher, Background, EditCacheAssumption
<1>1. ASSUME UNCHANGED <<flusher, items, barrier, call>> PROVE FlushWaits'
  BY <1>0, <1>1 DEF FlushWaits
<1>2. ASSUME NEW c \in Call, CallStart(c) \/ CallStep(c) \/ CallFault(c) PROVE FlushWaits'
  <2>1. /\ UNCHANGED <<flusher, items>> /\ call[c].pc \notin {"iflush", "sflush"}
        /\ \/ UNCHANGED barrier /\ call[c].pc # "bflush"
           \/ flush_barrier(c) \/ BarrierLeave(c)
    BY <1>0, <1>2, WaitsForFlush
  <2>2. flusher \notin Call /\ flusher' \notin Call
    BY <1>0, <2>1 DEF FlushWaits
  <2>3. barrier' \in Call => call'[barrier'].pc = "bflush"
    <3>1. CASE UNCHANGED barrier /\ call[c].pc # "bflush"
      BY <1>0, <3>1 DEF FlushWaits
    <3>2. CASE flush_barrier(c)
      <4>1. barrier' = c /\ call'[c].pc = "bflush"
        BY <1>0, <3>2 DEF flush_barrier, Goto, CallState
      <4> QED
        BY <4>1
    <3>3. CASE BarrierLeave(c)
      <4>1. barrier' = IF barrier = c THEN None ELSE barrier
        BY <3>3 DEF BarrierLeave
      <4>2. barrier' \notin Call
        BY <1>0, <4>1, EditCacheAssumption DEF EditCacheAssumption
      <4> QED
        BY <4>2
    <3> QED
      BY <2>1, <3>1, <3>2, <3>3
  <2> QED
    BY <1>0, <2>1, <2>2, <2>3 DEF FlushWaits
<1>3. ASSUME NEW o \in Flusher, FlushNothing(o) PROVE FlushWaits'
  <2>1. /\ UNCHANGED <<flusher, items>> /\ flusher = None
        /\ \E result : Resume(o, result, timer)
        /\ o \in Call => call[o].pc \in {"iflush", "sflush"}
    BY <1>3, EditCacheAssumption
       DEF FlushNothing, flushVars, WantsFlush, EditCacheAssumption, Background
  <2>2. barrier' \in Call => barrier' = barrier /\ call'[barrier].pc = "bflush"
    BY <1>0, <2>1, ResumeWaits DEF FlushWaits
  <2> QED
    BY <1>0, <2>1, <2>2, EditCacheAssumption DEF FlushWaits, EditCacheAssumption
<1>4. ASSUME NEW o \in Flusher, FlushBegin(o) PROVE FlushWaits'
  <2>1. /\ flusher' = o /\ DOMAIN items' = Flushable /\ Flushable # {}
        /\ UNCHANGED <<barrier, call>>
        /\ o \in Call => call[o].pc \in {"iflush", "sflush"}
    BY <1>4, EditCacheAssumption
       DEF FlushBegin, taskVars, WantsFlush, EditCacheAssumption, Background
  <2> QED
    BY <1>0, <2>1 DEF FlushWaits
<1>5. CASE FlushSucceeds \/ FlushConflicts \/ FlushFault
  <2>1. PICK successes, error : Settle(successes, error) /\ flusher # None
    BY <1>5 DEF FlushSucceeds, FlushConflicts, FlushFault, FlushFails, FlushUnknown
  <2>2. flusher' = None /\ \E result, woken : Resume(flusher, result, woken)
    BY <2>1 DEF Settle
  <2>3. flusher \in Flusher /\ (flusher \in Call => call[flusher].pc \in {"iflush", "sflush"})
    BY <1>0, <2>1 DEF FlushWaits
  <2>4. barrier' \in Call => barrier' = barrier /\ call'[barrier].pc = "bflush"
    BY <1>0, <2>2, <2>3, ResumeWaits DEF FlushWaits
  <2> QED
    BY <2>2, <2>4, EditCacheAssumption DEF FlushWaits, EditCacheAssumption
<1>6. CASE TimerCheck \/ TimerFires \/ shutdown \/ CommitItemStep \/ Environment
           \/ UNCHANGED vars
  BY <1>1, <1>6 DEF TimerCheck, TimerFires, shutdown, CommitItemStep, Environment,
     CommandWrites, ForeignWrite, OrphanApplies, OrphansEnd, CloseInput,
     flushVars, taskVars, vars
<1> QED
  BY <1>2, <1>3, <1>4, <1>5, <1>6 DEF Next, FlushStep

\* A call that has written what it had to leaves no clean entry behind.
LEMMA WritingEnds ==
  ASSUME Calm, TypeInv, MirrorInv, [Next]_vars, NEW c \in Call,
         Writing(call[c]), ~Writing(call'[c])
  PROVE  Cached' = {}
<1>0. /\ Alone /\ "abort" \notin Faults /\ "runfails" \notin Faults /\ FlushWaits
      /\ call \in [Call -> CallState] /\ \A d \in Call : d = c
      /\ MirrorCall(call[c])
  BY DEF Calm, Alone, MirrorInv, TypeInv, TypeOK, TaskOK
<1>1. call[c].pc \in {"iwrite", "command"} /\ AllClean
  BY <1>0 DEF Writing, MirrorCall
<1>2. call'[c] # call[c] /\ flusher = None
  BY <1>0, <1>1 DEF FlushWaits, AllClean
<1>3. ASSUME InvalidateClean PROVE Cached' = {}
  <2>1. Evictable({}) = Cached
    BY <1>1 DEF Evictable, AllClean, host_dirty, MirrorInv, BufferInv, MarkedDirty, Cached
  <2>2. Cached' = Cached \ Evictable({})
    BY <1>3 DEF InvalidateClean, Without, Restrict, Cached
  <2> QED
    BY <2>1, <2>2
<1>4. ASSUME NEW d \in Call, CallStart(d) \/ CallStep(d) \/ CallFault(d)
      PROVE  InvalidateClean
  <2>1. d = c
    BY <1>0
  <2>2. ~CallStart(c)
    BY <1>1 DEF CallStart, ReadLookup, EditCall, BarrierCall, SyncCall, DiscardCall
  <2>3. ~CallFault(c)
    BY <1>0, <1>1 DEF CallFault, FetchFails, BarrierLeave, CommandFails, AbortCall
  <2>4. ASSUME NEW text \in Content, ImmediateFails(c, text) PROVE FALSE
    BY <2>4, WritesGuarded
  <2>5. ASSUME NEW text \in Content, ImmediateWrite(c, text) PROVE InvalidateClean
    <3>1. call' = [call EXCEPT ![c].todo = @ \ {First(call[c].todo)}] => Writing(call'[c])
      BY <1>0, <2>5 DEF ImmediateWrite, Writing, CallState
    <3> QED
      BY <2>5, <3>1 DEF ImmediateWrite
  <2>6. ASSUME CommandEnds(c) PROVE InvalidateClean
    BY <2>6 DEF CommandEnds, Writing
  <2>7. ~ (\/ ReadRemote(c) \/ cache_clean_if_absent(c)
           \/ lookup_entry(c) \/ lookup_complete(c) \/ LoadLock(c)
           \/ fetch_complete(c) \/ load_complete(c)
           \/ EditRejected(c) \/ MutateTooLarge(c) \/ MutateStale(c)
           \/ ImmediateSnapshot(c) \/ flush_barrier(c)
           \/ retry_outcome_unknown_host(c) \/ discard_host_edits(c))
    BY <1>1 DEF ReadRemote, cache_clean_if_absent, lookup_entry, lookup_complete, LoadLock,
       fetch_complete, load_complete, EditRejected, MutateTooLarge, MutateStale,
       ImmediateSnapshot, flush_barrier, retry_outcome_unknown_host, discard_host_edits
  <2>8. ASSUME NEW want \in [DOMAIN call[c].plan -> Content], NEW bytes \in Payload,
               NEW number \in Numbering(DOMAIN call[c].plan),
               mutate_prepared_batch(c, want, bytes, number)
        PROVE  FALSE
    BY <1>1, <2>8 DEF mutate_prepared_batch
  <2> QED
    BY <1>4, <2>1, <2>2, <2>3, <2>4, <2>5, <2>6, <2>7, <2>8 DEF CallStep
<1>5. ASSUME NEW o \in Flusher, FlushNothing(o) PROVE FALSE
  <2>1. /\ \E result : Resume(o, result, timer)
        /\ o \in Call => call[o].pc \in {"iflush", "sflush"}
    BY <1>5, EditCacheAssumption
       DEF FlushNothing, WantsFlush, EditCacheAssumption, Background
  <2>2. call'[c] = call[c]
    BY <1>0, <1>1, <2>1, ResumeWaits DEF FlushWaits
  <2> QED
    BY <1>2, <2>2
<1>6. ASSUME NEW o \in Flusher, FlushBegin(o) PROVE FALSE
  BY <1>2, <1>6 DEF FlushBegin, taskVars
<1>7. ~ (CommitItemStep \/ FlushSucceeds \/ FlushConflicts \/ FlushFault)
  BY <1>2 DEF CommitItemStep, FlushSucceeds, FlushConflicts, FlushFault, FlushFails,
     FlushUnknown
<1>8. ~ (TimerCheck \/ TimerFires \/ shutdown \/ Environment \/ UNCHANGED vars)
  BY <1>2 DEF TimerCheck, TimerFires, shutdown, Environment, CommandWrites, ForeignWrite,
     OrphanApplies, OrphansEnd, CloseInput, taskVars, vars
<1> QED
  BY <1>3, <1>4, <1>5, <1>6, <1>7, <1>8 DEF Next, FlushStep

\* While nobody writes, what becomes clean or is inserted is the remote file.
LEMMA MirroredKept ==
  ASSUME Calm, TypeInv, MirrorInv, [Next]_vars, UNCHANGED remote,
         \A p \in Cached : ~entry[p].dirty => entry[p].desired = remote[p],
         NEW p \in Cached', ~entry'[p].dirty
  PROVE  entry'[p].desired = remote[p]
<1>1. ASSUME p \in Cached, entry'[p] = entry[p] PROVE entry'[p].desired = remote[p]
  BY <1>1
<1>2. CASE p \notin Cached
  <2>1. PICK c \in Call : /\ p = First(call[c].todo) /\ entry'[p].desired = call[c].snap
                          /\ call[c].pc \in {"insert", "rinsert"}
    BY <1>2, NewEntries
  <2>2. call[c].snap = remote[p]
    BY <2>1 DEF MirrorInv, MirrorCall
  <2> QED
    BY <2>1, <2>2
<1>3. CASE p \in Cached /\ CleanStep
  BY <1>1, <1>3 DEF CleanStep, Keeps
<1>4. CASE p \in Cached /\ (DiscardStep \/ ApplyStep \/ GiveUpStep)
  BY <1>1, <1>4 DEF DiscardStep, ApplyStep, GiveUpStep, Keeps
<1>5. CASE p \in Cached /\ RetryStep
  BY <1>5 DEF RetryStep
<1>6. ASSUME NEW c \in Call, EditStep(c) PROVE entry'[p].desired = remote[p]
  BY <1>1, <1>6 DEF EditStep, Keeps
<1>7. ASSUME p \in Cached, SettleStep PROVE entry'[p].desired = remote[p]
  <2>1. PICK successes \in SUBSET done, error \in ErrorKind \cup {"none"} : Settle(successes, error)
    BY <1>7 DEF SettleStep
  <2>2. /\ p \in DOMAIN items /\ entry[p].inFlight = items[p].gen /\ p \in successes
             /\ entry'[p] = Succeeded(entry[p], items[p])
        \/ entry'[p] = Failed(entry[p], error)
        \/ entry'[p] = entry[p]
    BY <1>7, <2>1 DEF Settle
  <2>3. entry[p] \in Entry
    BY <1>7 DEF TypeInv, TypeOK, CacheOK
  <2>4. CASE entry'[p] = Failed(entry[p], error)
    BY <1>7, <2>3, <2>4 DEF Failed, Entry
  <2>5. CASE /\ p \in DOMAIN items /\ entry[p].inFlight = items[p].gen /\ p \in successes
             /\ entry'[p] = Succeeded(entry[p], items[p])
    <3>1. /\ entry'[p].desired = entry[p].desired
          /\ ~entry[p].dirty \/ entry[p].gen = items[p].gen
      BY <2>3, <2>5 DEF Succeeded, Entry
    <3>2. entry[p].gen = items[p].gen => entry[p].desired = remote[p]
      BY <1>7, <2>1, <2>5 DEF MirrorInv, BufferInv, BatchCurrent, DoneStored
    <3> QED
      BY <1>7, <3>1, <3>2
  <2> QED
    BY <1>1, <1>7, <2>2, <2>4, <2>5
<1>8. ASSUME NEW o \in Flusher, FlushBegin(o), p \in Cached
      PROVE  entry'[p].desired = remote[p]
  <2>1. entry'[p] \in {entry[p], [entry[p] EXCEPT !.inFlight = entry[p].gen]}
    BY <1>8 DEF FlushBegin
  <2>2. entry[p] \in Entry
    BY <1>8 DEF TypeInv, TypeOK, CacheOK
  <2> QED
    BY <1>8, <2>1, <2>2 DEF Entry
<1> QED
  BY <1>2, <1>3, <1>4, <1>5, <1>6, <1>7, <1>8, NextStepKind DEF StepKind

LEMMA MirroredStep ==
  ASSUME Calm, TypeInv, MirrorInv, [Next]_vars
  PROVE  Mirrored' /\ DoneStored' /\ orphans' = {}
<1>0. /\ \A c \in Call : Writing(call[c]) => AllClean
      /\ remote \in [Path -> Content] /\ done \subseteq DOMAIN items
      /\ Cached \subseteq Path
  BY DEF MirrorInv, MirrorCall, Writing, TypeInv, TypeOK, RemoteOK, FlushOK, CacheOK
<1>1. orphans' = {}
  BY CalmMoves
<1>2. CASE CommitItemStep
  <2>1. PICK p \in Cached : /\ p \in DOMAIN items \ done /\ entry[p].dirty
                            /\ remote' = [remote EXCEPT ![p] = items[p].desired]
                            /\ done' = done \cup {p}
    BY <1>2, CommitsHeld
  <2>2. UNCHANGED <<entry, items, call>>
    BY <1>2 DEF CommitItemStep, cacheVars, taskVars
  <2>3. DoneStored'
    BY <1>0, <2>1, <2>2 DEF MirrorInv, DoneStored
  <2>4. Mirrored'
    BY <1>0, <2>1, <2>2 DEF MirrorInv, Mirrored, Cached
  <2> QED
    BY <1>1, <2>3, <2>4
<1>3. ASSUME NEW c \in Call, Writing(call[c]) PROVE Mirrored'
  <2>1. CASE Writing(call'[c])
    BY <2>1 DEF Mirrored, Writing
  <2>2. CASE ~Writing(call'[c])
    BY <1>3, <2>2, WritingEnds DEF Mirrored
  <2> QED
    BY <2>1, <2>2
<1>4. ASSUME \/ \E c \in Call, text \in Content : ImmediateWrite(c, text)
             \/ \E c \in Call, p \in Path, text \in Content : CommandWrites(c, p, text)
      PROVE  Mirrored' /\ DoneStored'
  <2>1. PICK c \in Call : Writing(call[c])
    BY <1>4 DEF ImmediateWrite, CommandWrites, Writing
  <2>2. UNCHANGED <<items, done>> /\ done = {}
    BY <1>0, <1>4, <2>1 DEF ImmediateWrite, CommandWrites, flushVars, AllClean
  <2> QED
    BY <1>3, <2>1, <2>2 DEF DoneStored
<1>5. ASSUME UNCHANGED remote, UNCHANGED <<items, done>> \/ done' = {}
      PROVE  Mirrored' /\ DoneStored'
  <2>1. DoneStored'
    BY <1>5 DEF MirrorInv, DoneStored
  <2>2. CASE \A c \in Call : ~Writing(call[c])
    <3>1. \A p \in Cached : ~entry[p].dirty => entry[p].desired = remote[p]
      BY <2>2 DEF MirrorInv, Mirrored
    <3>2. \A p \in Cached' : ~entry'[p].dirty => entry'[p].desired = remote'[p]
      BY <1>5, <3>1, MirroredKept
    <3> QED
      BY <2>1, <3>2 DEF Mirrored
  <2> QED
    BY <1>3, <2>1, <2>2
<1> QED
  BY <1>1, <1>2, <1>4, <1>5, CalmMoves

LEMMA InitMirror == Init => MirrorInv
<1> SUFFICES ASSUME Init PROVE MirrorInv
  OBVIOUS
<1>1. BufferInv /\ InFlightOwned
  BY InitGuard, InitInFlight DEF GuardInv
<1>2. FlushWaits
  BY EditCacheAssumption DEF Init, FlushWaits, EditCacheAssumption
<1>3. DiscardAsked /\ BatchMarked /\ DoneStored /\ Mirrored /\ orphans = {}
  BY DEF Init, DiscardAsked, BatchMarked, DoneStored, Mirrored, Cached, IdleCall, EmptyFunction
<1>4. \A c \in Call : MirrorCall(call[c])
  BY DEF Init, MirrorCall, Obtaining, IdleCall
<1> QED
  BY <1>1, <1>2, <1>3, <1>4 DEF MirrorInv

LEMMA MirrorStep ==
  ASSUME Calm, TypeInv, MirrorInv, [Next]_vars
  PROVE  MirrorInv'
<1>1. DiscardAsked' /\ InFlightOwned'
  BY DiscardAskedStep, InFlightStep DEF Calm, MirrorInv
<1>2. BufferInv'
  <2>1. CASE CleanStep \/ DiscardStep \/ RetryStep \/ ApplyStep \/ GiveUpStep
    BY <2>1, BufferKeeps DEF MirrorInv
  <2>2. CASE SettleStep
    BY <2>2, BufferSettle DEF MirrorInv
  <2>3. ASSUME NEW c \in Call, EditStep(c) PROVE BufferInv'
    BY <2>3, BufferEdit DEF MirrorInv
  <2>4. ASSUME NEW o \in Flusher, FlushBegin(o) PROVE BufferInv'
    BY <2>4, BufferBegin DEF MirrorInv
  <2> QED
    BY <2>1, <2>2, <2>3, <2>4, NextStepKind DEF StepKind
<1>3. BatchMarked' /\ FlushWaits' /\ Mirrored' /\ DoneStored' /\ orphans' = {}
  BY BatchMarkedStep, FlushWaitsStep, MirroredStep
<1>4. \A d \in Call : MirrorCall(call[d])'
  BY MirrorCalls
<1> QED
  BY <1>1, <1>2, <1>3, <1>4 DEF MirrorInv, MirrorCall, Obtaining

(* With one call at a time, no writer but the bridge and its commands, and  *)
(* no failure that leaves a remote write behind without its invalidation,   *)
(* a clean cached file is the remote file unless a command or an immediate  *)
(* write is running: loads, commits, invalidations and evictions keep       *)
(* remote_read honest (load_complete, flush_once, invalidate_clean_host).   *)
THEOREM CacheMirrorsRemote ==
  ASSUME Calm
  PROVE  Spec => []CleanMirrorsRemote
<1>1. TypeInv /\ MirrorInv /\ [Next]_vars => (TypeInv /\ MirrorInv)'
  BY StepTypeInv, MirrorStep
<1>2. Init => TypeInv /\ MirrorInv
  BY InitTypeInv, InitMirror
<1>3. TypeInv /\ MirrorInv => CleanMirrorsRemote
  BY DEF MirrorInv, Mirrored, Writing, CleanMirrorsRemote
<1> QED
  BY <1>1, <1>2, <1>3, PTL DEF Spec
=============================================================================
