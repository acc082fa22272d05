------------------------------ MODULE EditCache ------------------------------
(***************************************************************************)
(* The write-back edit cache of one SSH host (src/remote/edit_cache.rs),   *)
(* the tool calls of RemoteBridge that use it (src/remote/mod.rs, read.rs, *)
(* write.rs, patch.rs) and the remote files it writes back to through      *)
(* EditBackend (src/remote/edit_sync.rs).                                  *)
(*                                                                         *)
(* Every access to CacheState happens under one short-lived mutex, so an   *)
(* action is one critical section of that mutex; the steps a task takes    *)
(* between two awaits are what can interleave.  Two longer locks order the *)
(* tasks: `prep' (HostRuntime.preparation) and the flush lock, held by     *)
(* `flusher' (HostRuntime.flush).                                          *)
(*                                                                         *)
(* An operator named X_Y is operator X with the mistake Y, kept to show    *)
(* which property notices it; no action uses one.                          *)
(***************************************************************************)
EXTENDS Integers, FiniteSets, Functions

CONSTANTS
  Path,        \* remote paths; numbers, since a batch is committed in path order
  Content,     \* file contents; equal contents have equal SHA-256
  NoFile,      \* the member of Content that stands for a missing file
  Size,        \* Size[c]: bytes of content c
  MaxBytes,    \* config.max_bytes
  Payload,     \* payload sizes an edit may report
  Threshold,   \* config.flush_threshold_bytes
  Call,        \* tool calls that can be outstanding at the same time
  Ops,         \* the tools these calls use
  MaxBatch,    \* most paths one edit touches
  Faults,      \* what may go wrong in the environment
  MaxGen,      \* bound: generations handed out
  MaxForeign,  \* bound: remote writes not made by the bridge
  None         \* no task

AllOps == {"read", "edit", "observe", "run", "sync", "discard"}

AllFaults == {"transient", "permanent", "unknown", "fetch", "runfails",
              "leave", "foreign", "abort", "close"}

ErrorKind == {"Transient", "Conflict", "OutcomeUnknown", "Permanent"}

Background == {"timer", "spawned", "barrier", "shutdown"}

ASSUME EditCacheAssumption ==
  /\ Path \subseteq Nat /\ IsFiniteSet(Path)
  /\ NoFile \in Content
  /\ Size \in [Content -> Nat] /\ Size[NoFile] = 0
  /\ MaxBytes \in Nat /\ Threshold \in Nat \ {0}
  /\ Payload \subseteq Nat
  /\ Ops \subseteq AllOps /\ Faults \subseteq AllFaults
  /\ MaxBatch \in Nat /\ MaxGen \in Nat /\ MaxForeign \in Nat
  /\ Call \cap (Background \cup {"off"}) = {} /\ None \notin Call \cup Background

VARIABLES
  remote,      \* contents of the remote files
  orphans,     \* commit items a given-up batch script may still apply
  foreign,     \* remote writes made so far by others than the bridge
  entry,       \* HostState.entries: path -> Entry, for the cached paths
  older,       \* lru_sequence order: <<q, p>> when q was used before p
  cachedBytes, \* CacheState.cached_bytes
  nextGen,     \* CacheState.next_generation
  payload,     \* HostState.dirty_payload_bytes, counted up to Threshold
  firstDirty,  \* first_dirty_deadline is set
  retry,       \* retry_deadline is set
  timer,       \* the task of spawn_timer; timer_running is timer # "off"
  spawned,     \* flush_once tasks spawned by the payload threshold
  prep,        \* holder of the preparation lock
  flusher,     \* holder of the flush lock while it commits a batch
  items,       \* the batch being committed: path -> CommitItem
  done,        \* items the remote script has applied
  barrier,     \* the flush_barrier worker: "off", or the call it reports to
  call,        \* the tool calls
  life,        \* the MCP server around the cache
  applied,     \* history: generations the remote files received
  dropped,     \* history: generations superseded or explicitly discarded
  root         \* history: remote content a path's buffered text derives from

remoteVars == <<remote, orphans, foreign>>
cacheVars  == <<entry, older, cachedBytes, nextGen>>
timerVars  == <<payload, firstDirty, retry, timer, spawned>>
flushVars  == <<flusher, items, done>>
taskVars   == <<prep, barrier, call, life>>
history    == <<applied, dropped, root>>
vars == <<remoteVars, cacheVars, timerVars, flushVars, taskVars, history>>

-----------------------------------------------------------------------------
(* Types.  Generation 0 is a clean snapshot; inFlight = 0 is None.         *)

Gen == 0 .. MaxGen

Entry == [base : Content, desired : Content, gen : Gen, dirty : BOOLEAN,
          inFlight : Gen, conflict : ErrorKind \cup {"none"}]

CommitItem == [base : Content, desired : Content, gen : Gen]

OrphanItem == [path : Path, base : Content, desired : Content, gen : Gen]

Seen == [gen : Gen, text : Content]

PC == {"idle", "lookup", "load", "loadwait", "fetch", "insert", "lookup2", "mutate",
       "iflush", "isnap", "iwrite", "rfetch", "rinsert", "bwait", "bflush",
       "command", "swait", "sflush", "dwait"}

Plan == UNION {[D -> Seen] : D \in SUBSET Path}

CallState == [op : AllOps, pc : PC, todo : SUBSET Path, plan : Plan,
              snap : Content, before : 0 .. MaxGen + 1]

EmptyFunction == [p \in {} |-> p]

IdleCall == [op |-> "read", pc |-> "idle", todo |-> {}, plan |-> EmptyFunction,
             snap |-> NoFile, before |-> 0]

-----------------------------------------------------------------------------
(* Helpers of CacheState and HostState.                                    *)

Cached == DOMAIN entry

(* `usize::saturating_sub'. *)
Minus(a, b) == IF a > b THEN a - b ELSE 0

SizeOf(S) == SumFunctionOnSet([p \in Cached |-> Size[entry[p].desired]], S)

host_dirty(e) == \E p \in DOMAIN e : e[p].dirty

host_conflict == \E p \in Cached : entry[p].conflict # "none"

(* next_lru: the paths of S become the most recently used ones. *)
Touch(S) == {r \in older : r[1] \notin S /\ r[2] \notin S}
              \cup ((Path \ S) \X S)

(* make_capacity: clean, idle, unprotected entries go, least recently used *)
(* first, while the demand does not fit.                                   *)
Evictable(protected) ==
  {p \in Cached \ protected : ~entry[p].dirty /\ entry[p].inFlight = 0}

Victims(additional, protected) ==
  {p \in Evictable(protected) :
     Minus(cachedBytes,
           SizeOf({q \in Evictable(protected) : <<q, p>> \in older}))
       + additional > MaxBytes}

make_capacity(additional, protected) ==
  Minus(cachedBytes, SizeOf(Victims(additional, protected))) + additional
    =< MaxBytes

Without(S) == Restrict(entry, Cached \ S)

First(S) == CHOOSE p \in S : \A q \in S : p =< q

(* Notify::notify_waiters wakes a timer that waits or sleeps. *)
Notified == IF timer \in {"wait", "sleep"} THEN "check" ELSE timer

(* A clean entry holding snapshot `text' for p, inserted if p is absent    *)
(* and fits (the tail of load_complete and cache_clean_if_absent).         *)
InsertClean(p, text) ==
  LET victims == Victims(Size[text], {})
      kept    == Cached \ victims
      clean   == [base |-> text, desired |-> text, gen |-> 0, dirty |-> FALSE,
                  inFlight |-> 0, conflict |-> "none"]
  IN  IF p \in Cached \/ MaxBytes < Size[text]
      THEN UNCHANGED <<entry, older, cachedBytes>>
      ELSE IF make_capacity(Size[text], {})
      THEN /\ entry' = [q \in kept \cup {p} |-> IF q = p THEN clean ELSE entry[q]]
           /\ older' = Touch({p})
           /\ cachedBytes' = Minus(cachedBytes, SizeOf(victims)) + Size[text]
      ELSE /\ entry' = Without(victims)
           /\ cachedBytes' = Minus(cachedBytes, SizeOf(victims))
           /\ UNCHANGED older

(* invalidate_clean_host. *)
InvalidateClean_KeepsBytes ==
  /\ entry' = Without(Evictable({}))
  /\ UNCHANGED <<older, cachedBytes, nextGen>>

InvalidateClean_Forgotten == UNCHANGED cacheVars

InvalidateClean ==
  /\ entry' = Without(Evictable({}))
  /\ cachedBytes' = Minus(cachedBytes, SizeOf(Evictable({})))
  /\ UNCHANGED <<older, nextGen>>

Goto(c, pc) == call' = [call EXCEPT ![c].pc = pc]

Return(c) == call' = [call EXCEPT ![c] = IdleCall]

Release == prep' = None

-----------------------------------------------------------------------------
Init ==
  /\ remote \in [Path -> Content]
  /\ orphans = {} /\ foreign = 0
  /\ entry = EmptyFunction /\ older = {} /\ cachedBytes = 0 /\ nextGen = 1
  /\ payload = 0 /\ firstDirty = FALSE /\ retry = FALSE
  /\ timer = "off" /\ spawned = 0
  /\ prep = None
  /\ flusher = None /\ items = EmptyFunction /\ done = {}
  /\ barrier = "off"
  /\ call = [c \in Call |-> IdleCall]
  /\ life = "up"
  /\ applied = {} /\ dropped = {}
  /\ root = [p \in Path |-> NoFile]

-----------------------------------------------------------------------------
(* remote_read: serve a cached path, else read the remote file and seed    *)
(* the cache with it.  No lock is held between the three steps.            *)

ReadLookup(c, p) ==
  /\ life = "up" /\ "read" \in Ops
  /\ call[c].pc = "idle"
  /\ IF p \in Cached
     THEN /\ older' = Touch({p})
          /\ UNCHANGED call
     ELSE /\ call' = [call EXCEPT ![c] = [IdleCall EXCEPT !.pc = "rfetch", !.todo = {p}]]
          /\ UNCHANGED older
  /\ UNCHANGED <<remoteVars, entry, cachedBytes, nextGen, timerVars, flushVars,
                 prep, barrier, life, history>>

ReadRemote(c) ==
  /\ call[c].pc = "rfetch"
  /\ LET text == remote[First(call[c].todo)]
     IN  call' = IF text = NoFile
                 THEN [call EXCEPT ![c] = IdleCall]
                 ELSE [call EXCEPT ![c].pc = "rinsert", ![c].snap = text]
  /\ UNCHANGED <<remoteVars, cacheVars, timerVars, flushVars, prep, barrier,
                 life, history>>

cache_clean_if_absent(c) ==
  /\ call[c].pc = "rinsert"
  /\ InsertClean(First(call[c].todo), call[c].snap)
  /\ Return(c)
  /\ UNCHANGED <<remoteVars, nextGen, timerVars, flushVars, prep, barrier,
                 life, history>>

-----------------------------------------------------------------------------
(* remote_write and remote_apply_patch: load every path of the batch, then *)
(* mutate_prepared_batch; fall back to an immediate guarded write when the *)
(* cache has no room.                                                      *)

EditCall(c, batch) ==
  /\ life = "up" /\ "edit" \in Ops
  /\ call[c].pc = "idle"
  /\ batch # {} /\ Cardinality(batch) =< MaxBatch
  /\ call' = [call EXCEPT ![c] = [IdleCall EXCEPT !.op = "edit", !.pc = "lookup",
                                                  !.todo = batch]]
  /\ UNCHANGED <<remoteVars, cacheVars, timerVars, flushVars, prep, barrier,
                 life, history>>

(* The path the batch loads next, or mutation once all are loaded. *)
Loaded(c, p) ==
  LET rest == call[c].todo \ {p}
      seen == [gen |-> entry[p].gen, text |-> entry[p].desired]
  IN  call' = [call EXCEPT
        ![c].todo = rest,
        ![c].plan = [q \in DOMAIN call[c].plan \cup {p} |->
                       IF q = p THEN seen ELSE call[c].plan[q]],
        ![c].pc = IF rest = {} THEN "mutate" ELSE "lookup"]

(* The batch, as far as it is known, goes to the immediate path. *)
ToImmediate(c) ==
  call' = [call EXCEPT ![c].pc = "iflush",
                       ![c].todo = call[c].todo \cup DOMAIN call[c].plan,
                       ![c].plan = EmptyFunction]

lookup_entry(c) ==
  /\ call[c].pc \in {"lookup", "lookup2"}
  /\ LET p == First(call[c].todo)
     IN  \/ /\ p \in Cached /\ entry[p].conflict # "none"
            /\ Return(c)
            /\ UNCHANGED older
         \/ /\ p \in Cached /\ entry[p].conflict = "none"
            /\ Loaded(c, p)
            /\ older' = Touch({p})
         \/ /\ p \notin Cached /\ call[c].pc = "lookup"
            /\ Goto(c, "load")
            /\ UNCHANGED older
         \/ /\ p \notin Cached /\ call[c].pc = "lookup2"
            /\ ToImmediate(c)
            /\ UNCHANGED older
  /\ UNCHANGED <<remoteVars, entry, cachedBytes, nextGen, timerVars, flushVars,
                 prep, barrier, life, history>>

(* load_complete looks again, then once more under the preparation lock. *)
lookup_complete(c) ==
  /\ call[c].pc = "load"
  /\ LET p == First(call[c].todo)
     IN  IF p \in Cached
         THEN older' = Touch({p}) /\ Goto(c, "lookup2")
         ELSE Goto(c, "loadwait") /\ UNCHANGED older
  /\ UNCHANGED <<remoteVars, entry, cachedBytes, nextGen, timerVars, flushVars,
                 prep, barrier, life, history>>

LoadLock(c) ==
  /\ call[c].pc = "loadwait"
  /\ prep = None
  /\ IF First(call[c].todo) \in Cached
     THEN /\ older' = Touch({First(call[c].todo)})
          /\ Goto(c, "lookup2")
          /\ UNCHANGED prep
     ELSE /\ prep' = c
          /\ Goto(c, "fetch")
          /\ UNCHANGED older
  /\ UNCHANGED <<remoteVars, entry, cachedBytes, nextGen, timerVars, flushVars,
                 barrier, life, history>>

fetch_complete(c) ==
  /\ call[c].pc = "fetch"
  /\ call' = [call EXCEPT ![c].pc = "insert",
                          ![c].snap = remote[First(call[c].todo)]]
  /\ UNCHANGED <<remoteVars, cacheVars, timerVars, flushVars, prep, barrier,
                 life, history>>

FetchFails(c) ==
  /\ "fetch" \in Faults
  /\ call[c].pc = "fetch"
  /\ Release /\ Return(c)
  /\ UNCHANGED <<remoteVars, cacheVars, timerVars, flushVars, barrier, life,
                 history>>

load_complete(c) ==
  /\ call[c].pc = "insert"
  /\ IF MaxBytes = 0
     THEN UNCHANGED <<entry, older, cachedBytes>>
     ELSE InsertClean(First(call[c].todo), call[c].snap)
  /\ Release /\ Goto(c, "lookup2")
  /\ UNCHANGED <<remoteVars, nextGen, timerVars, flushVars, barrier, life,
                 history>>

(* The request's own checks, or the patch, reject the loaded text. *)
EditRejected(c) ==
  /\ call[c].pc = "mutate"
  /\ Return(c)
  /\ UNCHANGED <<remoteVars, cacheVars, timerVars, flushVars, prep, barrier,
                 life, history>>

MutateTooLarge(c) ==
  /\ call[c].pc = "mutate"
  /\ \E d \in Content : Size[d] > MaxBytes
  /\ ToImmediate(c)
  /\ UNCHANGED <<remoteVars, cacheVars, timerVars, flushVars, prep, barrier,
                 life, history>>

(* Every path of the batch is still cached at the generation it was read. *)
PlanCurrent_Cached(c) == DOMAIN call[c].plan \subseteq Cached

PlanCurrent(c) ==
  LET plan == call[c].plan
  IN  \A p \in DOMAIN plan : p \in Cached /\ entry[p].gen = plan[p].gen

MutateStale(c) ==
  /\ call[c].pc = "mutate" /\ prep = None
  /\ ~PlanCurrent(c)
  /\ Return(c)
  /\ UNCHANGED <<remoteVars, cacheVars, timerVars, flushVars, prep, barrier,
                 life, history>>

(* The order of the edits in the request: they are numbered, and touched   *)
(* for the LRU, in that order.                                             *)
Numbering(batch) ==
  Bijection(batch, nextGen .. nextGen + Cardinality(batch) - 1)

mutate_prepared_batch(c, want, bytes, number) ==
  LET batch      == DOMAIN call[c].plan
      old        == SizeOf(batch)
      new        == SumFunction([p \in batch |-> Size[want[p]]])
      additional == Minus(new, old)
      victims    == Victims(additional, batch)
  IN
  /\ call[c].pc = "mutate" /\ prep = None
  /\ \A p \in batch : Size[want[p]] =< MaxBytes
  /\ PlanCurrent(c)
  /\ nextGen + Cardinality(batch) =< MaxGen + 1
  /\ IF make_capacity(additional, batch)
     THEN /\ entry' = [q \in Cached \ victims |->
                         IF q \in batch
                         THEN [entry[q] EXCEPT !.desired = want[q],
                                 !.gen = number[q], !.dirty = TRUE]
                         ELSE entry[q]]
          /\ older' = Touch(batch) \cup
               {r \in batch \X batch : number[r[1]] < number[r[2]]}
          /\ cachedBytes' =
               Minus(Minus(cachedBytes, SizeOf(victims)), old) + new
          /\ nextGen' = nextGen + Cardinality(batch)
          /\ payload' = IF payload + bytes < Threshold THEN payload + bytes
                        ELSE Threshold
          /\ firstDirty' = TRUE
          /\ timer' = IF timer = "off" THEN "check" ELSE Notified
          /\ spawned' = IF payload' >= Threshold THEN spawned + 1 ELSE spawned
          /\ dropped' = dropped \cup
               {entry[p].gen : p \in {q \in batch : entry[q].dirty}}
          /\ root' = [p \in Path |-> IF p \in batch /\ ~entry[p].dirty
                                     THEN call[c].plan[p].text ELSE root[p]]
          /\ Return(c)
     ELSE /\ entry' = Without(victims)
          /\ cachedBytes' = Minus(cachedBytes, SizeOf(victims))
          /\ ToImmediate(c)
          /\ UNCHANGED <<older, nextGen, payload, firstDirty, timer, spawned,
                         dropped, root>>
  /\ UNCHANGED <<remoteVars, retry, flushVars, prep, barrier, life, applied>>

(* The immediate path, after its flush_host: snapshot every file, write    *)
(* them one by one, each guarded by its snapshot, then invalidate.         *)
ImmediateSnapshot(c) ==
  /\ call[c].pc = "isnap"
  /\ LET p    == First(call[c].todo)
         rest == call[c].todo \ {p}
         plan == [q \in DOMAIN call[c].plan \cup {p} |->
                    IF q = p THEN [gen |-> 0, text |-> remote[p]]
                    ELSE call[c].plan[q]]
     IN  call' = [call EXCEPT
           ![c].plan = plan,
           ![c].todo = IF rest = {} THEN DOMAIN plan ELSE rest,
           ![c].pc = IF rest = {} THEN "iwrite" ELSE "isnap"]
  /\ UNCHANGED <<remoteVars, cacheVars, timerVars, flushVars, prep, barrier,
                 life, history>>

ImmediateWrite(c, text) ==
  LET p == First(call[c].todo)
  IN
  /\ call[c].pc = "iwrite"
  /\ remote[p] = call[c].plan[p].text
  /\ remote' = [remote EXCEPT ![p] = text]
  /\ IF call[c].todo = {p}
     THEN InvalidateClean /\ Return(c)
     ELSE /\ call' = [call EXCEPT ![c].todo = @ \ {p}]
          /\ UNCHANGED cacheVars
  /\ UNCHANGED <<orphans, foreign, timerVars, flushVars, prep, barrier, life,
                 history>>

(* The guard refuses the write, or its outcome stays unknown: the error    *)
(* returns before the invalidation.                                        *)
ImmediateFails(c, text) ==
  LET p == First(call[c].todo)
  IN
  /\ call[c].pc = "iwrite"
  /\ \/ remote[p] # call[c].plan[p].text /\ UNCHANGED remote
     \/ /\ "unknown" \in Faults
        /\ remote[p] = call[c].plan[p].text
        /\ remote' = [remote EXCEPT ![p] = text]
     \/ "permanent" \in Faults /\ UNCHANGED remote
  /\ Return(c)
  /\ UNCHANGED <<orphans, foreign, cacheVars, timerVars, flushVars, prep,
                 barrier, life, history>>

-----------------------------------------------------------------------------
(* Barriers: remote_run, remote_list, remote_stat and remote_search flush  *)
(* first.  The flush runs in a worker that owns the preparation lock and   *)
(* outlives a caller that is cancelled or times out.                       *)

BarrierCall(c, op) ==
  /\ life = "up" /\ op \in Ops \cap {"observe", "run"}
  /\ call[c].pc = "idle"
  /\ call' = [call EXCEPT ![c] = [IdleCall EXCEPT !.op = op, !.pc = "bwait",
                                                  !.before = nextGen]]
  /\ UNCHANGED <<remoteVars, cacheVars, timerVars, flushVars, prep, barrier,
                 life, history>>

flush_barrier(c) ==
  /\ call[c].pc = "bwait"
  /\ prep = None
  /\ prep' = "barrier" /\ barrier' = c
  /\ Goto(c, "bflush")
  /\ UNCHANGED <<remoteVars, cacheVars, timerVars, flushVars, life, history>>

BarrierLeave(c) ==
  /\ "leave" \in Faults
  /\ call[c].pc \in {"bwait", "bflush"}
  /\ barrier' = IF barrier = c THEN None ELSE barrier
  /\ Return(c)
  /\ UNCHANGED <<remoteVars, cacheVars, timerVars, flushVars, prep, life,
                 history>>

(* The command past the barrier writes what it likes. *)
CommandWrites(c, p, text) ==
  /\ call[c].pc = "command" /\ call[c].op = "run"
  /\ foreign < MaxForeign
  /\ remote[p] # text
  /\ remote' = [remote EXCEPT ![p] = text]
  /\ foreign' = foreign + 1
  /\ UNCHANGED <<orphans, cacheVars, timerVars, flushVars, taskVars, history>>

(* A successful remote_run invalidates; an observation does not. *)
CommandEnds(c) ==
  /\ call[c].pc = "command"
  /\ IF call[c].op = "run" THEN InvalidateClean ELSE UNCHANGED cacheVars
  /\ Return(c)
  /\ UNCHANGED <<remoteVars, timerVars, flushVars, prep, barrier, life, history>>

(* An error of run::run returns before the invalidation. *)
CommandFails(c) ==
  /\ "runfails" \in Faults
  /\ call[c].pc = "command" /\ call[c].op = "run"
  /\ Return(c)
  /\ UNCHANGED <<remoteVars, cacheVars, timerVars, flushVars, prep, barrier,
                 life, history>>

-----------------------------------------------------------------------------
(* remote_sync_edits and remote_discard_edits hold the preparation lock    *)
(* (begin_barrier) for their whole body.                                   *)

SyncCall(c) ==
  /\ life = "up" /\ "sync" \in Ops
  /\ call[c].pc = "idle"
  /\ call' = [call EXCEPT ![c] = [IdleCall EXCEPT !.op = "sync", !.pc = "swait"]]
  /\ UNCHANGED <<remoteVars, cacheVars, timerVars, flushVars, prep, barrier,
                 life, history>>

retry_outcome_unknown_host(c) ==
  /\ call[c].pc = "swait"
  /\ prep = None
  /\ prep' = c
  /\ entry' = [p \in Cached |->
                 IF entry[p].conflict = "OutcomeUnknown"
                 THEN [entry[p] EXCEPT !.conflict = "none", !.dirty = TRUE]
                 ELSE entry[p]]
  /\ Goto(c, "sflush")
  /\ UNCHANGED <<remoteVars, older, cachedBytes, nextGen, timerVars, flushVars,
                 barrier, life, history>>

DiscardCall(c) ==
  /\ life = "up" /\ "discard" \in Ops
  /\ call[c].pc = "idle"
  /\ call' = [call EXCEPT ![c] = [IdleCall EXCEPT !.op = "discard", !.pc = "dwait"]]
  /\ UNCHANGED <<remoteVars, cacheVars, timerVars, flushVars, prep, barrier,
                 life, history>>

Pending == {p \in Cached : \/ entry[p].dirty
                           \/ entry[p].inFlight # 0
                           \/ entry[p].conflict # "none"}

discard_host_edits(c) ==
  /\ call[c].pc = "dwait"
  /\ prep = None
  /\ IF Pending = {}
     THEN UNCHANGED <<cacheVars, timerVars, history>>
     ELSE /\ entry' = Without(Pending)
          /\ cachedBytes' = Minus(cachedBytes, SizeOf(Pending))
          /\ payload' = 0 /\ firstDirty' = FALSE /\ retry' = FALSE
          /\ timer' = Notified
          /\ dropped' = dropped \cup {entry[p].gen : p \in Pending}
          /\ UNCHANGED <<older, nextGen, spawned, applied, root>>
  /\ Return(c)
  /\ UNCHANGED <<remoteVars, flushVars, prep, barrier, life>>

-----------------------------------------------------------------------------
(* spawn_timer: decide when to wake, sleep or wait, flush, start over.     *)

HasDeadline_NoRetry == payload >= Threshold \/ firstDirty

HasDeadline == payload >= Threshold \/ retry \/ firstDirty

TimerCheck ==
  /\ timer = "check"
  /\ timer' = IF life \notin {"up", "closing"} \/ host_conflict \/ ~host_dirty(entry)
              THEN "off"
              ELSE IF HasDeadline THEN "sleep" ELSE "wait"
  /\ UNCHANGED <<remoteVars, cacheVars, payload, firstDirty, retry, spawned,
                 flushVars, taskVars, history>>

TimerFires ==
  /\ timer = "sleep"
  /\ timer' = "flush"
  /\ UNCHANGED <<remoteVars, cacheVars, payload, firstDirty, retry, spawned,
                 flushVars, taskVars, history>>

-----------------------------------------------------------------------------
(* flush_once, on behalf of whoever called it.                             *)

WantsFlush(o) ==
  \/ o = "timer" /\ timer = "flush"
  \/ o = "spawned" /\ spawned > 0
  \/ o = "barrier" /\ barrier # "off"
  \/ o = "shutdown" /\ life = "flush"
  \/ o \in Call /\ call[o].pc \in {"iflush", "sflush"}

(* What the caller of flush_once, or of flush_host which repeats it while  *)
(* there is more, does with the result "clean", "more" or "error".         *)
CallAfterFlush_OpensAnyway(s, result) ==
  IF s.pc = "iflush" /\ result = "clean" THEN [s EXCEPT !.pc = "isnap"]
  ELSE IF s.pc = "bflush" /\ result # "more" THEN [s EXCEPT !.pc = "command"]
  ELSE IF result = "more" THEN s
  ELSE IdleCall

CallAfterFlush(s, result) ==
  IF s.pc = "iflush" /\ result = "clean" THEN [s EXCEPT !.pc = "isnap"]
  ELSE IF s.pc = "bflush" /\ result = "clean" THEN [s EXCEPT !.pc = "command"]
  ELSE IF result = "more" THEN s
  ELSE IdleCall

Resume(o, result, woken) ==
  /\ timer' = IF o = "timer" THEN "check" ELSE woken
  /\ spawned' = IF o = "spawned" THEN spawned - 1 ELSE spawned
  /\ barrier' = IF o = "barrier" /\ result # "more" THEN "off" ELSE barrier
  /\ prep' = IF result # "more" /\ o = prep THEN None ELSE prep
  /\ call' = [c \in Call |-> IF c = o \/ (o = "barrier" /\ c = barrier)
                             THEN CallAfterFlush(call[c], result) ELSE call[c]]
  /\ life' = IF o # "shutdown" \/ result = "more" THEN life
             ELSE IF result = "clean" THEN "synced" ELSE "unsynced"

Flushable == {p \in Cached : entry[p].dirty /\ entry[p].inFlight = 0}

(* Nothing is sent: a sticky conflict, or nothing to flush. *)
FlushNothing_Clean(o) ==
  /\ flusher = None /\ WantsFlush(o)
  /\ host_conflict \/ Flushable = {}
  /\ Resume(o, "clean", timer)
  /\ UNCHANGED <<remoteVars, cacheVars, payload, firstDirty, retry, flushVars,
                 history>>

FlushNothing(o) ==
  /\ flusher = None /\ WantsFlush(o)
  /\ host_conflict \/ Flushable = {}
  /\ Resume(o, IF host_conflict THEN "error" ELSE "clean", timer)
  /\ UNCHANGED <<remoteVars, cacheVars, payload, firstDirty, retry, flushVars,
                 history>>

FlushBegin(o) ==
  /\ flusher = None /\ WantsFlush(o)
  /\ ~host_conflict /\ Flushable # {}
  /\ flusher' = o
  /\ items' = [p \in Flushable |-> [base |-> entry[p].base,
                 desired |-> entry[p].desired, gen |-> entry[p].gen]]
  /\ done' = {}
  /\ entry' = [p \in Cached |-> IF p \in Flushable
                 THEN [entry[p] EXCEPT !.inFlight = entry[p].gen] ELSE entry[p]]
  /\ payload' = 0 /\ firstDirty' = FALSE /\ retry' = FALSE
  /\ UNCHANGED <<remoteVars, older, cachedBytes, nextGen, timer, spawned,
                 taskVars, history>>

Waiting == DOMAIN items \ done

(* One item of the batch script: its base guard holds and it is installed. *)
CommitItemStep ==
  /\ flusher # None /\ Waiting # {}
  /\ LET p == First(Waiting)
     IN  /\ remote[p] = items[p].base
         /\ remote' = [remote EXCEPT ![p] = items[p].desired]
         /\ done' = done \cup {p}
         /\ applied' = applied \cup {items[p].gen}
  /\ UNCHANGED <<orphans, foreign, cacheVars, timerVars, flusher, items,
                 taskVars, dropped, root>>

(* A CommitSuccess: the entry is rebased on what was written, and stays    *)
(* dirty if it was edited again meanwhile.                                 *)
Succeeded_AlwaysClean(e, item) ==
  [e EXCEPT !.base = item.desired, !.inFlight = 0, !.dirty = FALSE]

Succeeded_OldBase(e, item) ==
  [e EXCEPT !.inFlight = 0, !.dirty = @ /\ e.gen # item.gen]

Succeeded(e, item) ==
  [e EXCEPT !.base = item.desired, !.inFlight = 0,
            !.dirty = @ /\ e.gen # item.gen]

Failed(e, error) ==
  [e EXCEPT !.inFlight = 0,
            !.conflict = IF error = "Transient" THEN @ ELSE error]

(* The tail of flush_once: apply the CommitBatchOutcome.                   *)
Settle(successes, error) ==
  LET mine(p) == p \in DOMAIN items /\ entry[p].inFlight = items[p].gen
  IN
  /\ entry' = [p \in Cached |->
       IF mine(p) /\ p \in successes THEN Succeeded(entry[p], items[p])
       ELSE IF mine(p) THEN Failed(entry[p], error)
       ELSE entry[p]]
  /\ root' = [p \in Path |->
       IF p \in Cached /\ mine(p) /\ p \in successes
       THEN items[p].desired ELSE root[p]]
  /\ retry' = (error = "Transient" \/ (error # "none" /\ retry))
  /\ flusher' = None /\ items' = EmptyFunction /\ done' = {}
  /\ Resume(flusher, IF error # "none" THEN "error"
                     ELSE IF host_dirty(entry') THEN "more" ELSE "clean",
            Notified)
  /\ UNCHANGED <<remote, foreign, older, cachedBytes, nextGen, payload,
                 firstDirty, applied, dropped>>

FlushSucceeds ==
  /\ flusher # None /\ Waiting = {}
  /\ Settle(done, "none")
  /\ UNCHANGED orphans

(* The script meets a changed base and stops; the items before it count.   *)
FlushConflicts_AllDone ==
  /\ flusher # None /\ Waiting # {}
  /\ remote[First(Waiting)] # items[First(Waiting)].base
  /\ Settle(DOMAIN items, "Conflict")
  /\ UNCHANGED orphans

FlushConflicts ==
  /\ flusher # None /\ Waiting # {}
  /\ remote[First(Waiting)] # items[First(Waiting)].base
  /\ Settle(done, "Conflict")
  /\ UNCHANGED orphans

(* The next partition of the batch is never sent. *)
FlushFails(error) ==
  /\ \/ error = "Transient" /\ "transient" \in Faults
     \/ error = "Permanent" /\ "permanent" \in Faults
  /\ flusher # None /\ Waiting # {}
  /\ Settle(done, error)
  /\ UNCHANGED orphans

(* A partition was sent and its reply is lost: earlier partitions count,   *)
(* and the script may go on without us.                                    *)
FlushUnknown(confirmed) ==
  /\ "unknown" \in Faults
  /\ flusher # None
  /\ confirmed \subseteq done /\ confirmed # DOMAIN items
  /\ \A p \in confirmed, q \in done \ confirmed : p < q
  /\ Settle(confirmed, "OutcomeUnknown")
  /\ orphans' = orphans \cup
       {[path |-> p, base |-> items[p].base, desired |-> items[p].desired,
         gen |-> items[p].gen] : p \in Waiting}

-----------------------------------------------------------------------------
(* Environment.                                                            *)

OrphanApplies(i) ==
  /\ remote[i.path] = i.base
  /\ remote' = [remote EXCEPT ![i.path] = i.desired]
  /\ orphans' = orphans \ {i}
  /\ applied' = applied \cup {i.gen}
  /\ UNCHANGED <<foreign, cacheVars, timerVars, flushVars, taskVars, dropped,
                 root>>

OrphansEnd ==
  /\ orphans # {}
  /\ orphans' = {}
  /\ UNCHANGED <<remote, foreign, cacheVars, timerVars, flushVars, taskVars,
                 history>>

ForeignWrite(p, text) ==
  /\ "foreign" \in Faults
  /\ foreign < MaxForeign
  /\ remote[p] # text
  /\ remote' = [remote EXCEPT ![p] = text]
  /\ foreign' = foreign + 1
  /\ UNCHANGED <<orphans, cacheVars, timerVars, flushVars, taskVars, history>>

(* The client closes stdin: mcp/mod.rs accepts no more calls, lets the     *)
(* running ones end or drops their futures, then calls shutdown.           *)
CloseInput ==
  /\ "close" \in Faults
  /\ life = "up"
  /\ life' = "closing"
  /\ UNCHANGED <<remoteVars, cacheVars, timerVars, flushVars, prep, barrier,
                 call, history>>

AbortCall(c) ==
  /\ "abort" \in Faults
  /\ life = "closing"
  /\ call[c].pc # "idle"
  /\ Return(c)
  /\ prep' = IF prep = c THEN None ELSE prep
  /\ barrier' = IF barrier = c THEN None ELSE barrier
  /\ IF flusher = c
     THEN /\ flusher' = None /\ items' = EmptyFunction /\ done' = {}
          /\ orphans' = orphans \cup
               {[path |-> p, base |-> items[p].base, desired |-> items[p].desired,
                 gen |-> items[p].gen] : p \in Waiting}
     ELSE UNCHANGED <<flushVars, orphans>>
  /\ UNCHANGED <<remote, foreign, cacheVars, timerVars, life, history>>

shutdown_Early ==
  /\ life = "closing"
  /\ life' = "flush"
  /\ UNCHANGED <<remoteVars, cacheVars, timerVars, flushVars, prep, barrier,
                 call, history>>

shutdown ==
  /\ life = "closing"
  /\ \A c \in Call : call[c].pc = "idle"
  /\ life' = "flush"
  /\ UNCHANGED <<remoteVars, cacheVars, timerVars, flushVars, prep, barrier,
                 call, history>>

-----------------------------------------------------------------------------
CallStep(c) ==
  \/ ReadRemote(c) \/ cache_clean_if_absent(c)
  \/ lookup_entry(c) \/ lookup_complete(c) \/ LoadLock(c) \/ fetch_complete(c) \/ load_complete(c)
  \/ EditRejected(c) \/ MutateTooLarge(c) \/ MutateStale(c)
  \/ \E want \in [DOMAIN call[c].plan -> Content], bytes \in Payload,
        number \in Numbering(DOMAIN call[c].plan) :
       mutate_prepared_batch(c, want, bytes, number)
  \/ ImmediateSnapshot(c)
  \/ \E text \in Content : ImmediateWrite(c, text) \/ ImmediateFails(c, text)
  \/ flush_barrier(c) \/ CommandEnds(c)
  \/ retry_outcome_unknown_host(c) \/ discard_host_edits(c)

CallStart(c) ==
  \/ \E p \in Path : ReadLookup(c, p)
  \/ \E batch \in SUBSET Path : EditCall(c, batch)
  \/ \E op \in {"observe", "run"} : BarrierCall(c, op)
  \/ SyncCall(c) \/ DiscardCall(c)

CallFault(c) ==
  \/ FetchFails(c) \/ BarrierLeave(c) \/ CommandFails(c) \/ AbortCall(c)

Flusher == Background \cup Call

FlushStep == CommitItemStep \/ FlushSucceeds \/ FlushConflicts

FlushFault ==
  \/ \E error \in {"Transient", "Permanent"} : FlushFails(error)
  \/ \E confirmed \in SUBSET done : FlushUnknown(confirmed)

Environment ==
  \/ \E c \in Call, p \in Path, text \in Content : CommandWrites(c, p, text)
  \/ \E p \in Path, text \in Content : ForeignWrite(p, text)
  \/ \E i \in orphans : OrphanApplies(i)
  \/ OrphansEnd
  \/ CloseInput

Next ==
  \/ \E c \in Call : CallStart(c) \/ CallStep(c) \/ CallFault(c)
  \/ TimerCheck \/ TimerFires
  \/ \E o \in Flusher : FlushNothing(o) \/ FlushBegin(o)
  \/ FlushStep \/ FlushFault
  \/ Environment
  \/ shutdown

Spec == Init /\ [][Next]_vars

(* Tokio runs every ready task, timers elapse, locks are granted and the   *)
(* handlers of a call run to their end; what a client asks for is not      *)
(* promised.  SF on the batch steps is the healthy connection of the       *)
(* design document: a batch that is sent again and again goes through.     *)
Fairness ==
  /\ WF_vars(TimerCheck) /\ WF_vars(TimerFires)
  /\ \A o \in Flusher : SF_vars(FlushNothing(o) \/ FlushBegin(o))
  /\ SF_vars(CommitItemStep) /\ SF_vars(FlushSucceeds) /\ SF_vars(FlushConflicts)
  /\ \A c \in Call : SF_vars(CallStep(c))

FairSpec == Spec /\ Fairness

-----------------------------------------------------------------------------
RemoteOK ==
  /\ remote \in [Path -> Content]
  /\ orphans \subseteq OrphanItem
  /\ foreign \in Nat

CacheOK ==
  /\ Cached \subseteq Path
  /\ \A p \in Cached : entry[p] \in Entry
  /\ older \subseteq Path \X Path
  /\ nextGen \in 1 .. MaxGen + 1

TimerOK ==
  /\ payload \in Nat
  /\ firstDirty \in BOOLEAN /\ retry \in BOOLEAN
  /\ timer \in {"off", "check", "wait", "sleep", "flush"}
  /\ spawned \in Nat

FlushOK ==
  /\ flusher \in Flusher \cup {None}
  /\ DOMAIN items \subseteq Path
  /\ \A p \in DOMAIN items : items[p] \in CommitItem
  /\ done \subseteq DOMAIN items

TaskOK ==
  /\ prep \in Call \cup {None, "barrier"}
  /\ barrier \in Call \cup {None, "off"}
  /\ call \in [Call -> CallState]
  /\ life \in {"up", "closing", "flush", "synced", "unsynced"}

HistoryOK ==
  /\ applied \subseteq Gen /\ dropped \subseteq Gen
  /\ root \in [Path -> Content]

(* Every variable holds a value of its kind; in particular a flush commits *)
(* and settles known paths only, and no background flush runs twice.       *)
(* cached_bytes is left to BytesAccounted.                                 *)
TypeOK ==
  RemoteOK /\ CacheOK /\ TimerOK /\ FlushOK /\ TaskOK /\ HistoryOK

(* Every edit the bridge accepted is still buffered as a dirty entry, has  *)
(* reached the remote file, or was superseded or explicitly discarded:     *)
(* flushes with partial, failed and unknown outcomes, evictions,           *)
(* invalidations and late replies lose none (flush_once, make_capacity,    *)
(* invalidate_clean_host).                                                 *)
NoSilentLoss ==
  \A g \in 1 .. nextGen - 1 :
    \/ g \in applied \cup dropped
    \/ \E p \in Cached : entry[p].gen = g /\ entry[p].dirty

(* A command or observation past its barrier runs on remote files that     *)
(* hold every edit accepted before the call began (flush_barrier).         *)
BarrierSound ==
  \A c \in Call : call[c].pc = "command" =>
    \A g \in 1 .. call[c].before - 1 : g \in applied \cup dropped

(* An orderly shutdown that reports success leaves nothing buffered.       *)
ShutdownSound == life = "synced" => ~host_dirty(entry)

(* An in-flight mark always belongs to the batch being committed, so no    *)
(* dirty path can be skipped by later flushes for ever (flush_once).       *)
InFlightOwned ==
  \A p \in Cached : entry[p].inFlight # 0 =>
    /\ flusher # None /\ p \in DOMAIN items
    /\ items[p].gen = entry[p].inFlight

(* cached_bytes is the size of what is cached and never exceeds max_bytes, *)
(* whatever mix of loads, mutations, evictions and discards ran.           *)
BytesAccounted ==
  /\ cachedBytes = SizeOf(Cached)
  /\ cachedBytes =< MaxBytes

(* An edit replaces a buffered or committed generation only if its call    *)
(* read exactly that text: the generation check of mutate_prepared_batch   *)
(* makes concurrent editors of one path fail instead of overwriting.       *)
NoLostBufferedEdit ==
  [][\A p \in Cached \cap DOMAIN entry' :
       entry[p].gen > 0 /\ entry'[p].gen # entry[p].gen =>
         \E c \in Call : /\ call[c].pc = "mutate" /\ call'[c].pc = "idle"
                         /\ p \in DOMAIN call[c].plan
                         /\ call[c].plan[p].text = entry[p].desired]_vars

(* The remote state that guards a buffered text at commit is the state the *)
(* text was derived from, so a commit cannot overwrite a remote version    *)
(* the editor never saw.                                                   *)
GuardMatchesText ==
  \A p \in Cached : entry[p].dirty => entry[p].base = root[p]

(* While no command and no immediate write runs, a clean cached file is    *)
(* the remote file, so remote_read may answer from the cache.              *)
CleanMirrorsRemote ==
  (\A c \in Call : call[c].pc \notin {"command", "iwrite"}) =>
    \A p \in Cached : ~entry[p].dirty => entry[p].desired = remote[p]

(* A dirty host becomes clean, or reports a conflict, without any help     *)
(* from the client (spawn_timer and the retry deadlines of flush_once).    *)
DirtySettles ==
  host_dirty(entry) ~> (~host_dirty(entry) \/ host_conflict \/ life # "up")
=============================================================================
