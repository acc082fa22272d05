----------------------------- MODULE OutputStore ------------------------------
(***************************************************************************)
(* The output store (output.rs): outputs of commands are captured, spilled *)
(* to private files when they grow, kept for a while under a reference and *)
(* paged back.  Two resources are shared by everything in flight: a quota  *)
(* of bytes and a number of entry slots.  Both are handed back by the Drop *)
(* of reference-counted objects, so what a path gives back depends on who  *)
(* else still holds the object.                                            *)
(*                                                                         *)
(* An operation is one call of capture, capture_internal or retain_*.  An  *)
(* EntryAccounting belongs to one operation and has a FileAccounting per   *)
(* stream; `holders' are the Arcs of the former, targets in `tombs' hold   *)
(* Arcs of the latter.                                                     *)
(***************************************************************************)
EXTENDS Integers, FiniteSets, Functions

CONSTANTS Op,          \* operations, each used once
          Kinds,       \* subset of {"capture", "internal", "retain"}
          Limit,       \* global_spool_quota_bytes
          MaxOutput,   \* MAX_OUTPUT_BYTES, also max_output_bytes of a capture
          Spill,       \* SPILL_THRESHOLD_BYTES
          EntryLimits, \* values of MAX_SPOOL_ENTRIES, one of which a store has
          Jobs,        \* retention_serialization_jobs
          Faults       \* subset of {"io", "remove", "cancel"}: files that cannot be made
                       \* or written, files that cannot be unlinked, cancelled calls

ASSUME OutputStoreAssumption ==
  /\ Kinds \subseteq {"capture", "internal", "retain"}
  /\ Limit \in Nat /\ MaxOutput \in Nat \ {0} /\ Spill \in Nat
  /\ EntryLimits \subseteq Nat /\ Jobs \in Nat \ {0}
  /\ Faults \subseteq {"io", "remove", "cancel"}

VARIABLES
  maxEntries,\* MAX_SPOOL_ENTRIES of this store
  kind,      \* which of the three calls each operation is
  op,        \* where it is
  spooled,   \* RetainedOutput is Spool rather than Memory
  seen,      \* bytes_seen of the two preview sinks; their sum is aggregate_bytes
  chunk,     \* the bytes `append' has reserved and not yet stored
  reserved,  \* FileAccounting.bytes
  file,      \* bytes of the file on disk, Absent if there is none
  slots,     \* operations whose EntrySlot has a permit
  holders,   \* who holds the EntryAccounting: sink, owner, entry, lease
  tombs,     \* CleanupTargets of all tombstones
  used,      \* ByteQuota.used
  entry,     \* OutputStore.entries: absent, live, or past expires_at
  length,    \* stdout_len and stderr_len of the entry
  owner,     \* the InternalSpoolOwner of the caller is alive
  access     \* one user of the reference: reading or discarding it

vars == <<maxEntries, kind, op, spooled, seen, chunk, reserved, file, slots, holders, tombs,
          used, entry, length, owner, access>>

Streams == {"stdout", "stderr"}
Files == Op \X Streams
Absent == -1
NoChunk == [stream |-> "stdout", bytes |-> 0, over |-> FALSE]
Nothing == [s \in Streams |-> 0]
NoFiles == [s \in Streams |-> Absent]

\* A FileAccounting lives while its EntryAccounting or a tombstone target
\* holds it.  A target of a partial spool has an accounting of its own (own =
\* FALSE), which charges nothing but shares the slot.
Target(c, s, own) == [op |-> c, stream |-> s, own |-> own]
Held(h, t, f) == h[f[1]] # {} \/ Target(f[1], f[2], TRUE) \in t
SlotHeld(h, t, c) == h[c] # {} \/ \E x \in t : x.op = c

Sum(f, S) == SumFunctionOnSet([x \in S |-> f[x[1]][x[2]]], S)

Serializing == {c \in Op : op[c] = "serialize"}
Aggregate(c) == seen[c]["stdout"] + seen[c]["stderr"]
SlotFree == Cardinality(slots) < maxEntries

TypeOK ==
  /\ maxEntries \in EntryLimits
  /\ kind \in [Op -> Kinds]
  /\ op \in [Op -> {"none", "register stdout", "register stderr", "register accounting",
                    "open", "store", "over", "queued", "serialize", "done"}]
  /\ spooled \in [Op -> BOOLEAN] /\ slots \subseteq Op
  /\ seen \in [Op -> [Streams -> 0 .. MaxOutput]]
  /\ chunk \in [Op -> [stream : Streams, bytes : 0 .. MaxOutput, over : BOOLEAN]]
  /\ reserved \in [Op -> [Streams -> 0 .. MaxOutput]]
  /\ file \in [Op -> [Streams -> Absent .. MaxOutput]]
  /\ length \in [Op -> [Streams -> 0 .. MaxOutput]]
  /\ holders \in [Op -> SUBSET {"sink", "owner", "entry", "lease"}]
  /\ tombs \subseteq [op : Op, stream : Streams, own : BOOLEAN]
  /\ used \in Nat
  /\ entry \in [Op -> {"absent", "live", "expired"}]
  /\ owner \in [Op -> BOOLEAN]
  /\ access \in [Op -> {"no", "read", "open", "discard"}]

Init ==
  /\ maxEntries \in EntryLimits
  /\ kind \in [Op -> Kinds] /\ op = [c \in Op |-> "none"]
  /\ spooled = [c \in Op |-> FALSE] /\ slots = {}
  /\ seen = [c \in Op |-> Nothing] /\ length = [c \in Op |-> Nothing]
  /\ chunk = [c \in Op |-> NoChunk]
  /\ reserved = [c \in Op |-> Nothing]
  /\ file = [c \in Op |-> NoFiles]
  /\ holders = [c \in Op |-> {}] /\ tombs = {} /\ used = 0
  /\ entry = [c \in Op |-> "absent"]
  /\ owner = [c \in Op |-> TRUE] /\ access = [c \in Op |-> "no"]

-----------------------------------------------------------------------------
(* Giving back *)

\* Which of these files an unlink may leave behind.
Survivors(files) ==
  {left \in SUBSET {s \in Streams : files[s] # Absent} : "remove" \in Faults \/ left = {}}

\* Arcs are dropped: what nothing holds any more returns its bytes and its
\* slot.  The accountings then say r, the quota u, and sl have permits.
Drops(h, t, r, u, sl) ==
  /\ holders' = h /\ tombs' = t
  /\ reserved' = [c \in Op |-> [s \in Streams |-> IF Held(h, t, <<c, s>>) THEN r[c][s] ELSE 0]]
  /\ used' = u - Sum(r, {f \in Files : Held(holders, tombs, f) /\ ~Held(h, t, f)})
  /\ slots' = {c \in sl : SlotHeld(h, t, c)}

\* The tombstone forgets what it pins.
CleanUp_Uncharged(c, who, files, r, u, sl) ==
  \E left \in Survivors(files) :
    /\ file' = [file EXCEPT ![c] = [s \in Streams |-> IF s \in left THEN files[s] ELSE Absent]]
    /\ Drops([holders EXCEPT ![c] = @ \ {who}],
             tombs \cup {Target(c, s, FALSE) : s \in left}, r, u, sl)

\* cleanup_paths: unlink the files, keep a tombstone with its accounting for
\* each that would not go, and drop the holder that gave them up.
CleanUp(c, who, files, r, u, sl) ==
  \E left \in Survivors(files) :
    /\ file' = [file EXCEPT ![c] = [s \in Streams |-> IF s \in left THEN files[s] ELSE Absent]]
    /\ Drops([holders EXCEPT ![c] = @ \ {who}],
             tombs \cup {Target(c, s, TRUE) : s \in left}, r, u, sl)

\* retry_tombstones, which read, discard and retain_* begin with.
RetryTombstones ==
  \E left \in SUBSET tombs :
    /\ "remove" \in Faults \/ left = {}
    /\ file' = [c \in Op |-> [s \in Streams |->
                  IF \E x \in tombs \ left : x.op = c /\ x.stream = s
                  THEN Absent ELSE file[c][s]]]
    /\ Drops(holders, left, reserved, used, slots)

\* The operation is over and its OutputSink is dropped.
Over(c) ==
  /\ op' = [op EXCEPT ![c] = "done"]
  /\ spooled' = [spooled EXCEPT ![c] = FALSE]
  /\ seen' = [seen EXCEPT ![c] = Nothing]
  /\ chunk' = [chunk EXCEPT ![c] = NoChunk]

\* The operation returns an error: its sink and the pending spool in it go.
SinkGoes(c, files, r, u, sl) ==
  /\ CleanUp(c, "sink", files, r, u, sl)
  /\ Over(c)
  /\ UNCHANGED <<kind, entry, length, owner, access>>

SinkFails(c) == SinkGoes(c, file[c], reserved, used, slots)

-----------------------------------------------------------------------------
(* capture and capture_internal *)

\* OutputSink::new
CaptureBegin(c) ==
  /\ op[c] = "none" /\ kind[c] = "capture"
  /\ op' = [op EXCEPT ![c] = "open"]
  /\ holders' = [holders EXCEPT ![c] = {"sink"}]
  /\ UNCHANGED <<kind, spooled, seen, chunk, reserved, file, slots, tombs, used, entry,
                 length, owner, access>>

\* capture_internal spools from the start: attach_slot, create_spool.
InternalBegin(c) ==
  /\ op[c] = "none" /\ kind[c] = "internal" /\ SlotFree
  /\ op' = [op EXCEPT ![c] = "register stdout"]
  /\ holders' = [holders EXCEPT ![c] = {"sink"}]
  /\ slots' = slots \cup {c}
  /\ spooled' = [spooled EXCEPT ![c] = TRUE]
  /\ file' = [file EXCEPT ![c] = Nothing]
  /\ UNCHANGED <<kind, seen, chunk, reserved, tombs, used, entry, length, owner, access>>

\* A registration does not look whether its owner was closed.
Register_Late(c) ==
  /\ op[c] = "register stdout"
  /\ op' = [op EXCEPT ![c] = "open"]
  /\ holders' = [holders EXCEPT ![c] = @ \cup {"owner"}]
  /\ UNCHANGED <<kind, spooled, seen, chunk, reserved, file, slots, tombs, used, entry,
                 length, owner, access>>

\* Each register call takes the lock of the owner's state by itself.
Register(c) ==
  /\ owner[c]
  /\ \/ /\ op[c] = "register stdout"
        /\ op' = [op EXCEPT ![c] = "register stderr"]
        /\ UNCHANGED holders
     \/ /\ op[c] = "register stderr"
        /\ op' = [op EXCEPT ![c] = "register accounting"]
        /\ UNCHANGED holders
     \/ /\ op[c] = "register accounting"
        /\ op' = [op EXCEPT ![c] = "open"]
        /\ holders' = [holders EXCEPT ![c] = @ \cup {"owner"}]
  /\ UNCHANGED <<kind, spooled, seen, chunk, reserved, file, slots, tombs, used, entry,
                 length, owner, access>>

\* The owner is gone: the path is unlinked, then the spool is dropped.
RegisterFails(c) ==
  /\ op[c] \in {"register stdout", "register stderr", "register accounting"}
  /\ ~owner[c]
  /\ SinkFails(c)

\* InternalSpoolOwner::drop.  Before the accounting is registered there are no
\* tombstones to leave, and the paths known so far are unlinked if possible.
OwnerDrop(c) ==
  /\ kind[c] = "internal" /\ op[c] # "none" /\ owner[c]
  /\ owner' = [owner EXCEPT ![c] = FALSE]
  /\ \/ "owner" \in holders[c] /\ CleanUp(c, "owner", file[c], reserved, used, slots)
     \/ /\ "owner" \notin holders[c]
        /\ \E left \in Survivors(file[c]) :
             LET known == CASE op[c] = "register stderr" -> {"stdout"}
                            [] op[c] = "register accounting" -> Streams
                            [] OTHER -> {}
             IN file' = [file EXCEPT ![c] =
                          [s \in Streams |-> IF s \in known \ left THEN Absent ELSE @[s]]]
        /\ UNCHANGED <<holders, tombs, reserved, used, slots>>
  /\ UNCHANGED <<kind, op, spooled, seen, chunk, entry, length, access>>

\* A chunk arrives: what may be kept of it is reserved and goes to the preview.
AppendReserve(c) ==
  /\ op[c] = "open"
  /\ \E s \in Streams, n \in 1 .. MaxOutput :
       LET room == MaxOutput - Aggregate(c)
           kept == IF n > room THEN room ELSE n
       IN /\ kept > 0 /\ used + kept <= Limit
          /\ used' = used + kept
          /\ reserved' = [reserved EXCEPT ![c][s] = @ + kept]
          /\ seen' = [seen EXCEPT ![c][s] = @ + kept]
          /\ chunk' = [chunk EXCEPT ![c] = [stream |-> s, bytes |-> kept, over |-> n > room]]
  /\ op' = [op EXCEPT ![c] = "store"]
  /\ UNCHANGED <<kind, spooled, file, slots, holders, tombs, entry, length, owner, access>>

\* The limit of the capture or the quota is reached.
AppendRefused(c) ==
  /\ \/ op[c] = "over"
     \/ op[c] = "open" /\ (Aggregate(c) = MaxOutput \/ used + 1 > Limit)
  /\ SinkFails(c)

NeedsSpool(c) == ~spooled[c] /\ Aggregate(c) > Spill

\* The chunk is where the others are.  After one that did not fit in full the
\* capture fails.
Stored(c) ==
  /\ op' = [op EXCEPT ![c] = IF chunk[c].over THEN "over" ELSE "open"]
  /\ chunk' = [chunk EXCEPT ![c] = NoChunk]
  /\ UNCHANGED <<kind, seen, reserved, holders, tombs, used, entry, length, owner, access>>

StoreInMemory(c) ==
  /\ op[c] = "store" /\ ~spooled[c] /\ ~NeedsSpool(c)
  /\ Stored(c)
  /\ UNCHANGED <<spooled, file, slots>>

\* start_spooling, if need be, writes what was in memory, then the chunk
\* follows.  An owner that is gone has unlinked the files that are written.
StoreInFile(c) ==
  /\ op[c] = "store" /\ (spooled[c] \/ (NeedsSpool(c) /\ SlotFree))
  /\ file' = [file EXCEPT ![c] = [s \in Streams |->
               IF spooled[c] /\ @[s] = Absent THEN Absent ELSE seen[c][s]]]
  /\ spooled' = [spooled EXCEPT ![c] = TRUE]
  /\ slots' = slots \cup {c}
  /\ Stored(c)

\* No entry slot, or no file.
SpoolRefused(c) ==
  /\ \/ op[c] = "store" /\ NeedsSpool(c)
     \/ op[c] = "none" /\ kind[c] = "internal"
  /\ ~SlotFree \/ "io" \in Faults
  /\ SinkFails(c)

\* stdout was created, stderr was not, and stdout cannot be unlinked.
PartialSpool(c) ==
  /\ {"io", "remove"} \subseteq Faults /\ SlotFree
  /\ \/ op[c] = "store" /\ NeedsSpool(c)
     \/ op[c] = "none" /\ kind[c] = "internal"
  /\ file' = [file EXCEPT ![c]["stdout"] = 0]
  /\ Drops([holders EXCEPT ![c] = {}], tombs \cup {Target(c, "stdout", FALSE)},
           reserved, used, slots \cup {c})
  /\ Over(c)
  /\ UNCHANGED <<kind, entry, length, owner, access>>

\* What each file holds, and is charged, when writing stops in the middle: of
\* the buffered bytes in stdout, in stderr, or of the chunk.
Cut(c) ==
  LET n == chunk[c].bytes
      earlier == [seen[c] EXCEPT ![chunk[c].stream] = @ - n]
      out == earlier["stdout"]
      err == earlier["stderr"]
  IN {[earlier EXCEPT ![chunk[c].stream] = @ + k] : k \in 0 .. n - 1}
     \cup (IF spooled[c] THEN {}
           ELSE {[Nothing EXCEPT !["stdout"] = k] : k \in 0 .. out - 1}
                \cup {[earlier EXCEPT !["stderr"] = k] : k \in 0 .. err - 1})

\* A write to a file fails: only what was written stays charged.
StoreFails(c) ==
  /\ op[c] = "store" /\ "io" \in Faults
  /\ spooled[c] \/ (NeedsSpool(c) /\ SlotFree)
  /\ \E cut \in Cut(c) :
       SinkGoes(c, [s \in Streams |-> IF spooled[c] /\ file[c][s] = Absent THEN Absent
                                      ELSE cut[s]],
                [reserved EXCEPT ![c] = cut],
                used - (Aggregate(c) - cut["stdout"] - cut["stderr"]), slots \cup {c})

\* The capture is cancelled, a stream or a flush fails, or its future is dropped.
CaptureCancel(c) ==
  /\ op[c] \in {"open", "store"} /\ Faults \cap {"cancel", "io"} # {}
  /\ SinkFails(c)

\* finish without a file: the result holds the previews, the sink goes.
FinishInMemory(c) ==
  /\ op[c] = "open" /\ ~spooled[c]
  /\ SinkFails(c)

\* finish: the files belong to an entry, and its expiry is scheduled.
FinishReference(c) ==
  /\ op[c] = "open" /\ spooled[c] /\ kind[c] = "capture"
  /\ Over(c)
  /\ holders' = [holders EXCEPT ![c] = {"entry"}]
  /\ entry' = [entry EXCEPT ![c] = "live"]
  /\ length' = [length EXCEPT ![c] = seen[c]]
  /\ UNCHANGED <<kind, reserved, file, slots, tombs, used, owner, access>>

\* finish_internal: the files are the owner's, who may have dropped them.
FinishInternal(c) ==
  /\ op[c] = "open" /\ kind[c] = "internal"
  /\ Over(c)
  /\ Drops([holders EXCEPT ![c] = @ \ {"sink"}], tombs, reserved, used, slots)
  /\ UNCHANGED <<kind, file, entry, length, owner, access>>

-----------------------------------------------------------------------------
(* retain_bytes and retain_serialized_detail *)

RetainBegin(c) ==
  /\ op[c] = "none" /\ kind[c] = "retain"
  /\ RetryTombstones
  /\ op' = [op EXCEPT ![c] = "queued"]
  /\ UNCHANGED <<kind, spooled, seen, chunk, entry, length, owner, access>>

Refusal(c) ==
  /\ op' = [op EXCEPT ![c] = "done"]
  /\ UNCHANGED <<kind, spooled, seen, chunk, reserved, file, slots, holders, tombs, used,
                 entry, length, owner, access>>

\* acquire_retention_job: the wait for a permit can be cancelled.
RetainCancel(c) == op[c] = "queued" /\ "cancel" \in Faults /\ Refusal(c)

\* A retention waits until there is room.
RetainRefused_Waits(c) ==
  /\ op[c] = "queued" /\ Cardinality(Serializing) < Jobs /\ "io" \in Faults
  /\ SlotFree /\ used + MaxOutput <= Limit
  /\ Refusal(c)

\* With a job permit a resource is missing, or the file cannot be made.
RetainRefused(c) ==
  /\ op[c] = "queued" /\ Cardinality(Serializing) < Jobs
  /\ ~SlotFree \/ used + MaxOutput > Limit \/ "io" \in Faults
  /\ Refusal(c)

\* With a job permit, a slot and the largest size reserved, a thread serializes.
RetainStart(c) ==
  /\ op[c] = "queued" /\ Cardinality(Serializing) < Jobs
  /\ SlotFree /\ used + MaxOutput <= Limit
  /\ op' = [op EXCEPT ![c] = "serialize"]
  /\ slots' = slots \cup {c}
  /\ used' = used + MaxOutput
  /\ reserved' = [reserved EXCEPT ![c]["stdout"] = MaxOutput]
  /\ holders' = [holders EXCEPT ![c] = {"sink"}]
  /\ file' = [file EXCEPT ![c]["stdout"] = 0]
  /\ UNCHANGED <<kind, spooled, seen, chunk, tombs, entry, length, owner, access>>

\* CappedDetailWriter::write
Serialize(c) ==
  /\ op[c] = "serialize" /\ file[c]["stdout"] < MaxOutput
  /\ file' = [file EXCEPT ![c]["stdout"] = @ + 1]
  /\ UNCHANGED <<kind, op, spooled, seen, chunk, reserved, slots, holders, tombs, used, entry,
                 length, owner, access>>

\* reconcile_accounting: what was reserved beyond the file is given back.
Reconciled(c) == [reserved EXCEPT ![c]["stdout"] = file[c]["stdout"]]
Surplus(c) == reserved[c]["stdout"] - file[c]["stdout"]

\* SerializationJoinGuard::finish, then the entry.
RetainDone(c) ==
  /\ op[c] = "serialize"
  /\ op' = [op EXCEPT ![c] = "done"]
  /\ reserved' = Reconciled(c) /\ used' = used - Surplus(c)
  /\ holders' = [holders EXCEPT ![c] = {"entry"}]
  /\ entry' = [entry EXCEPT ![c] = "live"]
  /\ length' = [length EXCEPT ![c]["stdout"] = file[c]["stdout"]]
  /\ UNCHANGED <<kind, spooled, seen, chunk, file, slots, tombs, owner, access>>

\* The thread fails, reaches the limit or panics, the call is cancelled, or its
\* future is dropped: the guard joins the thread and cleans up.
RetainFails(c) ==
  /\ op[c] = "serialize"
  /\ SinkGoes(c, file[c], Reconciled(c), used - Surplus(c), slots)

-----------------------------------------------------------------------------
(* The reference *)

\* read and discard retry the tombstones before they look at the reference.
Access(c, what) ==
  /\ access[c] = "no" /\ op[c] = "done" /\ kind[c] # "internal"
  /\ RetryTombstones
  /\ access' = [access EXCEPT ![c] = what]
  /\ UNCHANGED <<kind, op, spooled, seen, chunk, entry, length, owner>>

Read(c) == Access(c, "read")
Discard(c) == Access(c, "discard")

\* open_independent finds the entry in time: the file is open before the lease.
ReadOpens(c) ==
  /\ access[c] = "read" /\ entry[c] = "live"
  /\ access' = [access EXCEPT ![c] = "open"]
  /\ holders' = [holders EXCEPT ![c] = @ \cup {"lease"}]
  /\ UNCHANGED <<kind, op, spooled, seen, chunk, reserved, file, slots, tombs, used, entry,
                 length, owner>>

\* The entry leaves the map: its files are unlinked, its Arc goes.
EntryGoes(c) ==
  /\ entry' = [entry EXCEPT ![c] = "absent"]
  /\ length' = [length EXCEPT ![c] = Nothing]
  /\ CleanUp(c, "entry", file[c], reserved, used, slots)
  /\ UNCHANGED <<kind, op, spooled, seen, chunk, owner>>

\* The entry has expired or is not there: the reference is unknown.
ReadUnknown(c) ==
  /\ access[c] = "read" /\ entry[c] # "live"
  /\ access' = [access EXCEPT ![c] = "no"]
  /\ \/ entry[c] = "expired" /\ EntryGoes(c)
     \/ /\ entry[c] = "absent"
        /\ UNCHANGED <<kind, op, spooled, seen, chunk, reserved, file, slots, holders, tombs,
                       used, entry, length, owner>>

\* The page is read, or the reader is gone: the lease ends.
ReadEnds(c) ==
  /\ access[c] = "open"
  /\ access' = [access EXCEPT ![c] = "no"]
  /\ Drops([holders EXCEPT ![c] = @ \ {"lease"}], tombs, reserved, used, slots)
  /\ UNCHANGED <<kind, op, spooled, seen, chunk, file, entry, length, owner>>

DiscardEntry(c) ==
  /\ access[c] = "discard"
  /\ access' = [access EXCEPT ![c] = "no"]
  /\ \/ entry[c] # "absent" /\ EntryGoes(c)
     \/ /\ entry[c] = "absent"
        /\ UNCHANGED <<kind, op, spooled, seen, chunk, reserved, file, slots, holders, tombs,
                       used, entry, length, owner>>

\* Ten minutes later, and the task of schedule_expiry.
Expires(c) ==
  /\ entry[c] = "live"
  /\ entry' = [entry EXCEPT ![c] = "expired"]
  /\ UNCHANGED <<kind, op, spooled, seen, chunk, reserved, file, slots, holders, tombs, used,
                 length, owner, access>>

ExpiryTask(c) ==
  /\ entry[c] = "expired"
  /\ EntryGoes(c)
  /\ UNCHANGED access

-----------------------------------------------------------------------------
CaptureStep(c) ==
  \/ CaptureBegin(c) \/ InternalBegin(c) \/ Register(c) \/ RegisterFails(c) \/ OwnerDrop(c)
  \/ AppendReserve(c) \/ AppendRefused(c) \/ StoreInMemory(c) \/ StoreInFile(c)
  \/ SpoolRefused(c) \/ PartialSpool(c) \/ StoreFails(c) \/ CaptureCancel(c)
  \/ FinishInMemory(c) \/ FinishReference(c) \/ FinishInternal(c)

RetainStep(c) ==
  \/ RetainBegin(c) \/ RetainCancel(c) \/ RetainRefused(c) \/ RetainStart(c) \/ Serialize(c)
  \/ RetainDone(c) \/ RetainFails(c)

ReferenceStep(c) ==
  \/ Read(c) \/ Discard(c) \/ ReadOpens(c) \/ ReadUnknown(c) \/ ReadEnds(c)
  \/ DiscardEntry(c) \/ Expires(c) \/ ExpiryTask(c)

Next ==
  /\ \E c \in Op : CaptureStep(c) \/ RetainStep(c) \/ ReferenceStep(c)
  /\ UNCHANGED maxEntries

Spec == Init /\ [][Next]_vars

\* The clock and the expiry tasks run.  A serializer ends; the semaphore of the
\* jobs is fair, so a waiter whose turn comes again and again gets its permit.
Fairness ==
  \A c \in Op :
    /\ WF_vars(Expires(c) /\ UNCHANGED maxEntries)
    /\ WF_vars(ExpiryTask(c) /\ UNCHANGED maxEntries)
    /\ WF_vars((RetainDone(c) \/ RetainFails(c)) /\ UNCHANGED maxEntries)
    /\ SF_vars((RetainStart(c) \/ RetainRefused(c)) /\ UNCHANGED maxEntries)

FairSpec == Spec /\ Fairness

-----------------------------------------------------------------------------
(* Properties *)

\* Quota, disk and entries agree.  The quota counts exactly the reservations
\* held: no path of cancellation, failure, expiry or late release gives bytes
\* back twice or never.  Every file is paid for, its bytes by a reservation and
\* its operation by a slot, also while unlinks fail and readers are slow.  And a
\* reference that is known can be read in full.
\* (ByteQuota, FileAccounting::release, shrink_to and drop)
AccountsAgree ==
  /\ used = Sum(reserved, {f \in Files : Held(holders, tombs, f)}) /\ used <= Limit
  /\ \A f \in Files : file[f[1]][f[2]] # Absent =>
       /\ f[1] \in slots
       /\ file[f[1]][f[2]] <= IF Held(holders, tombs, f) THEN reserved[f[1]][f[2]] ELSE 0
  /\ Cardinality(slots) <= maxEntries
  /\ \A c \in Op : entry[c] # "absent" =>
       \A s \in Streams : file[c][s] = length[c][s] \/ (kind[c] = "retain" /\ s = "stderr")

\* When an operation, its reference, its owner and its reader are done, nothing
\* of it is left but what a tombstone names: no file, no permit, no holder.
NothingLeaks ==
  \A c \in Op :
    /\ op[c] \in {"none", "done"} /\ entry[c] = "absent" /\ access[c] # "open"
    /\ kind[c] = "internal" /\ op[c] = "done" => ~owner[c]
    => /\ holders[c] = {}
       /\ \A s \in Streams : file[c][s] # Absent => \E x \in tombs : x.op = c /\ x.stream = s
       /\ c \in slots => \E x \in tombs : x.op = c

\* A retention that waits for one of the jobs is served or refused, although
\* the jobs before it hold the largest possible reservation meanwhile.
RetentionSettles == \A c \in Op : op[c] = "queued" ~> op[c] = "done"

=============================================================================
