# TLA+ models of Codex SSH Bridge

Codex SSH Bridge is an MCP server: a coding agent calls its tools over stdin
and stdout, and the bridge carries them out on remote hosts over OpenSSH. It
keeps one long-lived SSH session per host, multiplexes requests on it, buffers
file edits in memory and writes them back, spools large outputs to disk and
starts durable remote jobs that outlive the connection.

This directory holds TLA+ models of the parts where order, failure and sharing
decide whether the program is right, the TLC runs that check them on small
instances, and theorems checked by TLAPS for all instances.

## 1. Inventory

Paths are relative to `src/src/`.

| Component | Source | State | Operations | What is hard |
|---|---|---|---|---|
| Edit cache | `remote/edit_cache.rs` | per host: entries (base, desired, generation, dirty, in flight, conflict), LRU sequence, payload and retry deadlines; shared: cached bytes, next generation; locks `preparation` and `flush` | load, cache_clean_if_absent, mutate_prepared_batch, flush_once/flush_host, flush_barrier, begin_barrier, retry_outcome_unknown_host, discard_host_edits, invalidate_clean_host, timer, shutdown | one short mutex, many awaits; late results of flushes; abandoned callers; eviction; lost replies |
| Edit tools | `remote/mod.rs`, `read.rs`, `write.rs`, `patch.rs` | none of their own | read, write, apply_patch, run and the observing tools behind a barrier, sync, discard | what each step saw is stale at the next |
| Edit backend and scripts | `remote/edit_sync.rs`, the programs of `write.rs` and `patch.rs` | known host contexts; files of the remote host | fetch_snapshot, commit_batch (partitions), the snapshot, write, delete and batch programs | partial commits, unknown outcomes, check-then-rename |
| Session pool and runner | `ssh/process.rs` | slots per host with lease counts; initializer locks; policies, identities | lease, insert, release, remove; execute under one set-up deadline | counts outside the lock, two initializers, retiring what is in use |
| Host session | `ssh/session.rs`, `ssh/frame.rs` | pending table, closed, retired, writer queue | execute, abort_request, dispatch_frame, transport_failure, shutdown | cancel against exit, one failure for all, frames of unknown requests |
| Start-up | `ssh/session.rs`, `ssh/helper.rs`, `ssh/process.rs` (`run_child`) | one ssh process; on the remote host the helper file, its lock, temporary files | Persistent, Temporary, Shell fallback; resolve and probe | one deadline over three attempts; scripts of several bridges at one lock, killed or given up |
| Remote helper, dispatcher | `remote_helper.rs`, `ssh/dispatcher.sh` | active requests, child groups | OPEN, DATA, CANCEL, CLOSE; READY, output, EXIT | cancellation against completion, drain grace |
| Durable jobs | `remote_job_runner.rs`, `job_protocol.rs`, `remote/job.rs` | a directory per job: request, state, logs, lock, cancel file; a runner process | start, status, logs, cancel, list, delete; run_job; reconcile; retention | crashes at any point, reboots, concurrent control processes |
| MCP server | `mcp/mod.rs`, `mcp/stdio.rs` | protocol state, calls in flight, writer | initialize, call, cancel, end of input | responses after cancellation, order of shutdown |
| Output store | `output.rs` | byte quota, entry slots, entries, tombstones | capture, retain, read, discard, expire | return of quota on every path |
| Capability cache | `capability.rs` | cells, flights | get_or_probe, invalidate | single flight against invalidation |
| Port forwards | `remote/forward.rs` | listeners by id | forward, close, shutdown | a lease held by a forward |
| Codex patches | `remote/codex_patch.rs` | none | parse, match hunks, apply | pure algorithm |
| Installer | `cli/install.rs` | files of an installation | plan, apply, roll back | partial failure |
| The rest | `search.rs`, `metadata.rs`, `view_image.rs`, `run.rs`, `render.rs`, `tools.rs`, `config.rs`, `cli.rs`, utilities | none, or fixed at start-up | one remote command each, formatting, parsing | nothing a model shows |

How they interact: `mcp/mod.rs` runs every tool call in a task of its own and
may drop such a task at end of input. A call goes through `RemoteBridge`
(`remote/mod.rs`), which consults the edit cache; the cache reads and commits
through the edit backend, which like every other tool uses `SshRunner`; the
runner leases the host's session from the pool, or starts one; the session
multiplexes requests to a helper process on the remote side; output flows
through the session into the output store. Jobs are requests to the helper
which act on directories and detached processes of the remote host.

What makes each correct:

- *Edit cache*: an accepted edit is never lost silently nor overwritten unseen;
  a command sees all edits accepted before it; a remote change is never
  overwritten by a text that did not know it; dirty entries get flushed; bytes
  are accounted exactly; shutdown does not report success while edits remain.
- *Pool*: at most one reusable session per host, none in use is retired, none
  reusable leaks out of the map.
- *Session*: every request gets exactly one outcome, `may continue = false` is
  true, a well-behaved peer never triggers a protocol error.
- *Jobs*: a recorded terminal state is final, a job is not reported lost while
  it can still finish, every crash leaves directories that later control
  requests can handle.
- *MCP server*: one response per request that was not cancelled, none after.
- *Output store*: quota and slots in use equal what is on disk.
- *Start-up*: only a whole, verified helper is installed or executed.
- *Scripts*: what they report as done is done, and they never replace a file
  other than the one they were given.
- *Patches*: a patch is placed in order, and refused only if it has no place.
- *Installer*: all of an installation or nothing of it, whichever the command says.

`PROJECT.json` lists the hazards one by one, at their lines.

## 2. Modules and plan

| Step | Modules | Content | State |
|---|---|---|---|
| 1 | `EditCache`, `MCEditCache` | the cache, the tools over it, the batch protocol, the remote files | done |
| 2 | `EditCacheProofs` | type correctness and the main safety properties for all instances | done |
| 3 | `DurableJob`, `JobLogs` | job directories, control requests, the runner, crashes, reboots; logs under one budget and their reader | done |
| 4 | `Wire`, `HostSession`, `RemoteHelper`, `SessionSystem` | the two ends of a session and the streams between them | done |
| 5 | `EditedFiles`, `EditCacheFiles` | what the cache promises its clients; the refinement from `EditCache`, checked, and proved in `EditCacheProofs` | done |
| 6 | `Runner` | pool, leases, capability cache, the phases of every kind of call | done |
| 7 | `RequestFrames`, `Dispatcher`, `MCRemote` | how a request travels; the shell dispatcher | done |
| 8 | `McpServer`, `Forwards`, `McpSystem`, `MCMcp` | the life cycle of calls; listeners; both together | done |
| 9 | `OutputStore`, `MCLocalDisk` | quota, slots, retention | done |
| 10 | `HelperInstall`, `LocalChild`, `MCStartup` | start-up on both sides of the connection | done |
| 11 | `GuardedFiles`, `CodexPatch`, `MCEditPath` | the scripts that change files; the placement of patches | done |
| 12 | `Install`, `MCLocalDisk` | the installer's transaction | done |
| 13 | `RunnerProofs`, `SessionProofs` | one open session, leases counted, fresh capabilities; true continuation, complete output, nobody forgotten, for any number of calls | done |
| 14 | `DurableJobProofs` | final and true records; logs that are beginnings of the streams | done |
| 15 | `ScriptProofs` | the scripts: only verified helpers; true EXITs; true reports and no file replaced but the one looked at | done |
| 16 | `McpProofs` | order of answers; no forward left | done |
| 17 | `SumTheorems`, `LocalDiskProofs` | sums over finite sets; exact accounts and nothing leaked; an installer that restores or is done | done |

A module models one component; the theorems about it are in modules of their own
(section 13). Compositions:

- `SessionSystem` puts `HostSession` and `RemoteHelper` at the two ends of `Wire`;
- `McpSystem` puts `Forwards` under `McpServer`, whose tasks call it and whose
  end shuts it down;
- `EditCacheFiles` instantiates `EditedFiles` with the state of `EditCache`;
- `Runner` takes the pool, the capability cache and the phases of a call as one
  module, because they share one lock.

`MCShared`, `MCEditPath`, `MCRemote`, `MCLocalDisk` and `MCStartup` are not compositions:
they let one run check several modules that share no state (`MCEditPath` extends
`EditCache` and `GuardedFiles`, `MCRemote` extends `Dispatcher` and `JobLogs`,
`MCLocalDisk` extends `OutputStore` and `Install`, and the modules of proofs do the
same; the others take theirs by INSTANCE). A variable `part` says which of them a
behaviour is of, and the others stay at one initial state. The per-action
coverage TLC reports was inspected for each part: every action of each is taken.

No module declares a RECURSIVE operator. Constants carry named assumptions, in the
modules that a run extends.

## 3. EditCache

### State and code

| Variable | Code |
|---|---|
| `entry` | `HostState.entries`; `gen = 0` is a clean snapshot, `inFlight = 0` is `None` |
| `older` | the order of `lru_sequence` |
| `cachedBytes`, `nextGen` | `CacheState.cached_bytes`, `next_generation` |
| `payload`, `firstDirty`, `retry` | `dirty_payload_bytes` (counted up to the threshold), whether `first_dirty_deadline` and `retry_deadline` are set |
| `timer` | the task of `spawn_timer`: off, checking, waiting for a notification, sleeping to a deadline, flushing |
| `spawned` | `flush_once` tasks spawned by the payload threshold |
| `prep`, `flusher` | holders of `HostRuntime.preparation` and `HostRuntime.flush` |
| `items`, `done` | the batch between `FlushBegin` and its settlement; the items the script has applied |
| `barrier` | the worker of `flush_barrier` and the caller it reports to |
| `call` | tool calls: a program counter and what the call remembers across awaits |
| `life` | the MCP server: up, closing, in the shutdown flush, ended |
| `remote`, `orphans`, `foreign` | remote files; items a script may still apply after its reply was lost; other writers |
| `applied`, `dropped`, `root` | history variables for the properties only |

An action is one critical section of the state mutex together with everything
up to the next await that can let another task in. A call of `remote_write` or
`remote_apply_patch` is `EditCall`, then per path `lookup_entry`,
`lookup_complete`, `LoadLock`, `fetch_complete`, `load_complete`, and
`mutate_prepared_batch` (or one of its refusals); a batch that does not fit goes
to the immediate path: `flush_host`, `ImmediateSnapshot`, `ImmediateWrite`,
invalidation. `flush_once` is `FlushBegin`, one `CommitItemStep` per item, and
one of `FlushSucceeds`, `FlushConflicts`, `FlushFails`, `FlushUnknown`;
`Resume` does what the particular caller (timer, spawned task, barrier,
shutdown, sync, immediate write) does with the result. `flush_barrier` runs in
a worker that owns the preparation lock and survives `BarrierLeave`.

What is abstracted: a single host; other hosts share only `max_bytes`. Time
is a deadline that is set and that may fire; the growth of the retry delay is
left out. A batch is loaded and its immediate writes are made in path order.
Contents are model values with a size; equal contents have equal hashes; the
file mode is part of the content. An immediate write is guarded by the snapshot
it took. One batch item is one atomic step of the remote script. Tasks that
shutdown has overtaken go on afterwards, as detached tasks do until the process
exits. Not modelled: the ten-second limit on the shutdown flush, the failure to read the
reply spool after a commit (`edit_sync.rs:314-323`), and `remote_job_start`,
which differs from `run` only by invalidating on an unknown outcome as well.

### Properties

| Property | Meaning |
|---|---|
| `WriteBackInvisible` | the cache implements `EditedFiles`: flushes, retries, evictions, invalidations and failures change nothing a client can see |
| `NoSilentLoss` | every generation ever accepted is dirty in the cache, has reached the remote file, or was superseded or discarded |
| `BarrierSound` | past a barrier every edit accepted before the call is on the remote side |
| `NoLostBufferedEdit` | an edit replaces another only after reading exactly its text |
| `GuardMatchesText` | the base that guards a buffered text is the remote state the text derives from |
| `CleanMirrorsRemote` | a clean entry is the remote file while no command or immediate write runs |
| `BytesAccounted` | `cached_bytes` is exact and within the limit |
| `ShutdownSound` | a shutdown that reports success left nothing dirty |
| `DirtySettles` | a dirty host becomes clean or reports a conflict without help |

`TypeOK` (every variable has its kind) and `InFlightOwned` (an in-flight mark
belongs to the batch being committed) are proved rather than run, see section 13,
where the refinement and all the invariants above are proved as well, for any sizes.

### The abstract specification

`EditedFiles` has two variables: `text`, each file as a client of the host sees
it, and `buffered`, the paths whose text is not known to be on the remote host.
Its steps are an edit of a batch of paths at once, a store (a path ceases to be
buffered with its text unchanged), a discard, and, if `Others`, a write of one
path by somebody else. `EditCacheFiles` maps `EditCache` to it:

    buffered = the paths whose entry is dirty
    text[p]  = entry[p].desired if p is buffered, else remote[p]

What the mapping makes visible: a generation in flight that succeeds late, after
the path was edited again, must not change the text; a retry with an unknown
outcome must keep what is buffered; a clean entry may be dropped at any time,
since the remote file has its text; a batch takes effect as a whole. `Others` is
false in `EditCacheBarrier`, where nobody but the flusher changes a remote file and
nothing is discarded, and every text fits (`Undisturbed`), so the only visible change
there is an edit.
With discards (`GivesUp`) it is true: a batch in flight may land after a discard, and
then the file shows a text the client gave up. The refinement does not notice every mistake: a plan made
against the cached instead of the remote text, and a late success that keeps the old
base, refine as well; `NoLostBufferedEdit` and `GuardMatchesText` notice them.

### Runs

| Run | Question | Instance | Result |
|---|---|---|---|
| `EditCacheBarrier` | two callers that edit, observe and read one path; background flushes, transient failures, failed fetches, abandoned barriers, aborted calls, end of input | 2 calls, 1 path, 2 contents, 2 generations | `BarrierSound`, `ShutdownSound`, `WriteBackInvisible`, `NoLostBufferedEdit` hold |
| `EditCacheBatch` | batches of two paths, contents too large to buffer, foreign writers, failing commands, permanent errors, lost replies | 1 call, 2 paths, 3 contents, 1 foreign write | `NoSilentLoss`, `GuardMatchesText` hold |
| `EditCacheLiveness` | flushing without the client's help, with discards and synchronizations in the middle of a flush | 1 call, `FairSpec` | `DirtySettles` holds |
| `EditPath` (the part `cache`) | a cache smaller than the working set; the mirror of clean files | 1 call, 2 paths, one byte | `CleanMirrorsRemote`, `BytesAccounted` hold |
| `EditCacheLostUpdate` | an edit that loaded before a command, mutating after a reload | 2 calls, 3 contents | `GuardMatchesText` violated |

Bounds. Every interleaving the properties speak of needs at most two calls on
one path (who reads, who overwrites) or one call on two paths (partial
commits); two generations per path let an edit overtake its own flush;
one foreign write is enough for a conflict. `MaxGen` and `MaxForeign` bound
accepted edits and remote writes in the guards of `mutate_prepared_batch`,
`CommandWrites` and `ForeignWrite`. Contents are as many as the property must
tell apart. `SYMMETRY` permutes calls, in runs without liveness only. Runs with
the fault `close` may stop after the shutdown flush and say so with
`CHECK_DEADLOCK FALSE`.

What a run leaves out matters. `CleanMirrorsRemote` is checked for one call at a
time and without failing commands, discards and foreign writers: `read.rs:216`
inserts without a lock, `mod.rs:373` returns before the invalidation, and a
discard leaves a batch in flight that lands after the path was read again.
`ShutdownSound` holds in `EditCacheBarrier` with aborted calls because none of
its operations flushes by itself; with `sync` it fails (section 15).
`GuardMatchesText` holds in `EditCacheBatch` with a call at a time and is violated
with two, which is what `EditCacheLostUpdate` shows.

Fairness (`FairSpec`). The timer task is scheduled and its deadlines elapse; a
flush whose turn has come gets the flush lock (Tokio's mutex is a fair queue,
hence strong fairness per task); running handlers go on to their end. A
batch that is retried again and again goes through at last: strong fairness on
`CommitItemStep`, `FlushSucceeds` and `FlushConflicts` says that transient failures do not win
for ever, which is what the design document means by a healthy connection.
Nothing is assumed of the client: no call need ever be made.

## 4. DurableJob

### State and code

| Variable | Code |
|---|---|
| `files` | what exists under the directory of a job: the directory, request, `runner.lock`, state, cancel file, a temporary state file |
| `record` | the contents of the state file: its state and boot id |
| `lock` | holder of the advisory lock on `runner.lock` |
| `ctl` | the control request each helper executes: program counter, the walk of `collect_expired`, the record it read |
| `runner` | the detached runner process: where `run_job` is, the outcome it has seen, the helper it is a child of |
| `command`, `members` | the job's command and the rest of its process group |
| `boot` | the boot id of the remote host |

The processes share nothing but the file system, so an action is one access to
it. Every control request first walks all directories (`Walk`, `collect_expired`)
and then does its own part: `cancel`; the deletion (`DeleteOpen`, `DeleteLock`,
`DeleteScan`, unlinking, removing); the start (directory, request and lock files,
`starting` record, spawn, waiting for READY for two seconds). `reconcile_state`
reads the record, looks at the runner process, takes the lock, reads again
(`Settled`) and only then writes `lost`. The runner takes the lock, writes the
input, records `running`, watches for the cancel file, the timeout and the end of
its command, kills, drains and records the outcome in two steps (temporary file,
rename).

What is abstracted: the logs, which `JobLogs` has; `list`, a `status` for every
job followed by reading; retention clocks and budget (any
terminal job may have expired); READY on a broken pipe and failing I/O are faults
of a step. The runner of a helper that lives stays a zombie and looks alive to
`process_matches`. Descendants of the command are silent or hold its pipes.
Record files are atomic (written aside, synced, renamed). A job id is fresh.

### Properties and run

| Property | Meaning |
|---|---|
| `OutcomeIsTrue` | an ended, cancelled or timed-out record is of a command that was reaped |
| `SupervisedIsKept` | no deletion or retention touches the directory of a living runner |
| `TerminalIsFinal` | a terminal record is never replaced |
| `CancelSettles` | a runner that has a cancel file in time ends |

The run `DurableJob`: one job, two helpers that start, cancel and delete; every
fault but `hold`; two boots; `FairSpec`. All four hold.

Two helpers are two control processes at the same point of the protocol, which is
what every race of the lock and of the directory needs; jobs do not interact
except in the walk, which visits one directory at a time. Two boots suffice for a
record of an earlier boot. Fairness is that of the kernel for the runner
(`RunnerStep`); nothing is assumed of helpers or commands. The fault `hold` (a
descendant keeps the output pipes) is left out of the run because the
runner then drains for ever and never looks at the cancel file.

### The logs

`JobLogs` has the two draining threads, which keep what they read while the budget
of the job lasts, and a client that pages through the files with
`remote_job_logs`. A byte is its position in the stream, so that a file shows
which bytes it holds. A round of `reserve_quota` is one action that succeeds if nobody
else changed the budget meanwhile; a log request is three: the state, the page of stdout, the
page of stderr with what the first has left; the last one also cuts both pages as
`render.rs` does, by halving them until the result fits: a page is cut to one of
`Parts` of it (a cut to whole characters is left out). The disk may be full and the
runner may die.

| Variable | Code |
|---|---|
| `running`, `written`, `supervisor` | the command and what it has written; the runner: alive, its end recorded, or dead |
| `thread`, `observed`, `retained`, `quota`, `log` | where each draining thread is and what it holds; `DrainStats`; the bytes of the budget that are taken; the files |
| `status`, `told` | the state file, and what of it the client's request was told |
| `client`, `budget`, `page`, `offset`, `got` | the request under way, what its pages may still hold, the page of stdout; where the client goes on and what it has |

| Property | Meaning |
|---|---|
| `LogsAreTrue` | the files stay in the budget and hold beginnings of the streams; a client at the end of both files of a job that is over has all that was kept, and unless the job was lost it knows whether that is all, something being missing only when the budget is used up |

It is checked by the run `Remote` (module `MCRemote`, part `logs`): two bytes on each
stream, a budget of three, pages of one or three. Two threads are all there are; a
budget smaller than what they bring and a page smaller than a file make every cut
happen. A job that was lost has no record of what was observed, so that its logs
never say that they were truncated.

## 5. The session

`Wire` has the frames and the two streams; `HostSession` is the local end
(`ssh/session.rs`), `RemoteHelper` the remote one (`remote_helper.rs`);
`SessionSystem` puts both at one SSH child and states the properties. An action
is what one Tokio task does between two awaits, or one thread of the helper
between two accesses to something shared.

| Variable | Code |
|---|---|
| `up`, `down` | frames written and not yet read on either stream; `link`: the SSH child lives; `killed`: its process group was signalled |
| `call`, `result` | where `execute` and `abort_request` are; what the caller got (`ok`, `may` = `remote_process_may_continue`) |
| `ready`, `reply` | the two oneshot channels of a `PendingRequest` |
| `pending`, `received` | `SessionInner.pending`; output accepted |
| `closed`, `failing` | `SessionInner.closed`; who is between closing the session and `fail_all`, the two halves of `transport_failure` |
| `queue`, `tasks` | the channel to the writer task; which of the three tasks still run |
| `main` | the loop of `run`: reading, joining workers, ended, stuck |
| `active`, `cancelled`, `group` | `Shared.requests` and its `RequestControl`s |
| `worker`, `alive`, `may` | `run_request` and `execute_request`; what the worker found out before EXIT |
| `shell`, `child`, `pipe`, `unwritten` | the command: its shell, at most one process left behind (quiet, holding output or input, or escaped into a group of its own), output in the pipe and to come |
| `drain`, `stop` | the draining thread (one stands for two) and `stop_sending` |

The order of the steps is that of the code where it matters: a request enters the
table before its frames are queued; `send` looks at `closed` before it waits for
room; a failure closes the session before it empties the table; the worker stores
its process group before it looks at the cancel flag; `stop_sending` is looked at
again under the lock of the writer. `Misses` is the outcome release and acquire
ordering allows when `cancel` and the worker cross.

What is abstracted: the bytes of frames and DATA frames (a frame cut short is the
end of input for `HelperFails`); output limits and truncation, and the forwarder
that drops output for a caller that reads too slowly; futures dropped in the
middle; CLOSE, which nothing sends any more; invalid requests; the steps of a
search. SIGTERM and SIGKILL to a group are one step. Time is that a deadline may
pass at any moment.

| Property | Meaning |
|---|---|
| `ContinuationIsTrue` | a result that says the process does not continue is right: nothing of its group lives or will be started |
| `OutputComplete` | a result without continuation has all the output of the command; and while the session is open the next frame of the helper is one the reader accepts, so that no output is lost to a protocol error |
| `NoneForgotten` | once a failure of the session is through, every call that is past its look at `closed` has its answer |
| `EveryCallReturns` | every call returns, whatever the helper and the connection do |
| `HelperGoes` | the helper of a dead connection ends, with the commands it waits for |

| Run | Instance | Result |
|---|---|---|
| `SessionCommand` | one command with processes left behind, connection failures, a wedged helper, missed cancellations; `FairSpec` | all but `NoneForgotten`, which is not checked here, hold |
| `Shared` (the part `session`) | two searches, a queue and streams of one frame, retirement; symmetric | `NoneForgotten` holds |

Bounds. One command meets every race between its own threads; two requests are
what a shared failure, a full queue and a frame for somebody else need. One frame
per stream and one place in the queue make every writer wait; one piece of output
is enough to be lost, late or sent twice. All calls are made at most once, so a
run may stop (`CHECK_DEADLOCK FALSE`).

Fairness (`FairSpec`). A call that has begun goes on, because its deadlines pass;
the three tasks and the threads of the helper are scheduled; the watchdog fires,
because the bridge gives every command a limit; an SSH child that was signalled
ends. Nothing is assumed of commands, of processes they leave, or of the
decision to call. Note that a limit below one millisecond reaches the helper as
0, which means none (`session.rs:1452`), so `timeout_ms = 1` has no watchdog.

What the run leaves out: a descendant in a session of its own that keeps the
output pipes (`Offspring` without `"escaped"`), with which `EveryCallReturns` and
`HelperGoes` fail; see section 15. The safety properties are proved with it.

## 6. Requests on the stream, and the shell dispatcher

`RequestFrames` models what goes over the stream before a request runs: `Sent`
gives the DATA frames that `session.rs` writes for an OPEN, `Wanted` and
`TakesPart` those that `remote_helper.rs` and `dispatcher.sh` expect for it. A
shape is the kind of request and the lengths of its parts, or a part too large for
a frame; the stream may be cut in any frame. `RequestsArriveWhole` (run `Shared`,
part `stream`, two requests of eight shapes, three kinds of reader) says that a
request is started with exactly what it was sent with and that nothing is left
over for the next. An empty command or directory would break it: the dispatcher
waits for a DATA frame that an empty part does not have (`dispatcher.sh:620`);
`run.rs:25` and `job.rs:275` refuse empty commands before. An ERROR for a request
that is not pending is ignored by the host, while READY, output or EXIT for one
fails the session.

`Dispatcher` models what becomes of a request in the shell dispatcher: the main
loop, a worker subshell per request, its collectors and watchdog, which meet only
in the files of the request's directory.

| Variable | Code |
|---|---|
| `main`, `about` | the loop and the request of its present frame; `opened`, `asked`: frames read |
| `dir`, `cancelled`, `pidfile`, `collected` | the directory of a request, its files `cancelled`, `pid`, and the marks of the collectors |
| `worker`, `doomed`, `may`, `whole`, `sent` | the subshell; what it saw of a cancellation, of the group and of the output; the last frame it sent |
| `shell`, `child` | the command and what it left behind (`Offspring`): in the group or in one of its own, holding the output pipes or not; a `"daemon"` has left both |
| `watchdog`, `killer` | the subshells that signal later |

| Property | Meaning |
|---|---|
| `ExitIsTrue` | an EXIT that claims to be the end is the end of the group and of the output: no process in the group, nobody with the pipes, nothing missing |
| `CancelReaches` | a marked cancellation ends the command, before its start, before its pid is known, or later |

The run `Remote` (part `dispatcher`) has a request that may leave any process behind, has a limit
and may be cancelled, beside a plain one; both hold. Of a process that left the group
and the pipes (`setsid` with its output elsewhere) the dispatcher finds no sign
(`dispatcher.sh:535-543`): its EXIT denies that anything continues, and `ExitIsTrue`
says nothing of that process (section 15). Fairness: the subshells are
scheduled, timers expire, a SIGKILL arrives; commands need not end. Bounds and
abstractions: a frame is sent in one step, as it is under the lock directory; the
bounded wait for the pid is the worker giving up when its directory is gone; a pid
written between the clean-up's test and its `rm -rf` leaves a command without a
supervisor, which `CancelReaches` excepts as a dead dispatcher. A CANCEL that
crosses an EXIT "may continue" is excepted too. HUP, INT and TERM to the
dispatcher, its test hooks and requests that use an id again are left out.

## 7. Start-up

`HelperInstall` has the attempts of `connect_with_capability` (persistent,
temporary, shell) of several bridges and the scripts of `helper.rs` they start on
one host, one action per command of a script. `lock` is a directory with an
owner's id in its file; a script may be killed at any command, told to end,
lose its bridge, or have no disk left; the lock may be an old one.

| Property | Meaning |
|---|---|
| `OnlyVerifiedRuns` | whoever believes to hold the lock, only a whole, verified helper is installed or executed |
| `ScriptsEnd` | a script whose bridge gave it up ends and takes its temporary file along |
| `ChildCallEnds` | (`LocalChild`) `run_child` ends although ssh, or who inherited its pipes, does not |

The first does not rest on the lock: several scripts may find it stale at once and
remove each other's, and the digest of a private temporary file with the
rename is what keeps the helper whole. `LocalChild` is the loop of `run_child` for
resolving and probing: three tasks and the call that selects over them, a deadline
and a cancellation.

The run `HelperInstall` (module `MCStartup`): two connections, a lock possibly left
by a third, one kill, two looks at a busy lock; or one local process. All hold.
Two scripts are what taking over a lock twice needs; `Tries` (30 in the code)
only counts how long a script waits. Fairness: a script that can go on does, a
bridge reads what is there and its deadline passes. A lock without an owner's id is
never taken over (`helper.rs:147`): thirty tries of a second exceed the connect
timeout, so the persistent helper is out of reach until somebody removes the lock,
and every connection falls back. The lookups of shells and directories, process
ids used again, and two builds of one version are left out; after its setup
timeout (`process.rs:443`) the caller leaves ssh to end by itself.

## 8. The runner of a host

`Runner` is `ssh/process.rs` with the capability cache of `capability.rs` and the
session pool. A call (`run`, `read`, `mutation`, `job`, `search`, `forward`,
`prepare`) takes the initializer lock, finds or makes policy, capability and
session, gives the lock back and runs under its lease.

| Variable | Code |
|---|---|
| `kind`, `pc`, `result`, `second`, `did` | what a call is, where it is, what it returns, its second attempt, whether the remote host ran it |
| `used`, `lease`, `holder` | the probe it uses, the session it leases, who has the initializer lock |
| `policy`, `entry`, `flight`, `cell`, `state`, `old` | the cached policy; `CacheState.entries` and `in_flight`; the capability cells; each probe; the probes from before an invalidation |
| `session`, `mode`, `pool`, `leases` | sessions, their helper, `SessionPool.hosts`, `SessionSlot.leases` |

| Property | Meaning |
|---|---|
| `OneSession` | a host has one open session, it is in the pool, and no session is retired while leased |
| `CapabilityFresh` | an attempt begun after an invalidation never uses an earlier probe, however late that ends |
| `MutationHonest` | a mutation that reports an error other than an unknown outcome has not run, and one that reports success has |

The run `Shared` (part `pool`): three calls in three mixes of kinds, with setups
that expire anywhere, dying sessions, failed captures, tools that disappear. Three
calls are a holder, one that arrives and one that invalidates or retires;
`Sessions = 3` and `Probes = 3` bound those anybody refers to. Two findings of the
model: giving the initializer lock back before the connection would not break
`OneSession`, since `insert_leased` retires the loser; and with the lock held,
the retiring branch of `release` and a follower that meets the flight of a living
leader are never reached.

## 9. Scripts and patches

`GuardedFiles` runs the remote programs of `write.rs`, `patch.rs` and
`edit_sync.rs` command by command beside a foreign program that saves by rename,
writes in place, removes and chmods. A directory maps names to inodes, an inode is
two halves of data and a mode, so that a copy may be torn.

| Variable | Code |
|---|---|
| `names`, `inode` | the directory |
| `job`, `stage`, `at`, `snap`, `prefix`, `waiting`, `report` | the caller: what it wants, where it is, the bases it has read, the items a batch has settled, what it says in the end |
| `doing`, `seen`, `handle`, `acc`, `tmp` | the running program: its place, the identity it saw at first, the file `dd` has open and what it has read of it, the staged file |
| `touched`, `window`, `intrusions` | history variables: the paths that were changed; what the foreign program did to the present one since it was looked at; the foreign steps, at most `MaxIntrusions` |

| Property | Meaning |
|---|---|
| `ProgressIsTrue` | each path is reported as changed, untouched or unknown, and what is reported of the first two is so, after any failure or kill |
| `NoStaleOverwrite` | content other than the base is replaced only if it changed after the hash was begun, an inode other than the one seen only if the name changed after the last look |

The window in the second is the code's own: it checks, then renames. Excepted is an
inode number that is used again, which no check tells apart. `WriteMode::Replace`
without a hash has no base and no guard; the batch program looks at a path at the
start of its item only, and brings back the mode of the snapshot where the write program keeps a
foreign chmod; its trap is set after `mktemp`. A killed program leaves its temporary
file. Swaps of parent directories are not modelled; size, links and owner are part
of the identity.

`CodexPatch` has the parser record by record, and the placement of the hunks of an
update with the four ways to compare lines.

| Property | Meaning |
|---|---|
| `PlacedRightly` (1) | replacements are disjoint, in the order of the chunks, each equal to what the patch expects up to blanks and typographic signs, and unchanged lines stay the file's own |
| `PlacedRightly` (2) | if no two lines look alike to a looser comparison, a patch is refused only if no choice of places in order exists |

The reference definition of the second (`CouldEndAt`) chooses the places freely;
the algorithm takes the first place each. Without the premise it is false: an
exact match further down is preferred to a loose one nearby and may leave no place
for the next chunk. Lines are values with one form per comparison; byte limits,
NUL and invalid UTF-8 are one flag of the base. A move to the same path is
accepted (`mutation_paths`).

The run `EditPath` (module `MCEditPath`): five jobs on two names with two
foreign steps and two faults; all texts of up to six records for two paths, and of five
for updates of a file of up to three lines of four kinds; and the cache part of section
3. All five properties hold.

## 10. The MCP server

`McpServer` is the owner loop of `mcp/mod.rs` with the tasks it spawns and the
writer; `Forwards` is `remote/forward.rs`; `McpSystem` makes the tasks of the
server call the forwards and its end shut them down.

| Variable | Code |
|---|---|
| `input`, `sent`, `id`, `open` | the client: frames under way, requests sent, their ids, how stdin was closed |
| `pc`, `message`, `state`, `active`, `silenced`, `failed`, `partial`, `result` | the loop: where it is, the message it has to hand over, `ProtocolState`, the calls in flight, those cancelled by the client, the flags of the end |
| `task`, `ready`, `cancelled` | the tasks, the ended ones in the `JoinSet`, the tokens |
| `channel`, `writer`, `suppress`, `answers` | the bounded channel, the writer task, `suppress_call_responses`, what was answered |
| `call`, `port`, `relays`, `entries`, `lifetime`, `dropped`, `closes`, `taken`, `ending` | `ForwardManager`: calls, listeners with their relays, tokens and requested aborts, the map, the shutdown |

| Property | Meaning |
|---|---|
| `AnswersInOrder` | the answers with one id come in the order of its requests, one each |
| `EveryCallAnswered` | again and again, all calls whose tool has returned are answered, unless cancelled, whatever else the client sends |
| `ServeEnds` | `serve` returns after the end of input or of the client, although no tool returns |
| `NoForwardLeft` | when `serve` returns without an error, no task is left and no listener or relay, but those of a forward whose `close_forward` was aborted while it waited: it is cancelled and its abort asked for |

The drop of an `Entry` cancels the forward and asks for the abort of its serve task
(`Dropped`, `forward.rs:52-57`); the task is dropped later, where it stands
(`AbortLands`), its relays then end each on its own (`RelayEnds`), and nobody waits for
either. The shutdown awaits the entries it finds in the map; an entry that a call had
taken to close it is dropped with that call, so that `serve` may return while its listener or
relays are still there. After it, `main` drops the runtime, which is left out.

The run `Mcp`: two calls (open a forward, close one) with one id or two, one frame
under way, a channel of one message, every way to end. All hold. Fairness
(`SysFairSpec`): the loop and the writer are scheduled, the deadlines of the end
pass, a dropped service ends; nothing of tools and clients. Fairness of the writer
means that the client reads: one that stops reading but keeps its end open blocks
the loop. After a transport failure or a frame cut short the service is not shut
down, and the model says so. An envelope that is no valid JSON-RPC request is
answered with its id even while a call with that id is in flight; `answers` does not
count it. `list_forwards` only reads and is left out, as are arguments of tools.

## 11. The output store

`OutputStore` has the three ways output gets there (`capture`,
`capture_internal`, `retain_*`) and what happens to a reference: reading,
discarding, expiry. Bytes and slots come back in the `Drop` of objects
that are shared, so `holders` says who has the entry's accounting and `tombs` what
a failed removal has left.

| Property | Meaning |
|---|---|
| `AccountsAgree` | the quota counts exactly the reservations held; every byte on disk is reserved, every file has a slot; a known reference can be read in full |
| `NothingLeaks` | when all is over, nothing is left but what a tombstone names |
| `RetentionSettles` | a retention that waits for one of the jobs is served or refused |

The run `LocalDisk` (part `store`): two operations of any kinds, three bytes, one or two slots,
one serializer job, failing files and unlinks, cancelled calls; all hold. Two
operations are what the sharing of quota, slots and the job needs. Captures are
tasks of their own (`process.rs`, around line 1605), so an owner may be dropped in
mid-capture. Fairness: expiry and its task, the serializer thread; strong for the
semaphore of jobs, a fair queue. Removing an entry and cleaning up is one step.
Not modelled: the removal of the store's directory, provenance, page offsets,
collisions of tokens, and the two parsers of the file.

## 12. The installer

`Install` is `install --user --apply` and `uninstall` as a transaction over five
things: the configuration, the stable link, the MCP entry, the Skill and the
marker, with a lock, a journal and a rollback, by several processes. A release is
staged before the lock is taken, and an installation removes all other releases.
What was published is resolved once more where it is now (`Verify`) and removed again if that fails
(`Withdraw`), still without the lock.

| Variable | Code |
|---|---|
| `user`, `bundles`, `staging` | what stands at each of the five places; the releases in the managed directory; private copies that are still there |
| `lock`, `job`, `pc` | the installation lock; what each process was called for, one of `Commands`; where it is |
| `pre`, `journal` | `InstallPreflight`, `InstallJournal` and the outcomes nobody observed |
| `before`, `touched`, `pulled` | history variables: the places when the lock was taken, those a foreign program has edited since, and the releases their publishers removed again since |

A step is one mutation with all that may come of it: it is done, it fails
before or after it had an effect (`Replaced`, `Torn`, `Late`, `Outcomes`), or the
process is killed. `CleansUp` removes what was put aside, `Prune` the other
releases; either may fail after everything is done, and that is an ordinary error with
nothing rolled back (`install.rs:462`, `464`). A rollback undoes the journal backwards, `UndoFiles` to `UndoConfig`,
`Restore` and `RegisterAgain`.

| Property | Meaning |
|---|---|
| `AllOrNothing` | a command that reports an ordinary error leaves everything nobody else edited as it was; or, if its cleanup or pruning failed, everything installed |
| `OkMeansDone` | a command that reports success leaves everything on its release, which is still there unless its publisher removed it |

The run `LocalDisk` (part `install`): two processes, two releases, seven histories,
two faults or kills, one foreign edit; two installers of one release as well, from the histories in
which they meet while it is published. Excepted from the first (`IsBack`): an MCP entry by
path comes back as the stable path, an outcome the code did not observe
(`install.rs:386-390`, `1860-1866`) is not undone, and a new Skill link stays when its
release was withdrawn meanwhile: it dangles, so that the rollback does not know it as its own
(`install.rs:1049-1054`). TLC reaches these cases. The preflight is one step, a
rename with its recheck as well. A removal of one release is all or nothing, while that of several may
stop anywhere. Directories, probes, hashes and trust of paths are
abstracted; dry runs, an installation from the managed bundle itself and Windows
are left out. Two things the model shows that no property states: an uninstallation leaves the link and the bundle; pruning may
delete a release another process has staged.

## 13. Proofs

The theorems hold for every value of the constants that the named assumption of the
module allows: any sets of paths, calls, requests, jobs and connections, any
bounds, sizes and faults. The assumptions say of what kind a constant is; where a
constant stands for "nobody" (`None`, `0`, `"runner"`) they say that it is nobody's
name, since a slot, lock or answer that somebody has could not be told from a free
one otherwise. `FilesAssumption` also says what the callers of the scripts see to: no
path twice in a job (a patch that repeats one is refused, a batch has one item per
cached path), and whatever is not overwritten blindly was read before.

| Theorem | Statement | Invariant it rests on |
|---|---|---|
| **`EditCacheProofs`** | | |
| `TypeCorrect` | `[]TypeOK` | `TypeInv`: a call at a step that works on "the next path" has one (`TodoOK`), since `First` of an empty set is no path; a spawned flush that runs is counted (`SpawnedOK`), since `spawned - 1` must stay a natural number |
| `NothingLost` | `[]NoSilentLoss` | `LossInv`: an item marked done is in `applied`. Without it the settlement of a batch could clean an entry that was never written |
| `InFlightAlwaysOwned` | without aborts, `[]InFlightOwned` | `InFlightOwned` with `TypeInv`; every caller of `Resume` clears marks together with the batch |
| `BarrierHolds` | without aborts, `[]BarrierSound` | `before` never exceeds `nextGen`; a clean result of `flush_once` means nothing dirty, nothing in flight, so by `LossInv` all older generations are applied or dropped |
| `ShutdownIsSound` | without aborts, `[]ShutdownSound` | `ShutdownInv`: once the shutdown flush runs all calls are over, so that nobody makes an entry dirty behind it, and the shutdown flushes in this phase only; the clean result of `flush_once` is that of `BarrierHolds` |
| `EditorsNeverOverwrite` | `NoLostBufferedEdit` | `PlanInv`: a plan that names a current generation above 0 holds exactly its text, because generations are never reused |
| `CacheIsInvisible` | `Spec => SharedFiles!Spec`: the cache implements `EditedFiles` with other writers | `TypeInv`, and that only a discard discards. A step that changes a remote file leaves every buffered text alone; every other kind of step is an edit of a batch, a store, a discard, or invisible |
| `WriteBackHides` | `WriteBackInvisible`, the refinement as the runs state it | the theorem above; when `Undisturbed`, `QuietInv`: everything fits (`BytesAlwaysAccounted`), so that no edit is immediate, what a batch holds or left behind belongs to a path that stays buffered, and what is done is on the remote file. Then an edit is all that is ever visible |
| `GuardHolds` | one call at a time (`Alone`): `[]GuardMatchesText` | `GuardInv`: what an edit still has to load is not in its plan, an entry that has the generation the plan names has the text the plan names (`PlanTrue`), a generation belongs to one text, in the cache and in the batch under way, and the base of a clean entry is its text (`BufferInv`) |
| `CacheMirrorsRemote` | under `Calm`, `[]CleanMirrorsRemote` | `MirrorInv`: what a call is about to insert is what the remote file has, and its path is not cached meanwhile (`MirrorCall`); an item that is done is on the remote side, whatever becomes of its batch (`DoneStored`); the flush of a call or barrier waits for its end (`FlushWaits`) |
| `BytesAlwaysAccounted` | `[]BytesAccounted` | itself with `TypeInv`, by sums over the cached paths: what an eviction, a replacement and a new entry do to them |
| **`RunnerProofs`** | | |
| `RunnerTypes` | `[]TypeOK` | `IInv`: a count is never taken below zero because it is the number of the calls that hold the lease (`Counted`, with the cardinality of finite sets) |
| `OneSessionHolds` | `[]OneSession` | `Pooled`, with `Counted`: nobody connects while a session is open, and whoever connects has the initializer lock (`LockHeld`) |
| `CapabilityIsFresh` | `[]CapabilityFresh` | `ProbesInOrder`: probes are begun in the order of their numbers without a gap, and neither entry nor flight is older than the last invalidation |
| `MutationsAreHonest` | `[]MutationHonest` | `MutationsKnow`: what result a mutation has, and what it may have done, at each of its steps |
| **`SessionProofs`** | | |
| `SessionTypes` | `[]TypeOK`, in which `received` is bounded by the output there is | `OutputInv`, since the bound is a matter of counting |
| `NobodyIsForgotten` | `[]NoneForgotten` | `TableInv`: a call in progress is in the table or has its answer |
| `DenialsAreTrue` | `[]ContinuationIsTrue` | `RequestInv`: a request is opened once on its way (`OpenInv`); what a worker found out of its group stays true (`GroupInv`); an EXIT on its way, an answer and a result say no more than that (`ToldInv`) |
| `OutputArrives` | `[]OutputComplete` | with these, `OutputInv`: when the drain has nothing more to send (`DrainInv`), in which order the frames of a request are on the stream and who expects them (`FrameInv`), and that the pieces received, on the stream, with the drain, in the pipe and yet unwritten add up to what the command writes (`CountInv`) |
| **`ScriptProofs`** | | |
| `ExitTellsTheTruth` | `[]ExitIsTrue`, of the group and the output, whatever left both | `DispatcherInv`: no command before its worker forks it (`BeginsOnce`), the mark of the collectors means that nobody has the pipes or ever will (`MarkedEnd`), a worker about to deny continuation has reaped the group and has the mark, or has lost its directory (`SaysSo`) |
| `ReportsAreTrue` | `[]ProgressIsTrue` | `ScriptInv`, of it `ProgressInv`: reading changes nothing, the paths settled and the rest are apart (no path twice in a job), what the answer will say of the former is so, and a program that verifies its own write has made it |
| `OnlyTheWindowIsLeft` | `NoStaleOverwrite` | `ScriptInv`, of it `WindowInv`: what a program knows at each place of the path it has looked at, unless the foreign program came since: which inode it was (`LookedAt`), that the half or the whole it has read is the base's (`HalfKnown`, `WholeKnown`), that it is about to change just that (`AboutToChange`); and that a staged file has no name and no inode has two (`NamesApart`, `StagedApart`) |
| `NothingUnverifiedRuns` | `[]OnlyVerifiedRuns` | `StartupInv`: what is about to be renamed has passed its digest (`PassedDigest`), and a script about to execute saw the verified file (`SawWhole`); the lock plays no part, and indeed two scripts may think they have it |
| **`DurableJobProofs`** | | |
| `OutcomesAreTrue` | `[]OutcomeIsTrue` | `DurableInv`: what a runner that has waited for its command left behind (`Reaps`) |
| `RunnersKeepTheirJob` | `[]SupervisedIsKept` | the files, lock and record of a runner that lives (`Supervised`), with what follows |
| `TerminalStays` | `TerminalIsFinal` | what a helper may rely on at each of its places: a job it is about to call lost has no runner and will never have one, one it is about to delete has come to its end (`Condemned`, `Looks`), it has the lock of the job it settles (`Holds`), nobody else makes the job it makes (`Alone`, `Makes`) |
| `LogsStayTrue` | `[]LogsAreTrue` | `LogsInv`: what a file lacks of its stream is in the hands of its thread or the budget is used up (`Drained`); the files and the reservations add up to the budget taken, or to less after a full disk (`Budgeted`); the state file, and what the client was told of it, say what became of the job (`StatusTrue`); the pages go on at the client's offsets, and a file whose job the client knows to be over does not grow (`Paging`) |
| **`McpProofs`** | | |
| `AnswersAlwaysInOrder` | `[]AnswersInOrder` | `OrderInv`: requests are read in order (`InputInOrder`); the call in flight with an id, and the answer the loop has in hand, come after every answer with that id, and not both at once (`ActiveInOrder`, `MessageInOrder`); an ended task is joined once (`EndedOnce`) and, while calls are answered, is the one in flight with its id (`TasksAreActive`) |
| `NothingOfAForwardLeft` | `[]NoForwardLeft` | `ForwardInv`: at every place of a task what its call has opened or is closing (`CallHas`); a forward that lives is in the entries, taken by the shutdown, somebody waits for its end, or it was dropped, cancelled and its abort asked for, by one who did (`SomebodyCares`); the shutdown begins when all tasks are joined (`ShutdownIsLast`) |
| **`LocalDiskProofs`** | | |
| `StoreTypesHold` | `[]TypeOK` | `StoreIInv`, since `used` stays a natural number only because it is the sum of what is held |
| `QuotaAgrees` | `[]AccountsAgree` | `StoreInv`: who holds the accounting of an operation at each of its places (`HoldersKnown`); when a tombstone can name its files (`TombsLate`); that what a sink has seen, reserved and written are the same but for the chunk under way (`Previewed`); that a file is charged, has a slot and somebody who will unlink it (`Charged`). And `Orphans`: a tombstone that pins no accounting names an operation nobody holds, so that the last holder never leaves a file unpaid |
| `StoreLeaksNothing` | `[]NothingLeaks` | the same: nobody holds an operation that is over, so its files have a name in a tombstone |
| `ErrorsAreAllOrNothing` | `AllOrNothing`, with the exceptions of section 12 | `InstallInv`: the process inside has the lock and its release is there or was withdrawn (`InOrder`); its findings are about what stood there (`Found`); what later steps will touch is as it was (`Ahead`); and of every file nobody else edited, and of the MCP entry, its journal says at every place, of the way forward and of the way back, whether it is as it was, changed, put aside or put back, or a link that dangles (`FileKnown`, `EntryKnown`); and `Reached` for the errors after the last step |
| `SuccessAlwaysMeansDone` | `OkMeansDone` | the same: what each step that is over promises is so (`Reached`) |

`RunnerInvariant`, `DispatcherInvariant`, `StartupInvariant`, `ScriptInvariant`,
`DurableJobInvariant`, `LogsInvariant`, `ServerInvariant` (`OrderInv` and
`ForwardInv`), `StoreInvariant` and `InstallInvariant` state the invariants of their
modules as theorems; they include the kinds of the variables, but for a few of the
dispatcher's that no proof needs.

Five theorems about the cache have hypotheses, because the property is false without.
`GuardHolds` is about one call at a time: with two the run `EditCacheLostUpdate`
refutes it. `CacheMirrorsRemote` asks for that too, and that batches fail only in ways
that leave no doubt, that nobody else writes, no call is aborted and nothing is
discarded (`Calm`); the run `EditPath` checks an instance of it, and TLC finds a
counterexample as soon as one of its parts is dropped.
Aborts are excluded from the other three, `InFlightAlwaysOwned`, `BarrierHolds` and
`ShutdownIsSound` (section 15; the run `EditCacheBarrier` checks `BarrierSound` and
`ShutdownSound` with aborts, on operations that are safe from that).

How the proofs are laid out. For the cache and the session, one lemma classifies the
steps of an actor by what they do to the state an invariant speaks of (`StepKind`,
`CallMoves`, `PlanMoves`; `HostMove`, `HelperMove`), and each invariant is then
proved for the kinds instead of some forty actions. For the runner, the dispatcher,
start-up and the jobs there is one lemma for each conjunct of the invariant, with a
step for each action. Streams are sequences: lemmas say what a tail, a prefix and
an appended frame do to the frames of a request and to their number, the number
being the cardinality of the set of their positions.

For the output store, a step changes what one operation has and leaves the others
alone (`Others`), so that the quota follows from the share of that operation
(`QuotaFollows`, `StepKeeps`); what a `Drop` gives back is computed once
(`DropsBalance`) and used by every path that fails, is cancelled, expires or
finishes. For the installer, every step is one of a few effects on one place (`Replaced`,
`Torn`, `Late`, an outcome of `codex`), and the invariant says of a place only what the
steps on it need: there are lemmas for the way forward, for the way back and for what a
step does to the places it is not about, which is also what a process outside the lock
or a foreign edit does. `SumTheorems` has the facts about sums over finite sets that this and the bytes of the cache take:
that a sum does not depend on the order in which it is taken, and that it splits
over disjoint sets. They are proved without induction, from a smallest subset for
which they would be false.

Some invariants had to be found. That a job a helper has read long ago may be called
lost needs to say that nobody is about to spawn its runner (`Unmade`), which a
helper between the creation of its directory and the spawn would be. That a reader
who is the last to let a discarded entry go leaves no unpaid file needs to say that
the tombstone which names it holds the accounting (`Orphans`). That an EXIT is
complete needs to count the piece that the draining thread has in its hands. That
retirement is safe needs the number of leases and not whether there are any. That
nothing but edits is visible needs the cache to be on: with `MaxBytes = 0` every edit is
written at once, which `Undisturbed` therefore excludes.

Only model-checked, and why:

- `PlacedRightly` and `RequestsArriveWhole` are about what a function builds up from a
  sequence of any length, chunk by chunk and frame by frame: what a fold or a
  recursive function computes for every input needs induction over data. (The
  logs are sequences as well, but there the induction is over the steps: a file
  counts on from where it ends, and so does its concatenation with the next chunk.)
- `NoneForgotten` of the run `Shared` is an instance of `SessionSystem`; what is proved is
  `NobodyIsForgotten`, the property of `SessionSystem` itself, for all its instances.
- Liveness under fairness (`DirtySettles`, `CancelSettles`, `EveryCallReturns`,
  `HelperGoes`, `CancelReaches`, `ScriptsEnd`, `ChildCallEnds`, `EveryCallAnswered`,
  `ServeEnds`, `RetentionSettles`) and ENABLED are out of the prover's reach.

## 14. Not modelled

- *Search, metadata, images* (`search.rs`, `metadata.rs`, `view_image.rs`): one
  remote command each and the parsing of its output; their place behind the
  barrier is in `EditCache`, their path through the runner in `Runner`.
- *Rendering and tool schemas* (`render.rs`, `tools.rs`): formatting; the cut of a
  log page is in `JobLogs`.
- *Configuration and command line*: read once at start-up.
- *Utilities*: errors, paths, quoting, profiling, argument vectors.
- Of the modelled parts: output limits and the forwarding to a slow caller in the
  session; futures of a session call dropped in mid-way; the local side of the job tools
  (`job.rs`), which sends one request each;
  assembly of results and selection of shells in the runner; what sections 3 to 12
  name besides.

## 15. Known divergences

One has a run: `EditCacheLostUpdate`. Generations of clean entries are all 0, so an
edit that loaded a file before somebody else changed and re-read it is still
accepted, and its commit is guarded by the *new* base (the bridge's own `README.md:153`,
`operations.md:107-108`). Documents are named without their directories: `README.md` is the
bridge's own, `operations.md` is in `skills/remote-ssh-ops/references/`, the designs are
in `docs/superpowers/specs/`. The other divergences were met while modelling. The actions are in
the models; the runs leave out what leads to them, as the sections above say.

- *A flush dropped in the middle* (`edit_cache.rs:850`). When the loop of the server
  aborts its calls at end of input (`mcp/mod.rs:257`), the future of a `flush_once`
  may be dropped at `commit_batch().await`. Its paths keep their in-flight mark, and
  the flush of the shutdown skips them and returns without an error, although
  `write-back-edit-cache-design.md:235-237` says that no path is silently marked clean.
  (`EditCacheBarrier` with the operation `sync`: `ShutdownSound` is violated.)
- *A retry that nobody waits for* (`edit_cache.rs:677`). The timer that stopped at a
  conflict is not started again when `remote_sync_edits` clears the conflict and
  its flush then ends with an unknown outcome. (`EditCacheLiveness` with the fault `unknown`.)
- *A cancellation in a deletion* (`remote_job_runner.rs:256`). `cancel` creates its
  file without taking `runner.lock`; a deletion then leaves a directory without a
  state, and `collect_expired` fails for every later request
  (`remote-job-design.md:193` speaks of serialized deletion).
- *A job reported lost that runs* (`remote_job_runner.rs:308`). `reconcile_state` looks
  at the runner only. A command slow to read its input makes the starter give up;
  the runner dies writing READY; the command goes on (`remote-job-design.md:171-173`).
- *An escaped descendant with the pipes*. The worker of the helper waits for them
  without a bound (`remote_helper.rs:738`), a CANCEL finds no group, and the
  unconfirmed cancellation costs the session (`operations.md:114-116` promises a bounded
  drain). The dispatcher withholds the EXIT in the same way (`dispatcher.sh:525-530`).
- *Other requests after a cancellation without an exit*. `operations.md:110` says they
  remain usable; `abort_request` fails every request of the session
  (`session.rs:797-805`), as its own comment explains.
- *The end of the dispatcher* (`dispatcher.sh:697-698`). The main loop tests for the
  directory of a request and then writes a file in it; when the worker removes it in
  between, the failed redirection of a special built-in ends dash, and all requests with
  it (`docs/security.md:95`).
- *GNU dd* (`dispatcher.sh:600`). A DATA frame cut short by the end of input is taken
  as whole, and the request starts with a truncated command.
- *A process that left group and pipes* (`dispatcher.sh:535-543`). The EXIT of its request
  says that nothing continues while it runs, although `docs/security.md:97` speaks of detached
  children of which results expose that they may continue. (`Offspring` with
  `"daemon"`; `ExitIsTrue` is about the group and the output.)
- *A forward whose close was aborted* (`forward.rs:52-57`). When the server aborts a
  `close_forward` that waits (`mcp/mod.rs:257`), its entry is no longer in the map, the shutdown does
  not find it, and nobody awaits its serve task: `serve` may return `Ok` with a listener
  or relays there, although shutting down closes all TCP streams by `docs/security.md:71-72`. They
  end with the runtime at the latest. (`NoForwardLeft` excepts it.)
- *A release removed without the lock* (`install.rs:706-710`). A publisher that cannot
  resolve what it published removes it, although another installer of that release may have found
  it and be linking to it: that one reports success on a release that is gone, or fails later and
  leaves a Skill link that dangles. `docs/security.md:150` says that the lock serializes the
  transactions. (`pulled` in `Installed` and `IsBack`.)
- *An error that undoes nothing* (`install.rs:462`, `464`). When the cleanup or the
  pruning fails, the command reports an ordinary error although everything is installed; no result tells it
  from one that was rolled back. (`AllOrNothing` says which.)
- *The stable link after a rollback* (`install.rs:1083-1097`). The rollback that has
  registered MCP under the stable path again removes the stable link without looking
  whose it is (`docs/security.md`, the section on installation).
- *Lengths of job logs*. `remote-job-design.md:75-77` promises the retained and the observed length of
  each stream with a page; `job_logs` of `render.rs` does not show them.
- *A window of MCP tasks*: `docs/security.md:36-38` speaks of one; the server does not
  bound the calls it spawns.

## 16. Mutants

Operators named `X_Y` are the operator `X` with a plausible mistake `Y`. No
action uses them; each shows which property notices the mistake when it takes
the place of `X`.
