------------------------------- MODULE JobLogs --------------------------------
(***************************************************************************)
(* The logs of a durable job: the two threads of its runner that drain the *)
(* command's output into two files under one budget                        *)
(* (src/remote_job_runner.rs), and a client that pages through the files   *)
(* with remote_job_logs while they grow (src/mcp/render.rs).  A byte is    *)
(* its position in the stream.                                             *)
(*                                                                         *)
(* Left out: the encoding of a page, which may make a cut one shorter by a *)
(* part of a character; a log request that fails leaves no trace.          *)
(***************************************************************************)
EXTENDS Naturals, Sequences

CONSTANTS
    Output,   \* bound: bytes the command writes to a stream
    Maximum,  \* max_output_bytes of the job
    Buffer,   \* what a thread reads at once, at most
    Pages,    \* values of max_bytes in a request, none of them 0
    Parts     \* powers of 2: a page is cut to its half, its quarter, and so on

ASSUME JobLogsAssumption ==
    /\ Output \in Nat /\ Maximum \in Nat /\ Buffer \in Nat \ {0}
    /\ Pages \subseteq Nat \ {0} /\ Parts \subseteq Nat \ {0}

VARIABLES
    running,     \* the command runs
    written,     \* bytes it has written to each stream
    supervisor,  \* the runner: "alive", "recorded" its end, or "dead" without a record
    quota,       \* the bytes of the budget that are taken
    thread,      \* each draining thread: [pc, count, used, kept]
    observed,    \* DrainStats.observed
    retained,    \* DrainStats.retained
    log,         \* the log files
    status,      \* [state, truncated] of the state file
    client,      \* where it is: "idle", its request "at stdout" or "at stderr", "complete"
    told,        \* what its request was told of the state
    budget,      \* what the pages of the request may still hold
    page,        \* the page of stdout
    offset,      \* the client's offsets
    got          \* what it has received

draining == <<running, written, supervisor, quota, thread, observed, retained, log>>
asking == <<client, told, budget, page, offset, got>>
logVars == <<draining, status, asking>>

Streams == {"stdout", "stderr"}
Each(x) == [s \in Streams |-> x]
Less(m, n) == IF m < n THEN m ELSE n

NoPage == [bytes |-> <<>>, eof |-> FALSE]

ToRead == [pc |-> "read", count |-> 0, used |-> 0, kept |-> 0]

LogsInit ==
    /\ running = TRUE /\ written = Each(0)
    /\ supervisor = "alive" /\ quota = 0 /\ thread = Each(ToRead)
    /\ observed = Each(0) /\ retained = Each(0) /\ log = Each(<<>>)
    /\ status = [state |-> "running", truncated |-> Each(FALSE)]
    /\ client = "idle" /\ told = status /\ budget = 0
    /\ page = NoPage /\ offset = Each(0) /\ got = Each(<<>>)

-----------------------------------------------------------------------------
(* The runner.                                                             *)

CommandWrites(s) ==
    /\ running /\ supervisor = "alive" /\ thread[s].pc # "failed"
    /\ written[s] < Output
    /\ written' = [written EXCEPT ![s] = @ + 1]
    /\ UNCHANGED <<running, supervisor, quota, thread, observed, retained, log, status, asking>>

\* Nobody has the other end of the pipes any more.
CommandStops ==
    /\ running /\ running' = FALSE
    /\ UNCHANGED <<written, supervisor, quota, thread, observed, retained, log, status, asking>>

\* A thread reads what is there and looks at the budget; or it meets the end of
\* the stream and makes its file durable, which may fail.
Drains(s) ==
    /\ supervisor = "alive" /\ thread[s].pc = "read"
    /\ \/ \E n \in 1 .. Less(written[s] - observed[s], Buffer) :
             /\ observed' = [observed EXCEPT ![s] = @ + n]
             /\ thread' = [thread EXCEPT ![s] =
                    [pc |-> "reserve", count |-> n, used |-> quota, kept |-> 0]]
       \/ /\ ~running /\ written[s] = observed[s]
          /\ \E end \in {"done", "failed"} :
                thread' = [thread EXCEPT ![s] = [ToRead EXCEPT !.pc = end]]
          /\ UNCHANGED observed
    /\ UNCHANGED <<running, written, supervisor, quota, retained, log, status, asking>>

\* What of its chunk a thread may keep, as it saw the budget.
MayKeep(t) == Less(t.count, IF t.used < Maximum THEN Maximum - t.used ELSE 0)

\* One round of reserve_quota: the exchange succeeds if nobody else changed
\* the budget since it was looked at.  Without the exchange, two threads can
\* take the same bytes.
Reserves_Unchecked(s) ==
    LET t == thread[s]
        kept == MayKeep(t)
    IN  /\ supervisor = "alive" /\ t.pc = "reserve"
        /\ quota' = t.used + kept
        /\ thread' = [thread EXCEPT ![s] =
               IF kept = 0 THEN ToRead ELSE [t EXCEPT !.pc = "write", !.kept = kept]]
        /\ UNCHANGED <<running, written, supervisor, observed, retained, log, status, asking>>

Reserves(s) ==
    LET t == thread[s]
        kept == MayKeep(t)
    IN  /\ supervisor = "alive" /\ t.pc = "reserve"
        /\ \/ /\ quota = t.used /\ quota' = t.used + kept
              /\ thread' = [thread EXCEPT ![s] =
                     IF kept = 0 THEN ToRead ELSE [t EXCEPT !.pc = "write", !.kept = kept]]
           \/ /\ quota # t.used /\ thread' = [thread EXCEPT ![s].used = quota]
              /\ UNCHANGED quota
        /\ UNCHANGED <<running, written, supervisor, observed, retained, log, status, asking>>

\* The first bytes of what was read, which is at the end of what was observed.
Chunk(s, n) ==
    LET before == observed[s] - thread[s].count IN [i \in 1 .. n |-> before + i]

\* What was reserved is written, or a part of it before the disk is full.
Writes(s) ==
    LET t == thread[s]
    IN  /\ supervisor = "alive" /\ t.pc = "write"
        /\ \/ /\ log' = [log EXCEPT ![s] = @ \o Chunk(s, t.kept)]
              /\ retained' = [retained EXCEPT ![s] = @ + t.kept]
              /\ thread' = [thread EXCEPT ![s] = ToRead]
           \/ \E n \in 0 .. t.kept - 1 :
                 /\ log' = [log EXCEPT ![s] = @ \o Chunk(s, n)]
                 /\ thread' = [thread EXCEPT ![s] = [ToRead EXCEPT !.pc = "failed"]]
                 /\ UNCHANGED retained
        /\ UNCHANGED <<running, written, supervisor, quota, observed, status, asking>>

\* When the command has ended the threads are joined, stdout first; run_job
\* leaves without a record when one has failed.
RunnerEnds ==
    /\ supervisor = "alive" /\ ~running
    /\ \/ /\ \/ thread["stdout"].pc = "failed"
             \/ (thread["stdout"].pc = "done" /\ thread["stderr"].pc = "failed")
          /\ supervisor' = "dead" /\ UNCHANGED status
       \/ /\ \A s \in Streams : thread[s].pc = "done"
          /\ supervisor' = "recorded"
          /\ status' = [state |-> "ended",
                        truncated |-> [s \in Streams |-> retained[s] < observed[s]]]
    /\ UNCHANGED <<running, written, quota, thread, observed, retained, log, asking>>

RunnerDies ==
    /\ supervisor = "alive" /\ supervisor' = "dead"
    /\ UNCHANGED <<running, written, quota, thread, observed, retained, log, status, asking>>

-----------------------------------------------------------------------------
(* The client.                                                             *)

\* A request reads the state first, which records the loss of a dead runner.
Asks(most) ==
    /\ client = "idle" /\ client' = "at stdout" /\ budget' = most
    /\ status' = IF supervisor = "dead" THEN [status EXCEPT !.state = "lost"] ELSE status
    /\ told' = status'
    /\ UNCHANGED <<draining, page, offset, got>>

\* read_log_page_at: as much of the file as there is and fits.
PageOf(s) ==
    LET end == offset[s] + Less(budget, Len(log[s]) - offset[s])
    IN  [bytes |-> SubSeq(log[s], offset[s] + 1, end), eof |-> end = Len(log[s])]

\* The pages are read one after the other; stderr has what stdout leaves.
ReadsStdout ==
    /\ client = "at stdout" /\ client' = "at stderr"
    /\ page' = PageOf("stdout")
    /\ budget' = budget - Len(page'.bytes)
    /\ UNCHANGED <<draining, status, told, offset, got>>

\* job_logs of render.rs halves both pages until the result is small enough.
Cut(bytes, n) == SubSeq(bytes, 1, Len(bytes) \div n)

\* What the client is shown of the pages, and where it goes on; it stops at the
\* end of both files of a job that is over.
Shown(pages, n) ==
    LET shown == [s \in Streams |-> Cut(pages[s].bytes, n)]
        ends == \A s \in Streams : pages[s].eof /\ shown[s] = pages[s].bytes
    IN  /\ got' = [s \in Streams |-> got[s] \o shown[s]]
        /\ offset' = [s \in Streams |-> offset[s] + Len(shown[s])]
        /\ client' = IF ends /\ told.state # "running" THEN "complete" ELSE "idle"

ReadsStderr ==
    /\ client = "at stderr"
    /\ \E n \in Parts :
          Shown([s \in Streams |-> IF s = "stdout" THEN page ELSE PageOf(s)], n)
    /\ page' = NoPage /\ budget' = 0
    /\ UNCHANGED <<draining, status, told>>

-----------------------------------------------------------------------------
LogsNext ==
    \/ \E s \in Streams : CommandWrites(s) \/ Drains(s) \/ Reserves(s) \/ Writes(s)
    \/ CommandStops \/ RunnerEnds \/ RunnerDies
    \/ \E most \in Pages : Asks(most)
    \/ ReadsStdout \/ ReadsStderr

LogsSpec == LogsInit /\ [][LogsNext]_logVars

-----------------------------------------------------------------------------
(* Properties.                                                             *)

\* The logs together stay in the job's budget, and each is a beginning of its
\* stream.  A client that has read to the end of a job that is over has all of
\* both files, which do not grow any more; and unless the job was lost it is
\* told rightly whether that is all the command wrote, and something is missing
\* only because the budget was used up.
\* (drain_stream, reserve_quota, JobStore::logs, render.rs job_logs)
LogsAreTrue ==
    /\ Len(log["stdout"]) + Len(log["stderr"]) <= Maximum
    /\ \A s \in Streams : \A i \in 1 .. Len(log[s]) : log[s][i] = i
    /\ client = "complete" =>
        /\ got = log /\ supervisor # "alive"
        /\ told.state = "ended" =>
            /\ \A s \in Streams : told.truncated[s] <=> Len(got[s]) < written[s]
            /\ (\E s \in Streams : told.truncated[s]) =>
                   Len(got["stdout"]) + Len(got["stderr"]) = Maximum

=============================================================================
