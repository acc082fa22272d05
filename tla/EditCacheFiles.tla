---------------------------- MODULE EditCacheFiles ----------------------------
(***************************************************************************)
(* EditCache implements EditedFiles: a client sees the buffered text of a  *)
(* dirty path, and the remote file of every other one.                     *)
(***************************************************************************)
EXTENDS EditCache

Dirty == {p \in Cached : entry[p].dirty}

Text == [p \in Path |-> IF p \in Dirty THEN entry[p].desired ELSE remote[p]]

\* Nobody but the flusher changes a remote file: no foreign writer, command or
\* lost reply, no discard that leaves a batch in flight, and everything fits in
\* the cache, which a limit of 0 turns off, so that no edit is immediate.
Undisturbed ==
  /\ MaxBytes > 0
  /\ Faults \cap {"foreign", "unknown"} = {} /\ Ops \cap {"run", "discard"} = {}
  /\ \A all \in [Path -> Content] : SumFunction([p \in Path |-> Size[all[p]]]) =< MaxBytes

Files == INSTANCE EditedFiles
  WITH text <- Text, buffered <- Dirty, Others <- ~Undisturbed,
       GivesUp <- "discard" \in Ops

(* Flushes, retries, evictions, invalidations and failures are invisible:  *)
(* the only steps that change a file for its clients are an edit of all of *)
(* its batch at once, an immediate write and a discard; and whoever writes *)
(* on the remote side, the buffered text of a path stays what it is        *)
(* (mutate_prepared_batch, flush_once, make_capacity,                      *)
(* invalidate_clean_host).                                                 *)
WriteBackInvisible == Files!Spec
===============================================================================
