--------------------------------- MODULE Runner ---------------------------------
(***************************************************************************)
(* The SSH runner of one host: ssh/process.rs with the capability cache    *)
(* (capability.rs) and the session pool.  A call takes the host's          *)
(* initializer lock, finds or makes the policy, the capability and a       *)
(* session, gives the lock back and runs its request under a lease.  Read  *)
(* calls that meet a missing tool invalidate the capability and try once   *)
(* more.  Hosts share nothing but the maps that hold their entries.        *)
(*                                                                         *)
(* Left out: what a command or its output is, the rendering of commands,   *)
(* limits on sizes that are checked before anything is done, and what a    *)
(* session does with a request (HostSession).                              *)
(***************************************************************************)
EXTENDS Integers, FiniteSets

CONSTANTS Call,
          Workload,  \* a set of functions from Call to Kind: what the calls ask for
          Sessions,  \* bound: sessions somebody refers to at one time
          Probes,    \* bound: 1 .. Probes are the probes started
          Faults     \* subset of Fault

Kind == {"run", "read", "mutation", "job", "search", "forward", "prepare"}

Fault == {"give up", "death", "child", "tool", "capture", "identity"}

None == 0

ASSUME RunnerAssumption ==
  /\ None \notin Call
  /\ Workload \subseteq [Call -> Kind]
  /\ Sessions \in Nat \ {0} /\ Probes \in Nat \ {0}
  /\ Faults \subseteq Fault

Session == 1 .. Sessions
Probe == 1 .. Probes

VARIABLES
  kind,     \* what each call asks for
  pc,       \* where it is
  result,   \* what it returns
  second,   \* the second attempt of a read
  used,     \* the probe it leads, follows, or has the capability of
  lease,    \* the session it has a lease of
  did,      \* the remote host has run its request, or found that it lacks the tool
  began,    \* `old' when the attempt began
  holder,   \* who holds the initializer lock of the host
  policy,   \* policies has an entry: "none", "known" (only identities has one), "cached"
  entry,    \* CacheState.entries: the cell, named by its probe
  flight,   \* CacheState.in_flight
  cell,     \* the capability in each cell: None, or whether the tool was there
  state,    \* of each probe: its leader is at work, has told the outcome, or was dropped
  old,      \* the probes up to this one were started before an invalidation
  session,  \* each session: nobody has it, open, closed, or retired
  mode,     \* its helper_mode
  pool,     \* SessionPool.hosts: the slots of the host
  leases,   \* SessionSlot.leases
  tool      \* the remote host has the tool that reads and mutations need

call == <<kind, pc, result, second, used, lease, did, began>>
cache == <<entry, flight, cell, state, old>>
slots == <<session, mode, pool, leases>>
vars == <<call, holder, policy, cache, slots, tool>>

\* An error stands for a cancellation and a timeout too.
Result == {"none", "ok", "shell only", "error", "missing", "unknown"}

TypeOK ==
  /\ kind \in Workload
  /\ pc \in [Call -> {"lock", "resolve", "cache", "probe", "told", "follow",
                      "tools", "session", "connect", "send", "remote", "capture", "forwarding",
                      "leave", "unslot", "mismatch", "done"}]
  /\ result \in [Call -> Result] /\ second \in [Call -> BOOLEAN]
  /\ used \in [Call -> Probe \cup {None}] /\ lease \in [Call -> Session \cup {None}]
  /\ did \in [Call -> {"no", "lacking", "done"}] /\ began \in [Call -> Probe \cup {None}]
  /\ holder \in Call \cup {None}
  /\ policy \in {"none", "known", "cached"}
  /\ entry \in Probe \cup {None} /\ flight \in Probe \cup {None}
  /\ cell \in [Probe -> {"empty", "with tool", "without tool"}]
  /\ state \in [Probe -> {"unused", "leading", "told", "abandoned"}]
  /\ old \in Probe \cup {None}
  /\ session \in [Session -> {"none", "open", "closed", "retired"}]
  /\ mode \in [Session -> {"persistent", "shell"}]
  /\ pool \subseteq Session /\ leases \in [Session -> Nat]
  /\ tool \in BOOLEAN

Init ==
  /\ kind \in Workload
  /\ pc = [c \in Call |-> "lock"] /\ result = [c \in Call |-> "none"]
  /\ second = [c \in Call |-> FALSE]
  /\ used = [c \in Call |-> None] /\ lease = [c \in Call |-> None]
  /\ did = [c \in Call |-> "no"] /\ began = [c \in Call |-> 0]
  /\ holder = None /\ policy = "none"
  /\ entry = None /\ flight = None
  /\ cell = [p \in Probe |-> "empty"] /\ state = [p \in Probe |-> "unused"]
  /\ old = None
  /\ session = [s \in Session |-> "none"] /\ mode = [s \in Session |-> "persistent"]
  /\ pool = {} /\ leases = [s \in Session |-> 0]
  /\ tool \in {TRUE} \cup {"tool" \notin Faults}

-----------------------------------------------------------------------------
(* How a call goes on, and how it ends *)

Goes(c, next) == pc' = [pc EXCEPT ![c] = next]

\* FixedOperationKind::after_spawn_error
after_spawn_error(c, r) == IF kind[c] = "mutation" THEN "unknown" ELSE r

\* The call returns r.  A lease is dropped on the way out, and the lock guard.
Returns(c, r) ==
  /\ result' = [result EXCEPT ![c] = r]
  /\ Goes(c, IF lease[c] # None THEN "leave" ELSE "done")
  /\ holder' = IF holder = c THEN None ELSE holder

Setup == {"resolve", "cache", "probe", "told", "follow"}

TakeLock(c) ==
  /\ pc[c] = "lock" /\ holder = None
  /\ holder' = c
  /\ began' = [began EXCEPT ![c] = old]
  /\ Goes(c, IF policy = "cached" THEN "cache" ELSE "resolve")
  /\ UNCHANGED <<kind, result, second, used, lease, did>>
  /\ UNCHANGED <<policy, cache, slots, tool>>

\* The wait for the lock ends by a cancellation or the setup deadline, and both
\* are looked at again before a session is made.
GivesUpSetup(c) ==
  /\ "give up" \in Faults /\ pc[c] \in {"lock", "session"}
  /\ Returns(c, "error")
  /\ UNCHANGED <<kind, second, used, lease, did, began>>
  /\ UNCHANGED <<policy, cache, slots, tool>>

\* timeout_at(setup_deadline, initialize_host): the future is dropped where it
\* is, and the probe it led is abandoned.
SetupExpires(c) ==
  /\ "give up" \in Faults /\ pc[c] \in Setup
  /\ Returns(c, "error")
  /\ state' = IF pc[c] \in {"probe", "told"}
              THEN [state EXCEPT ![used[c]] = "abandoned"] ELSE state
  /\ UNCHANGED <<kind, second, used, lease, did, began>>
  /\ UNCHANGED <<policy, entry, flight, cell, old, slots, tool>>

\* resolve_identity_once, and what initialize_host makes of the identity.
Resolved(c) ==
  /\ pc[c] = "resolve"
  /\ \/ policy' = "cached" /\ Goes(c, "cache") /\ UNCHANGED <<result, holder>>
     \* Another identity than the first, or no directory for its socket.
     \/ "identity" \in Faults /\ policy' = "known" /\ Returns(c, "error")
  /\ UNCHANGED <<kind, second, used, lease, did, began, cache, slots, tool>>

ResolveFails(c) ==
  /\ pc[c] = "resolve" /\ "child" \in Faults
  /\ Returns(c, "error")
  /\ UNCHANGED <<kind, second, used, lease, did, began, policy, cache, slots, tool>>

-----------------------------------------------------------------------------
(* The capability cache *)

NextProbe == 1 + Cardinality({p \in Probe : state[p] # "unused"})

\* get_or_probe looks under its lock.
get_or_probe(c) ==
  /\ pc[c] = "cache"
  /\ \/ /\ entry # None /\ cell[entry] # "empty"
        /\ used' = [used EXCEPT ![c] = entry] /\ Goes(c, "tools")
        /\ UNCHANGED <<entry, flight, state>>
     \/ /\ ~(entry # None /\ cell[entry] # "empty") /\ flight # None
        /\ used' = [used EXCEPT ![c] = flight] /\ Goes(c, "follow")
        /\ UNCHANGED <<entry, flight, state>>
     \/ /\ ~(entry # None /\ cell[entry] # "empty") /\ flight = None
        /\ NextProbe \in Probe
        /\ used' = [used EXCEPT ![c] = NextProbe] /\ Goes(c, "probe")
        /\ entry' = IF entry = None THEN NextProbe ELSE entry
        /\ flight' = NextProbe
        /\ state' = [state EXCEPT ![NextProbe] = "leading"]
  /\ UNCHANGED <<kind, result, second, lease, did, began>>
  /\ UNCHANGED <<holder, policy, cell, old, slots, tool>>

\* remove_generation, under the lock of the cache.
remove_generation(p, removeCell) ==
  /\ entry' = IF removeCell /\ entry = p THEN None ELSE entry
  /\ flight' = IF flight = p THEN None ELSE flight

\* probe_capability succeeds: the cell of the flight is set, then the flight goes.
Probed(c) ==
  /\ pc[c] = "probe"
  /\ cell' = [cell EXCEPT ![used[c]] = IF tool THEN "with tool" ELSE "without tool"]
  /\ remove_generation(used[c], FALSE)
  /\ Goes(c, "told")
  /\ UNCHANGED <<kind, result, second, used, lease, did, began>>
  /\ UNCHANGED <<holder, policy, state, old, slots, tool>>

ProbeFails(c) ==
  /\ pc[c] = "probe" /\ "child" \in Faults
  /\ remove_generation(used[c], TRUE)
  /\ state' = [state EXCEPT ![used[c]] = "told"]
  /\ Returns(c, "error")
  /\ UNCHANGED <<kind, second, used, lease, did, began, policy, cell, old>>
  /\ UNCHANGED <<slots, tool>>

\* sender.send_replace
Tell(c) ==
  /\ pc[c] = "told"
  /\ state' = [state EXCEPT ![used[c]] = "told"]
  /\ Goes(c, "tools")
  /\ UNCHANGED <<kind, result, second, used, lease, did, began>>
  /\ UNCHANGED <<holder, policy, entry, flight, cell, old, slots, tool>>

\* wait_for_probe: the sender is gone.  A leader at work holds the lock of the
\* host, so a call only ever follows one that was dropped.
wait_for_probe(c) ==
  /\ pc[c] = "follow"
  /\ state[used[c]] = "abandoned"
  /\ remove_generation(used[c], TRUE)
  /\ used' = [used EXCEPT ![c] = None] /\ Goes(c, "cache")
  /\ UNCHANGED <<kind, result, second, lease, did, began>>
  /\ UNCHANGED <<holder, policy, cell, state, old, slots, tool>>

\* The probe under way is dropped, the answered one is kept.
Invalidate_FlightOnly(c) ==
  /\ pc[c] = "mismatch"
  /\ flight' = None /\ old' = NextProbe - 1
  /\ IF kind[c] = "read" /\ ~second[c]
     THEN /\ second' = [second EXCEPT ![c] = TRUE] /\ Goes(c, "lock")
          /\ did' = [did EXCEPT ![c] = "no"] /\ UNCHANGED result
     ELSE /\ Goes(c, "done") /\ result' = [result EXCEPT ![c] = "missing"]
          /\ UNCHANGED <<second, did>>
  /\ UNCHANGED <<kind, used, lease, began, holder, policy, entry, cell, state, slots, tool>>

\* CapabilityCache::invalidate, by a call that found the tool missing.
Invalidate(c) ==
  /\ pc[c] = "mismatch"
  /\ entry' = None /\ flight' = None /\ old' = NextProbe - 1
  /\ IF kind[c] = "read" /\ ~second[c]
     THEN /\ second' = [second EXCEPT ![c] = TRUE] /\ Goes(c, "lock")
          /\ did' = [did EXCEPT ![c] = "no"] /\ UNCHANGED result
     ELSE /\ Goes(c, "done") /\ result' = [result EXCEPT ![c] = "missing"]
          /\ UNCHANGED <<second, did>>
  /\ UNCHANGED <<kind, used, lease, began, holder, policy, cell, state, slots, tool>>

\* required_capabilities of a fixed operation; prepare_host ends here.
CheckTools(c) ==
  /\ pc[c] = "tools"
  /\ IF kind[c] = "prepare" THEN Returns(c, "ok")
     ELSE IF kind[c] \in {"read", "mutation"} /\ cell[used[c]] = "without tool"
     THEN Returns(c, "missing")
     ELSE Goes(c, "session") /\ UNCHANGED <<result, holder>>
  /\ UNCHANGED <<kind, second, used, lease, did, began, policy, cache, slots, tool>>

-----------------------------------------------------------------------------
(* The session pool *)

is_reusable(s) == session[s] = "open"
Reusable == {s \in pool : is_reusable(s)}

\* A session that no slot and no lease refers to ends: its writer goes, and ssh
\* with it.
Dropped(states, p, held) ==
  session' = [s \in Session |->
                IF s \notin p /\ \A c \in Call : held[c] # s THEN "none" ELSE states[s]]

\* What a call does with the lock of the host once it has its session.
Leased(c, s) ==
  /\ lease' = [lease EXCEPT ![c] = s]
  /\ used' = [used EXCEPT ![c] = None]
  /\ Goes(c, IF kind[c] = "forward" THEN "forwarding" ELSE "send")
  /\ holder' = None

\* session_for_host, lease_reusable
lease_reusable(c) ==
  /\ pc[c] = "session"
  /\ pool' = Reusable
  /\ IF Reusable = {}
     THEN Goes(c, "connect") /\ UNCHANGED <<lease, leases, used, holder>>
     ELSE LET s == CHOOSE s \in Reusable : TRUE
          IN  Leased(c, s) /\ leases' = [leases EXCEPT ![s] = @ + 1]
  /\ Dropped(session, pool', lease')
  /\ UNCHANGED <<kind, result, second, did, began, policy, cache, mode, tool>>

Free == {s \in Session : session[s] = "none"}
Modes == IF \E c \in Call : kind[c] \in {"job", "search"}
         THEN {"persistent", "shell"} ELSE {"persistent"}

\* connect_with_capability returned a session; insert_leased.
Connected(c) ==
  /\ pc[c] = "connect" /\ Free # {}
  /\ LET new == CHOOSE s \in Free : \A t \in Free : s <= t IN
     /\ \E m \in Modes : mode' = [mode EXCEPT ![new] = m]
     /\ IF Reusable # {}
        THEN LET s == CHOOSE s \in Reusable : TRUE IN
             /\ Leased(c, s)
             /\ leases' = [leases EXCEPT ![s] = @ + 1] /\ pool' = Reusable
             /\ Dropped([session EXCEPT ![new] = "retired"], pool', lease')
        ELSE /\ Leased(c, new)
             /\ leases' = [leases EXCEPT ![new] = 1] /\ pool' = {new}
             /\ Dropped([session EXCEPT ![new] = "open"], pool', lease')
  /\ UNCHANGED <<kind, result, second, did, began, policy, cache, tool>>

ConnectFails(c) ==
  /\ pc[c] = "connect" /\ Faults \cap {"give up", "child"} # {}
  /\ Returns(c, "error")
  /\ UNCHANGED <<kind, second, used, lease, did, began, policy, cache, slots, tool>>

\* The transport of a session fails.
SessionDies(s) ==
  /\ "death" \in Faults /\ session[s] = "open"
  /\ session' = [session EXCEPT ![s] = "closed"]
  /\ UNCHANGED <<call, holder, policy, cache, mode, pool, leases, tool>>

\* SessionLease::drop: the count, without the lock ...
Release(c) ==
  /\ pc[c] = "leave"
  /\ leases' = [leases EXCEPT ![lease[c]] = @ - 1]
  /\ IF leases[lease[c]] > 1
     THEN /\ Goes(c, IF result[c] = "none" THEN "mismatch" ELSE "done")
          /\ lease' = [lease EXCEPT ![c] = None]
     ELSE Goes(c, "unslot") /\ UNCHANGED lease
  /\ UNCHANGED <<kind, result, second, used, did, began>>
  /\ UNCHANGED <<holder, policy, cache, session, mode, pool, tool>>

\* ... then the slots, with it, as they are now.
Unslot(c) ==
  LET s == lease[c]
      retain == is_reusable(s) /\ ~\E o \in pool \ {s} : is_reusable(o) /\ leases[o] = 0
  IN  /\ pc[c] = "unslot"
      /\ lease' = [lease EXCEPT ![c] = None]
      /\ pool' = {o \in pool : is_reusable(o) /\ (retain \/ o # s)}
      /\ Dropped(IF ~retain /\ is_reusable(s) THEN [session EXCEPT ![s] = "retired"] ELSE session,
                 pool', lease')
      /\ Goes(c, IF result[c] = "none" THEN "mismatch" ELSE "done")
      /\ UNCHANGED <<kind, result, second, used, did, began>>
      /\ UNCHANGED <<holder, policy, cache, mode, leases, tool>>

\* Any session a call failed on leaves the pool.
Fails_Drops(c, r) ==
  /\ result' = [result EXCEPT ![c] = r] /\ Goes(c, "leave")
  /\ pool' = pool \ {lease[c]}

\* The call fails; SshRunner::drop_session takes a session that cannot be
\* used again out of the pool.
Fails(c, r) ==
  /\ result' = [result EXCEPT ![c] = r] /\ Goes(c, "leave")
  /\ pool' = IF is_reusable(lease[c]) THEN pool ELSE pool \ {lease[c]}

-----------------------------------------------------------------------------
(* The request *)

UnchangedButEnd == UNCHANGED <<kind, second, used, lease, began, holder, policy, cache,
                               session, mode, leases, tool>>

\* A job needs the persistent helper, a search any helper.
Unfit(c) ==
  \/ kind[c] = "job" /\ mode[lease[c]] # "persistent"
  \/ kind[c] = "search" /\ mode[lease[c]] = "shell"

RefuseUnfit(c) ==
  /\ pc[c] = "send" /\ Unfit(c)
  /\ result' = [result EXCEPT ![c] = IF kind[c] = "job" THEN "missing" ELSE "shell only"]
  /\ Goes(c, "leave")
  /\ UNCHANGED <<did, pool>> /\ UnchangedButEnd

\* HostSession::execute lets the request out, or fails before.
Send(c) ==
  /\ pc[c] = "send" /\ ~Unfit(c)
  /\ \/ Goes(c, "remote") /\ UNCHANGED <<result, pool>>
     \/ /\ session[lease[c]] # "open" \/ "give up" \in Faults
        /\ Fails(c, after_spawn_error(c, "error"))
  /\ UNCHANGED did /\ UnchangedButEnd

Fixed == {"read", "mutation"}
Captures == Fixed \cup {"run"}

\* The remote host runs it; it may still do when the call has given up.
RemoteRuns(c) ==
  /\ pc[c] = "remote" /\ did[c] = "no"
  /\ did' = [did EXCEPT ![c] = IF tool \/ kind[c] \notin Fixed THEN "done" ELSE "lacking"]
  /\ UNCHANGED <<kind, pc, result, second, used, lease, began>>
  /\ UNCHANGED <<holder, policy, cache, slots, tool>>

\* The remote result arrives.
Answered(c) ==
  /\ pc[c] = "remote" /\ did[c] # "no" /\ session[lease[c]] = "open"
  /\ Goes(c, IF kind[c] \in Captures THEN "capture" ELSE "leave")
  /\ result' = [result EXCEPT ![c] = IF kind[c] \in Captures THEN "none" ELSE "ok"]
  /\ UNCHANGED <<did, pool>> /\ UnchangedButEnd

\* Timed out, cut off, or a status other than zero.
AnswersBadly(c) ==
  /\ pc[c] = "remote" /\ did[c] # "no" /\ session[lease[c]] = "open" /\ "child" \in Faults
  /\ result' = [result EXCEPT ![c] = after_spawn_error(c, "error")] /\ Goes(c, "leave")
  /\ UNCHANGED <<did, pool>> /\ UnchangedButEnd

\* Cancelled, no answer in time, or the session is gone.
NoAnswer(c) ==
  /\ pc[c] = "remote"
  /\ session[lease[c]] # "open" \/ "give up" \in Faults
  /\ IF kind[c] = "search"
     THEN result' = [result EXCEPT ![c] = "error"] /\ Goes(c, "leave") /\ UNCHANGED pool
     ELSE Fails(c, after_spawn_error(c, "error"))
  /\ UNCHANGED did /\ UnchangedButEnd

\* execute_with_capture and capture_session_internal: what has been answered
\* is captured, which may fail or be cancelled.
Captured(c) ==
  /\ pc[c] = "capture"
  /\ result' = [result EXCEPT ![c] = IF did[c] = "done" THEN "ok" ELSE "none"]
  /\ Goes(c, "leave")
  /\ UNCHANGED <<did, pool>> /\ UnchangedButEnd

\* The error of the capture is handed on as it is.
CaptureFails_Plain(c) ==
  /\ "capture" \in Faults /\ pc[c] = "capture"
  /\ result' = [result EXCEPT ![c] = "error"] /\ Goes(c, "leave")
  /\ UNCHANGED <<did, pool>> /\ UnchangedButEnd

CaptureFails(c) ==
  /\ "capture" \in Faults
  /\ \/ /\ pc[c] = "capture" /\ kind[c] # "run"
        /\ result' = [result EXCEPT ![c] = after_spawn_error(c, "error")] /\ Goes(c, "leave")
        /\ UNCHANGED pool
     \/ /\ kind[c] = "run" /\ pc[c] \in {"remote", "capture"}
        /\ Fails(c, "error")
  /\ UNCHANGED did /\ UnchangedButEnd

\* A port forward keeps its lease until it is closed.
CloseForward(c) ==
  /\ pc[c] = "forwarding"
  /\ result' = [result EXCEPT ![c] = "ok"] /\ Goes(c, "leave")
  /\ UNCHANGED <<did, pool>> /\ UnchangedButEnd

\* The tool disappears from the remote host.
ToolGoes ==
  /\ "tool" \in Faults /\ tool
  /\ tool' = FALSE
  /\ UNCHANGED <<call, holder, policy, cache, slots>>

-----------------------------------------------------------------------------
Step(c) ==
  \/ TakeLock(c) \/ GivesUpSetup(c) \/ SetupExpires(c) \/ Resolved(c) \/ ResolveFails(c)
  \/ get_or_probe(c) \/ Probed(c) \/ ProbeFails(c) \/ Tell(c) \/ wait_for_probe(c)
  \/ Invalidate(c) \/ CheckTools(c)
  \/ lease_reusable(c) \/ Connected(c) \/ ConnectFails(c) \/ Release(c) \/ Unslot(c)
  \/ RefuseUnfit(c) \/ Send(c) \/ RemoteRuns(c) \/ Answered(c) \/ AnswersBadly(c)
  \/ NoAnswer(c) \/ Captured(c) \/ CaptureFails(c) \/ CloseForward(c)

Next == (\E c \in Call : Step(c)) \/ (\E s \in Session : SessionDies(s)) \/ ToolGoes

Spec == Init /\ [][Next]_vars

-----------------------------------------------------------------------------
(* Properties *)

\* A host has one open session, however many calls start at once; a session
\* that is open is in the pool, so that the next call finds it, and the pool
\* never takes one away from a call that holds it.
OneSession ==
  /\ Cardinality({s \in Session : session[s] = "open"}) <= 1
  /\ \A s \in Session : session[s] # "retired" /\ (session[s] = "open" => s \in pool)

\* An attempt that began after an invalidation had returned uses no capability
\* of a probe from before it, also when such a probe ends late.
CapabilityFresh ==
  \A c \in Call :
    pc[c] \in {"tools", "session", "connect"} => used[c] > began[c]

\* What a mutation reports is true of the remote host: only an unknown outcome
\* leaves open whether it ran, a success says that it did, any other error that
\* it did not.
MutationHonest ==
  \A c \in Call :
    kind[c] = "mutation" /\ pc[c] = "done" =>
      /\ result[c] = "ok" => did[c] = "done"
      /\ result[c] \in {"error", "missing"} => did[c] # "done"

=============================================================================
