-------------------------------- MODULE Forwards --------------------------------
(***************************************************************************)
(* Port forwards (remote/forward.rs): a call opens a listener that outlives *)
(* it, another call or the shutdown of the service closes it.  A forward is *)
(* named by the call that opens it.  The lease of the ssh session that its  *)
(* transport holds is in Runner.                                            *)
(***************************************************************************)
EXTENDS Naturals

CONSTANTS Request,  \* the calls
          Relays    \* bound: connections of one forward at one time

VARIABLES
  call,      \* where each call is: before its first step, waiting, or returned
  port,      \* the listener of a forward: its serve task from "serving" on
  relays,    \* the relays of its connections, each with a local ssh process
  entries,   \* ForwardManager.entries
  lifetime,  \* the forwards whose own token is cancelled
  dropped,   \* those whose Entry was dropped: the abort of the serve task is asked for
  closes,    \* the forward that a close call, or the shutdown (at 0), awaits
  taken,     \* the entries that shutdown has taken and not closed yet
  ending     \* shutdown has begun

forwardVars == <<call, port, relays, entries, lifetime, dropped, closes, taken, ending>>

Init ==
  /\ call = [r \in Request |-> "start"]
  /\ port = [r \in Request |-> "none"] /\ relays = [r \in Request |-> 0]
  /\ entries = {} /\ lifetime = {} /\ dropped = {}
  /\ closes = [r \in Request \cup {0} |-> 0] /\ taken = {} /\ ending = FALSE

Returned(r) == call' = [call EXCEPT ![r] = "returned"]

-----------------------------------------------------------------------------
(* forward_port *)

\* The listener is bound; then the transport is awaited.
Bind(r) ==
  /\ call[r] = "start"
  /\ call' = [call EXCEPT ![r] = "bound"]
  /\ port' = [port EXCEPT ![r] = "bound"]
  /\ UNCHANGED <<relays, entries, lifetime, dropped, closes, taken, ending>>

\* The transport is there and the call not cancelled: nothing is awaited between
\* the start of the serve task and its entry.
Open(r) ==
  /\ call[r] = "bound"
  /\ port' = [port EXCEPT ![r] = "serving"]
  /\ entries' = entries \cup {r}
  /\ Returned(r)
  /\ UNCHANGED <<relays, lifetime, dropped, closes, taken, ending>>

NotOpened(r) ==
  /\ call[r] \in {"start", "bound"}
  /\ port' = [port EXCEPT ![r] = "none"]
  /\ Returned(r)
  /\ UNCHANGED <<relays, entries, lifetime, dropped, closes, taken, ending>>

-----------------------------------------------------------------------------
(* serve and relay *)

Accept(f) ==
  /\ port[f] = "serving" /\ f \notin lifetime /\ relays[f] < Relays
  /\ relays' = [relays EXCEPT ![f] = @ + 1]
  /\ UNCHANGED <<call, port, entries, lifetime, dropped, closes, taken, ending>>

\* Cancelled, or the listener fails: every relay is cancelled with it.
StopsServing(f) ==
  /\ port[f] = "serving"
  /\ port' = [port EXCEPT ![f] = "draining"]
  /\ lifetime' = lifetime \cup {f}
  /\ UNCHANGED <<call, relays, entries, dropped, closes, taken, ending>>

\* The streams end, or the forward is cancelled, or the relay's task is dropped; the
\* ssh process is killed and waited for, in the last case by the runtime.
RelayEnds(f) ==
  /\ relays[f] > 0
  /\ relays' = [relays EXCEPT ![f] = @ - 1]
  /\ UNCHANGED <<call, port, entries, lifetime, dropped, closes, taken, ending>>

Drained(f) ==
  /\ port[f] = "draining" /\ relays[f] = 0
  /\ port' = [port EXCEPT ![f] = "stopped"]
  /\ UNCHANGED <<call, relays, entries, lifetime, dropped, closes, taken, ending>>

\* Entry::drop cancels the forward and asks for the abort of its serve task, which
\* nobody awaits any more.
Dropped(fs) == lifetime' = lifetime \cup fs /\ dropped' = dropped \cup fs

\* The task is dropped where it stands: the listener closes, and what relays there
\* are end on their own (RelayEnds).
AbortLands(f) ==
  /\ f \in dropped /\ port[f] \in {"serving", "draining"}
  /\ port' = [port EXCEPT ![f] = "stopped"]
  /\ UNCHANGED <<call, relays, entries, lifetime, dropped, closes, taken, ending>>

-----------------------------------------------------------------------------
(* close_forward *)

Close(r, f) ==
  /\ call[r] = "start" /\ f \in entries
  /\ entries' = entries \ {f} /\ lifetime' = lifetime \cup {f}
  /\ closes' = [closes EXCEPT ![r] = f]
  /\ call' = [call EXCEPT ![r] = "closing"]
  /\ UNCHANGED <<port, relays, dropped, taken, ending>>

NothingToClose(r) ==
  /\ call[r] = "start"
  /\ Returned(r)
  /\ UNCHANGED <<port, relays, entries, lifetime, dropped, closes, taken, ending>>

Closed(r) ==
  /\ call[r] = "closing" /\ port[closes[r]] = "stopped"
  /\ closes' = [closes EXCEPT ![r] = 0]
  /\ Returned(r)
  /\ UNCHANGED <<port, relays, entries, lifetime, dropped, taken, ending>>

\* The task of a call is aborted at the await it is in: what it owns is dropped.
Abort(r) ==
  /\ call' = [call EXCEPT ![r] = "returned"]
  /\ closes' = [closes EXCEPT ![r] = 0]
  /\ CASE call[r] = "bound" -> port' = [port EXCEPT ![r] = "none"] /\ UNCHANGED <<lifetime, dropped>>
       [] call[r] = "closing" -> Dropped({closes[r]}) /\ UNCHANGED port
       [] OTHER -> UNCHANGED <<port, lifetime, dropped>>
  /\ UNCHANGED <<relays, entries, taken, ending>>

-----------------------------------------------------------------------------
(* shutdown *)

Shutdown ==
  /\ ~ending /\ ending' = TRUE
  /\ taken' = entries /\ entries' = {}
  /\ UNCHANGED <<call, port, relays, lifetime, dropped, closes>>

\* One after the other: cancelled, then awaited.
ShutdownNext ==
  /\ closes[0] = 0
  /\ \E f \in taken :
       /\ closes' = [closes EXCEPT ![0] = f] /\ taken' = taken \ {f}
       /\ lifetime' = lifetime \cup {f}
  /\ UNCHANGED <<call, port, relays, entries, dropped, ending>>

ShutdownWaited ==
  /\ closes[0] # 0 /\ port[closes[0]] = "stopped"
  /\ closes' = [closes EXCEPT ![0] = 0]
  /\ UNCHANGED <<call, port, relays, entries, lifetime, dropped, taken, ending>>

ShutdownDone == ending /\ taken = {} /\ closes[0] = 0

\* The shutdown is dropped with the entries it has taken.
ShutdownDropped ==
  /\ Dropped(taken \cup ({closes[0]} \ {0}))
  /\ taken' = {} /\ closes' = [closes EXCEPT ![0] = 0]
  /\ UNCHANGED <<call, port, relays, entries, ending>>

Serve(f) == Accept(f) \/ StopsServing(f) \/ RelayEnds(f) \/ Drained(f) \/ AbortLands(f)

\* Nothing of a forward is left: neither its port nor a relay or its ssh process.
Gone(f) == port[f] \in {"none", "stopped"} /\ relays[f] = 0

=============================================================================
