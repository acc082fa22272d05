--------------------------- MODULE SessionSystem ----------------------------
(***************************************************************************)
(* A host session: the local end (HostSession) and the remote helper       *)
(* (RemoteHelper) at the two ends of one SSH child (Wire).                 *)
(***************************************************************************)
EXTENDS HostSession, RemoteHelper, Functions

vars == <<hostVars, helperVars, wireVars>>

Init == WireInit /\ HostInit /\ HelperInit

\* The SSH child is killed, loses its helper, or fails with the network.
LinkFails ==
    /\ killed \/ main = "ended" \/ "link" \in Faults
    /\ LinkEnds
    /\ UNCHANGED <<hostVars, helperVars>>

Next ==
    \/ HostNext /\ UNCHANGED helperVars
    \/ HelperNext /\ UNCHANGED hostVars
    \/ LinkFails

Spec == Init /\ [][Next]_vars

\* A killed SSH child ends.
FairSpec ==
    /\ Spec
    /\ HostFairness
    /\ HelperFairness
    /\ WF_vars(LinkFails /\ killed)

----------------------------------------------------------------------------
\* Properties.

\* Every variable of both ends and of the streams has its kind.
TypeOK == WireTypeOK /\ HostTypeOK /\ HelperTypeOK

\* What `remote_process_may_continue = false' tells a caller is true: no process
\* of the request's group lives, and none will ever be started.
Over(r) ==
    /\ ~GroupAlive(r)
    /\ worker[r] # "ready"
    /\ ~(worker[r] = "none" /\ Runs /\ Frame("OPEN", r, FALSE) \in Range(queue \o up))

ContinuationIsTrue ==
    \A r \in Request: result[r] # None /\ ~result[r].may => Over(r)

\* All output of a command precedes its EXIT and none follows it ("the final
\* stream frames are guaranteed to precede completion"): a caller that gets a
\* result of a finished request has all of its output, and the reader of an open
\* session never meets a frame of a request that is over (the errors of
\* dispatch_frame, which fail every request of the session).
OutputComplete ==
    /\ \A r \in Request:
        r \in Command /\ result[r] # None /\ result[r].ok /\ ~result[r].may =>
            ~pipe[r] /\ received[r] = MaxOutput - unwritten[r]
    /\ ~closed /\ "reader" \in tasks /\ down # <<>> => Expected(Head(down))

\* A closed session leaves no call waiting for a result that nobody will send:
\* once the failures are through, every call past its look at `closed' has been
\* answered, the one that waited for room in the queue included.
NoneForgotten ==
    closed /\ failing = {} =>
        \A r \in Request:
            call[r] \in {"sending", "admission", "response", "delivering", "grace"} =>
                reply[r] # None

\* Every call returns, whatever the helper and the connection do: the deadlines
\* of admission, response and cancellation see to it.
EveryCallReturns ==
    \A r \in Request: call[r] = "entered" ~> call[r] = "done"

\* The helper of a connection that has ended goes away, and so do the commands
\* it waits for: end of input cancels them all, and the watchdog catches those
\* that the cancellation missed.
HelperGoes == ~link ~> ~Runs

=============================================================================
