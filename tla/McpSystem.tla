-------------------------------- MODULE McpSystem --------------------------------
(***************************************************************************)
(* The MCP server with the port forwards as its service: what the task of a *)
(* call does is forward_port, close_forward, or some other tool that keeps  *)
(* nothing; ToolService::shutdown closes the forwards that are left.        *)
(***************************************************************************)
EXTENDS McpServer

CONSTANTS Relays,
          Kinds  \* a set of functions from Request to {"forward", "close"}

VARIABLES kind,  \* what each call asks for
          call, port, relays, entries, lifetime, dropped, closes, taken, ending

F == INSTANCE Forwards

forwardVars == <<call, port, relays, entries, lifetime, dropped, closes, taken, ending>>
all == <<vars, kind, forwardVars>>

SysInit == Init /\ F!Init /\ kind \in Kinds

Alone(step) == step /\ UNCHANGED <<kind, forwardVars>>
InForward(step) == step /\ UNCHANGED <<vars, kind>>

-----------------------------------------------------------------------------
(* The body of a call: steps that await, and the one that returns *)

Works(r) ==
  /\ task[r] \in {"running", "aborting"}
  /\ InForward(\/ kind[r] = "forward" /\ F!Bind(r)
               \/ kind[r] = "close" /\ \E f \in Request : F!Close(r, f))

CallReturns(r) ==
  /\ TaskEnds(r) /\ UNCHANGED kind
  /\ \/ kind[r] = "forward" /\ (F!Open(r) \/ F!NotOpened(r))
     \/ kind[r] = "close" /\ (F!Closed(r) \/ F!NothingToClose(r))

CallAborted(r) == TaskAborted(r) /\ F!Abort(r) /\ UNCHANGED kind

-----------------------------------------------------------------------------
(* The shutdown of the service *)

ServiceShuts ==
  /\ pc = "service"
  /\ InForward(F!Shutdown \/ F!ShutdownNext \/ F!ShutdownWaited)

\* The cache has been flushed after that (EditCache).
ServiceShut == pc = "service" /\ F!ShutdownDone /\ Alone(ServiceReturns)

ServiceDropped == ServiceExpires /\ F!ShutdownDropped /\ UNCHANGED kind

SysNext ==
  \/ Alone(Client \/ Owner \/ Expires \/ Writer \/ WriterFails)
  \/ \E r \in Request : Works(r) \/ CallReturns(r) \/ CallAborted(r) \/ InForward(F!Serve(r))
  \/ ServiceShuts \/ ServiceShut \/ ServiceDropped

SysSpec == SysInit /\ [][SysNext]_all

\* The loop and the writer are scheduled, the client reads what it asked for, and
\* the timers run; no tool, relay or service need ever return.
SysFairSpec ==
  /\ SysSpec
  /\ WF_all(Alone(Owner)) /\ WF_all(Alone(Writer)) /\ WF_all(Alone(Expires))
  /\ WF_all(ServiceDropped)

-----------------------------------------------------------------------------
(* Properties *)

\* When serve returns without an error no call is at work that could still open a
\* forward, and nothing is left of any forward but of one whose close_forward was
\* aborted while it waited: of that one, which accepts no more, the abort was asked
\* for, and nobody waits until its listener and its relays are gone.
\* (mcp/mod.rs:238-286, forward.rs:52-73)
NoForwardLeft ==
  result = "ok" => \A r \in Request :
    /\ task[r] \in {"none", "joined"}
    /\ F!Gone(r) \/ r \in dropped \cap lifetime

=============================================================================
