------------------------------- MODULE MCStartup --------------------------------
(* The installation of the helper, or one local ssh process: the two have no
   state in common, so that a behaviour is of one of them. *)
EXTENDS HelperInstall

VARIABLES part, purpose, at, process, pipes, status, capture, stdin, stop, outcome

LC == INSTANCE LocalChild

childVars == <<purpose, at, process, pipes, status, capture, stdin, stop, outcome>>
all == <<vars, childVars, part>>

MCInit ==
  /\ Init /\ LC!Init
  /\ part \in {"install", "child"}
  /\ part = "install" => purpose = "probe" /\ ~pipes
  /\ part = "child" => helper = "absent" /\ lock = NoLock

\* A step of the part that the behaviour is of.
Installs(step) == part = "install" /\ step /\ UNCHANGED <<childVars, part>>
RunsChild(step) == part = "child" /\ step /\ UNCHANGED <<vars, part>>

MCNext == Installs(Next) \/ RunsChild(LC!Next)

MCSpec == MCInit /\ [][MCNext]_all

\* The fairness of the two modules.
MCFairSpec ==
  /\ MCSpec
  /\ \A c \in Conn :
       /\ WF_all(Installs(Command(c)))
       /\ WF_all(Installs(GiveUp(c)))
       /\ WF_all(Installs(AttemptFails(c) \/ ReadStatus(c)))
  /\ WF_all(RunsChild(LC!Deadline)) /\ WF_all(RunsChild(LC!Start))
  /\ WF_all(RunsChild(LC!Terminate \/ LC!KillGroup \/ LC!FinishWait \/ LC!Finish))

ChildCallEnds == LC!ChildCallEnds
================================================================================
