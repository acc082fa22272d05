-------------------------------- MODULE Wire --------------------------------
(***************************************************************************)
(* What the two ends of an SSH session share: the requests, the frames of  *)
(* ssh/frame.rs and remote_helper_protocol.rs, the two byte streams of the *)
(* SSH child, and the child itself.  Frames are whole: the encoding, and   *)
(* the DATA frames that follow an OPEN, are left out.                      *)
(***************************************************************************)
EXTENDS Integers, Sequences

CONSTANTS
    Request,     \* request identifiers; each call of `execute' gets a fresh one
    Command,     \* those that run a command; the others are searches and jobs
    QueueCap,    \* capacity of the channel to the writer task
    PipeCap,     \* how many frames each stream holds before its writer blocks
    MaxOutput,   \* how many pieces of output a request has
    Offspring,   \* the kinds of processes a command may leave behind
    Faults,      \* what may go wrong: "link", "wedge", "reorder", "retire"
    None         \* no result, no such thing

ASSUME WireAssumption ==
    /\ Command \subseteq Request
    /\ QueueCap \in Nat \ {0}
    /\ PipeCap \in Nat \ {0}
    /\ MaxOutput \in Nat
    /\ Offspring \subseteq {"quiet", "output", "stdin", "escaped"}
    /\ None \notin {"quiet", "output", "stdin", "escaped"}
    /\ None \notin [ok: BOOLEAN, may: BOOLEAN]

VARIABLES
    up,          \* frames on their way to the helper
    down,        \* frames on their way to the local reader
    link,        \* the SSH child lives and both streams are open
    killed       \* a signal was sent to the SSH child's process group

wireVars == <<up, down, link, killed>>

\* EXIT carries `remote_process_may_continue'; the other kinds carry FALSE.
Frame(kind, r, may) == [kind |-> kind, id |-> r, may |-> may]

UpFrames == [kind: {"OPEN", "CANCEL"}, id: Request, may: {FALSE}]
DownFrames == [kind: {"READY", "STDOUT", "EXIT", "ERROR"}, id: Request, may: BOOLEAN]

WireTypeOK ==
    /\ up \in Seq(UpFrames)
    /\ down \in Seq(DownFrames)
    /\ link \in BOOLEAN
    /\ killed \in BOOLEAN

WireInit ==
    /\ up = <<>>
    /\ down = <<>>
    /\ link = TRUE
    /\ killed = FALSE

\* The SSH child ends, because it was told to, or its helper has gone, or the
\* network failed: either stream keeps the frames that had come through.
LinkEnds ==
    /\ link
    /\ link' = FALSE
    /\ \E n \in 0..Len(up): up' = SubSeq(up, 1, n)
    /\ \E n \in 0..Len(down): down' = SubSeq(down, 1, n)
    /\ UNCHANGED killed

=============================================================================
