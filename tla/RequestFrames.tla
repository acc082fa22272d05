--------------------------- MODULE RequestFrames ----------------------------
(***************************************************************************)
(* How a request travels: session.rs makes an OPEN frame, whose fields say *)
(* which DATA frames follow and how long they are, and the remote end, the *)
(* Rust helper or the shell dispatcher, takes them from the one stream     *)
(* that all requests of the session share.  The three programs have to     *)
(* agree on every frame: one too many or too few is taken for the next     *)
(* request.                                                                *)
(***************************************************************************)
EXTENDS Naturals, Sequences, SequencesExt

CONSTANTS
    Queue,       \* requests in the order they are sent
    Shapes,      \* what a request may be, see Shape
    MaxPayload   \* bound of a frame, known to both ends

VARIABLES
    remote,      \* what reads the requests, see Remotes
    usable,      \* the login shell of the account can be executed
    todo,        \* requests not sent yet
    asked,       \* request -> its shape, once it is sent
    stream,      \* frames on their way
    cut,         \* the stream ends after them, the last one perhaps in part
    opening,     \* the OPEN whose DATA is awaited, or None
    parts,       \* lengths of the DATA taken for it
    answers,     \* request -> READY and ERROR frames, in order
    taken,       \* request -> the lengths it was started with
    dead         \* the remote end has given up

vars == <<remote, usable, todo, asked, stream, cut, opening, parts, answers, taken, dead>>

None == [tag |-> "none"]

\* The dispatcher has GNU dd, which reads whole blocks, or loops over short ones.
Remotes == {"helper", "dispatcher", "dispatcher with GNU dd"}
Dispatching == remote # "helper"

Ids == {Queue[k] : k \in 1 .. Len(Queue)}

Init ==
    /\ remote \in Remotes /\ usable \in BOOLEAN
    /\ todo = Queue /\ asked = [q \in Ids |-> None]
    /\ stream = <<>> /\ cut = FALSE /\ opening = None /\ parts = <<>>
    /\ answers = [q \in Ids |-> <<>>] /\ taken = [q \in Ids |-> <<>>]
    /\ dead = FALSE

-----------------------------------------------------------------------------
(* The local end: build_request_frames.                                    *)

Limits == {"timeout_ms", "stdout_limit", "stderr_limit"}

CommandFields == {"shell", "login_shell", "cwd_length", "command_length", "stdin_length"} \cup Limits
SearchFields ==
    {"operation", "root_length", "query_length", "globs_length", "max_results", "binary"} \cup Limits
JobFields == {"operation", "request_length"}

\* A shape is its kind and the lengths of its parts; a command has a shell too.
Fields(shape) ==
    CASE shape.kind = "command" -> CommandFields
      [] shape.kind = "search" -> SearchFields
      [] shape.kind = "job" -> JobFields

Open(q, shape) ==
    [tag |-> "OPEN", id |-> q, kind |-> shape.kind, fields |-> Fields(shape),
     login |-> shape.login, lengths |-> shape.parts]

\* `length' is what the header says, `whole' whether that much follows it.
Data(q, n) == [tag |-> "DATA", id |-> q, length |-> n, whole |-> TRUE]

\* Only the input of a command is left out when it is empty.
CommandParts(shape) == SelectSeq(<<1, 2, 3>>, LAMBDA k : k < 3 \/ shape.parts[3] > 0)
SearchParts == <<1, 2, 3>>
JobParts == <<1>>

Sent(shape) ==
    CASE shape.kind = "command" -> CommandParts(shape)
      [] shape.kind = "search" -> SearchParts
      [] shape.kind = "job" -> JobParts

\* What build_request_frames accepts of what its callers may ask for.
Fits(shape) == \A k \in 1 .. Len(shape.parts) : shape.parts[k] <= MaxPayload

Send(shape) ==
    /\ todo # <<>> /\ ~cut /\ Fits(shape)
    /\ shape.kind # "command" => remote = "helper"
    /\ LET q == Head(todo) IN
        /\ asked' = [asked EXCEPT ![q] = shape]
        /\ stream' = (stream \o <<Open(q, shape)>>)
                        \o [k \in 1 .. Len(Sent(shape)) |-> Data(q, shape.parts[Sent(shape)[k]])]
    /\ todo' = Tail(todo)
    /\ UNCHANGED <<remote, usable, cut, opening, parts, answers, taken, dead>>

TooLarge(shape) ==
    /\ todo # <<>> /\ ~Fits(shape) /\ todo' = Tail(todo)
    /\ UNCHANGED <<remote, usable, asked, stream, cut, opening, parts, answers, taken, dead>>

Cut ==
    /\ ~cut /\ cut' = TRUE
    /\ \E n \in 0 .. Len(stream) :
        \/ stream' = SubSeq(stream, 1, n)
        \/ /\ n > 0 /\ stream[n].tag = "DATA" /\ stream[n].length > 0
           /\ stream' = Append(SubSeq(stream, 1, n - 1), [stream[n] EXCEPT !.whole = FALSE])
    /\ UNCHANGED <<remote, usable, todo, asked, opening, parts, answers, taken, dead>>

-----------------------------------------------------------------------------
(* The remote end.                                                         *)

Answer(q, tag) == answers' = [answers EXCEPT ![q] = Append(@, tag)]

\* The fields each reader knows, and those a request must have.
Known(f) ==
    CASE Dispatching ->
            /\ f.fields \subseteq CommandFields
            /\ CommandFields \ ({"login_shell"} \cup Limits) \subseteq f.fields
      [] f.kind = "command" /\ ~Dispatching ->
            /\ f.fields \subseteq CommandFields
            /\ CommandFields \ {"login_shell"} \subseteq f.fields
      [] OTHER -> f.fields = IF f.kind = "search" THEN SearchFields ELSE JobFields

Expected_EveryInput(f) == f.lengths

\* The lengths of the DATA frames to come: an empty part of a command has
\* none for the dispatcher, an empty input none for the helper either.
Expected(f) ==
    IF Dispatching THEN SelectSeq(f.lengths, LAMBDA n : n > 0)
    ELSE IF f.kind = "command" /\ f.lengths[3] = 0 THEN SubSeq(f.lengths, 1, 2)
    ELSE f.lengths

\* Everything has come: READY, and a worker starts with it.
Starts(f, ps) ==
    /\ Answer(f.id, "READY") /\ taken' = [taken EXCEPT ![f.id] = ps]
    /\ opening' = None /\ parts' = <<>>

\* A frame that was cut short is the end of the input, except that GNU dd
\* takes what there is of it for all of it.
Readable(f) == f.tag = "DATA" /\ ~f.whole => remote = "dispatcher with GNU dd"

Takes == ~dead /\ stream # <<>> /\ Readable(Head(stream)) /\ stream' = Tail(stream)
fixed == <<remote, usable, todo, asked, cut>>

\* The dispatcher looks at the login shell before it takes the DATA, which it
\* then finds unexpected.
OpenRejected ==
    /\ Takes /\ opening = None /\ Head(stream).tag = "OPEN"
    /\ LET f == Head(stream)
       IN ~Known(f) \/ (Dispatching /\ f.login /\ ~usable)
    /\ Answer(Head(stream).id, "ERROR")
    /\ UNCHANGED <<fixed, opening, parts, taken, dead>>

OpenAccepted ==
    /\ Takes /\ opening = None /\ Head(stream).tag = "OPEN"
    /\ LET f == Head(stream) IN
        /\ Known(f) /\ ~(Dispatching /\ f.login /\ ~usable)
        /\ opening' = f /\ parts' = <<>>
    /\ UNCHANGED <<fixed, answers, taken, dead>>

\* The bytes of a frame that are kept; there are fewer than its header says in
\* a frame that was cut short.
Taken(f) == IF f.whole THEN f.length ELSE f.length - 1

\* A frame that is not the part awaited ends the request: the helper answers
\* and goes on with the next frame, the dispatcher exits.
TakePart ==
    /\ Takes /\ opening # None
    /\ LET f == Head(stream)
           want == Expected(opening)
       IN  IF ~(f.tag = "DATA" /\ f.id = opening.id /\ f.length = want[Len(parts) + 1])
           THEN /\ IF remote = "helper" THEN Answer(opening.id, "ERROR") /\ UNCHANGED dead
                   ELSE dead' = TRUE /\ UNCHANGED answers
                /\ opening' = None /\ parts' = <<>> /\ UNCHANGED taken
           ELSE /\ UNCHANGED dead
                /\ IF Len(parts) + 1 = Len(want) THEN Starts(opening, Append(parts, Taken(f)))
                   ELSE /\ parts' = Append(parts, Taken(f))
                        /\ UNCHANGED <<opening, answers, taken>>
    /\ UNCHANGED fixed

StrayData ==
    /\ Takes /\ opening = None /\ Head(stream).tag = "DATA"
    /\ Answer(Head(stream).id, "ERROR")
    /\ UNCHANGED <<fixed, opening, parts, taken, dead>>

\* The end of the input, between two frames or within one.
Ends ==
    /\ ~dead /\ cut /\ (stream # <<>> => ~Readable(Head(stream))) /\ dead' = TRUE
    /\ IF opening # None /\ remote = "helper" THEN Answer(opening.id, "ERROR")
       ELSE UNCHANGED answers
    /\ UNCHANGED <<fixed, stream, opening, parts, taken>>

Next ==
    \/ \E shape \in Shapes : Send(shape) \/ TooLarge(shape)
    \/ Cut \/ OpenRejected \/ OpenAccepted \/ TakePart \/ StrayData \/ Ends

Spec == Init /\ [][Next]_vars

-----------------------------------------------------------------------------
(* Properties.                                                             *)

\* A request is answered READY with exactly the parts it was sent with, and
\* ERROR only for a login shell that cannot be executed or a stream that
\* ended; and when the remote end is at rest, nothing is left of any request
\* for the next one to trip over.  Excepted: a dispatcher that has GNU dd starts
\* a request whose last frame was cut short by the end of the session
\* (dispatcher.sh:600).  (session.rs:1306-1565, remote_helper.rs:308-490,
\* dispatcher.sh:616-679)
RequestsArriveWhole ==
    /\ \A q \in Ids : answers[q] # <<>> =>
        \/ /\ answers[q] = <<"READY">>
           /\ LET shape == asked[q]
              IN  \/ taken[q] = [k \in 1 .. Len(Sent(shape)) |-> shape.parts[Sent(shape)[k]]]
                  \/ cut /\ remote = "dispatcher with GNU dd"
        \/ answers[q][1] = "ERROR" /\ (cut \/ (asked[q].login /\ ~usable))
    /\ dead => cut
    /\ (~cut /\ stream = <<>>) =>
        opening = None /\ \A q \in Ids : asked[q] # None => answers[q] # <<>>

=============================================================================
