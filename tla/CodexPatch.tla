----------------------------- MODULE CodexPatch -----------------------------
(***************************************************************************)
(* Codex patches, src/remote/codex_patch.rs: the parser reads the text of  *)
(* a patch record by record, and an update is then placed chunk by chunk   *)
(* in the file it is for.  Positions count the lines before them, as the   *)
(* code's indices do.  A line is a value with one form per matching mode:  *)
(* exact, without trailing blanks, without blanks around it, and with the  *)
(* usual signs for typographic ones.                                       *)
(***************************************************************************)
EXTENDS Naturals, Sequences, SequencesExt

CONSTANTS
    NoLine,    \* an @@ that names no line
    Form,      \* mode -> line -> what of the line the mode compares
    Loads,     \* what may be read, and met: [records, length, bases], one for each load
    MaxFiles, MaxHunks, MaxBody, MaxLines

Modes == 1 .. 4

VARIABLES
    load,
    read,      \* records read
    section,   \* where the parser is
    patches,   \* the files of the patch; the last one may be incomplete
    paths,     \* paths named so far
    phase,     \* "reading", "parsed", "placing", "written", "deleted", or how it failed
    picked,    \* the file that is applied
    base,      \* what the snapshot found: [present, text, lines, newline]
    nth,        \* the chunk to place
    cursor,    \* lines the chunks placed so far have passed
    replacements

parser == <<read, section, patches, paths>>
placing == <<picked, base, nth, cursor, replacements>>
vars == <<load, parser, phase, placing>>

Directives == {"add", "update", "delete"}

NoBase == [present |-> FALSE, text |-> TRUE, lines |-> <<>>, newline |-> TRUE]

Init ==
    /\ load \in DOMAIN Loads /\ read = 0 /\ section = "start" /\ patches = <<>> /\ paths = {}
    /\ phase = "reading" /\ picked = 0 /\ base = NoBase
    /\ nth = 1 /\ cursor = 0 /\ replacements = <<>>

-----------------------------------------------------------------------------
(* parse_codex_patch.                                                      *)

Hunks == FoldLeft(LAMBDA n, f : n + Len(f.chunks), 0, patches)

Body ==
    FoldLeft(LAMBDA n, f : n + f.added +
        FoldLeft(LAMBDA k, c : k + Len(c.old) + Len(c.new) - Len(c.kept), 0, f.chunks),
        0, patches)

NewFile(kind, path) ==
    [kind |-> kind, path |-> path, to |-> path, moved |-> FALSE, added |-> 0, chunks |-> <<>>]

NewChunk(context) ==
    [context |-> context, old |-> <<>>, new |-> <<>>, kept |-> <<>>, eof |-> FALSE]

\* An added file has at least one line.
Complete == section = "add" => Last(patches).added > 0

InUpdate == section \in {"update", "moved", "chunk"}

\* The target of a move is a path of the patch like any other.
MoveFree(path) == path = Last(patches).path \/ path \notin paths

BodyTags == {" ", "-", "+"}

\* The records that may come next; any other makes the patch invalid or too
\* large.  The first line of an update needs no @@ before it, and after the
\* mark of the end of a file its section may only have blank records.
Belongs(r) ==
    \/ r.tag = "environment" /\ read = 0
    \/ r.tag \in Directives /\ Complete /\ Len(patches) < MaxFiles /\ r.path \notin paths
    \/ r.tag = "move" /\ section = "update" /\ MoveFree(r.path)
    \/ /\ r.tag \in {"@@", "end of file"} \cup BodyTags
       /\ InUpdate
       /\ r.tag \in BodyTags => Body < MaxBody
       /\ (r.tag = "@@" \/ section # "chunk") => Hunks < MaxHunks
    \/ r.tag = "+" /\ section = "add" /\ Body < MaxBody
    \/ r.tag = "blank" /\ section = "end of file"

LastFile(f) == patches' = [patches EXCEPT ![Len(patches)] = f]

Directive(r) ==
    /\ r.tag \in Directives
    /\ patches' = Append(patches, NewFile(r.tag, r.path))
    /\ paths' = paths \cup {r.path} /\ section' = r.tag

MoveTo(r) ==
    /\ r.tag = "move"
    /\ LastFile([Last(patches) EXCEPT !.to = r.path, !.moved = TRUE])
    /\ paths' = paths \cup {r.path} /\ section' = "moved"

\* @@, with or without a line to look for.
ChunkStarts(r) ==
    /\ r.tag = "@@"
    /\ LastFile([Last(patches) EXCEPT !.chunks = Append(@, NewChunk(r.text))])
    /\ section' = "chunk" /\ UNCHANGED paths

\* The chunk a line belongs to, and its file with the chunk put back.
OpenChunk == IF section = "chunk" THEN Last(Last(patches).chunks) ELSE NewChunk(NoLine)

PutBack(chunk) ==
    LastFile([Last(patches) EXCEPT
        !.chunks = Append(IF section = "chunk" THEN Front(@) ELSE @, chunk)])

ChunkLine(r) ==
    /\ r.tag \in BodyTags /\ InUpdate
    /\ PutBack([OpenChunk EXCEPT
           !.old = IF r.tag = "+" THEN @ ELSE Append(@, r.text),
           !.new = IF r.tag = "-" THEN @ ELSE Append(@, r.text),
           !.kept = IF r.tag # " " THEN @
                    ELSE Append(@, <<Len(OpenChunk.old) + 1, Len(OpenChunk.new) + 1>>)])
    /\ section' = "chunk" /\ UNCHANGED paths

EndOfFile(r) ==
    /\ r.tag = "end of file" /\ PutBack([OpenChunk EXCEPT !.eof = TRUE])
    /\ section' = "end of file" /\ UNCHANGED paths

AddedLine(r) ==
    /\ r.tag = "+" /\ section = "add"
    /\ LastFile([Last(patches) EXCEPT !.added = @ + 1])
    /\ UNCHANGED <<section, paths>>

Skipped(r) == r.tag \in {"environment", "blank"} /\ UNCHANGED <<section, patches, paths>>

Read(r) ==
    /\ phase = "reading" /\ read < Loads[load].length /\ read' = read + 1 /\ Belongs(r)
    /\ \/ Directive(r) \/ MoveTo(r) \/ ChunkStarts(r) \/ ChunkLine(r)
       \/ EndOfFile(r) \/ AddedLine(r) \/ Skipped(r)
    /\ UNCHANGED <<load, phase, placing>>

Refuse(r) ==
    /\ phase = "reading" /\ read < Loads[load].length /\ ~Belongs(r)
    /\ phase' = "invalid" /\ UNCHANGED <<load, parser, placing>>

\* *** End Patch.
ReadEnd ==
    /\ phase = "reading"
    /\ phase' = IF patches # <<>> /\ Complete THEN "parsed" ELSE "invalid"
    /\ UNCHANGED <<load, parser, placing>>

-----------------------------------------------------------------------------
(* apply_codex_file.                                                       *)

\* A file of the patch meets what the snapshot found at its path.
Apply(i, b) ==
    /\ phase = "parsed" /\ picked' = i /\ base' = b
    /\ phase' = IF b.present = (patches[i].kind = "add") THEN "conflict"
                ELSE CASE patches[i].kind = "add" ->
                            IF patches[i].added > MaxLines THEN "invalid" ELSE "written"
                       [] patches[i].kind = "delete" -> "deleted"
                       [] OTHER -> IF b.text THEN "placing" ELSE "invalid"
    /\ UNCHANGED <<load, parser, nth, cursor, replacements>>

Matches(mode, needle, p) ==
    \A k \in 1 .. Len(needle) : Form[mode][base.lines[p + k]] = Form[mode][needle[k]]

\* Where the needle is found: nowhere or at one place, the first one of the
\* strictest mode that has any.
SeekCandidates(needle, candidates) ==
    LET found(mode) == {p \in candidates : Matches(mode, needle, p)}
    IN  {p \in candidates : \E mode \in Modes :
            /\ p \in found(mode) /\ \A q \in found(mode) : p <= q
            /\ \A stricter \in 1 .. mode - 1 : found(stricter) = {}}

SeekSequence_AtEndOnly(needle, start, eof) ==
    LET total == Len(base.lines)
    IN  IF needle = <<>> THEN {IF eof THEN total ELSE start}
        ELSE SeekCandidates(needle, {p \in start .. total :
                 IF eof THEN p + Len(needle) = total ELSE p + Len(needle) <= total})

SeekSequence(needle, start, eof) ==
    LET total == Len(base.lines)
        last == {p \in start .. total : p + Len(needle) = total}
        atEnd == IF eof THEN SeekCandidates(needle, last) ELSE {}
    IN  IF needle = <<>> THEN {IF eof THEN total ELSE start}
        ELSE IF atEnd # {} THEN atEnd
        ELSE SeekCandidates(needle, {p \in start .. total : p + Len(needle) <= total})

Chunks == patches[picked].chunks
Chunk == Chunks[nth]

\* Past the line that the @@ names.
AfterContext(c) ==
    IF c.context = NoLine THEN {cursor}
    ELSE {p + 1 : p \in SeekSequence(<<c.context>>, cursor, FALSE)}

Starts(c, from) ==
    IF c.old = <<>> /\ c.context = NoLine THEN {Len(base.lines)}
    ELSE SeekSequence(c.old, from, c.eof)

\* Lines that stay keep the text of the file.
Kept(c, p) ==
    [j \in 1 .. Len(c.new) |->
        IF \E k \in 1 .. Len(c.kept) : c.kept[k][2] = j
        THEN base.lines[p + (CHOOSE o \in 1 .. Len(c.old) :
                                \E k \in 1 .. Len(c.kept) : c.kept[k] = <<o, j>>)]
        ELSE c.new[j]]

Empty(c) == c.old = <<>> /\ c.new = <<>>

\* A chunk without lines only moves on.
PassChunk ==
    /\ phase = "placing" /\ nth <= Len(Chunks) /\ Empty(Chunk)
    /\ cursor' \in AfterContext(Chunk) /\ nth' = nth + 1
    /\ UNCHANGED <<load, parser, phase, picked, base, replacements>>

NextCursor(c, p) == p + Len(c.old)

PlaceChunk ==
    /\ phase = "placing" /\ nth <= Len(Chunks) /\ ~Empty(Chunk)
    /\ \E from \in AfterContext(Chunk) : \E p \in Starts(Chunk, from) :
        /\ replacements' = Append(replacements,
               [chunk |-> nth, start |-> p, length |-> Len(Chunk.old), new |-> Kept(Chunk, p)])
        /\ cursor' = NextCursor(Chunk, p)
    /\ nth' = nth + 1 /\ UNCHANGED <<load, parser, phase, picked, base>>

MissChunk ==
    /\ phase = "placing" /\ nth <= Len(Chunks)
    /\ \A from \in AfterContext(Chunk) : ~Empty(Chunk) /\ Starts(Chunk, from) = {}
    /\ phase' = "missed" /\ UNCHANGED <<load, parser, placing>>

\* The lines between the replacements are copied; every line ends in a newline.
Output ==
    LET done == FoldLeft(LAMBDA acc, r :
                    [copied |-> r.start + r.length,
                     text |-> acc.text \o SubSeq(base.lines, acc.copied + 1, r.start) \o r.new],
                    [copied |-> 0, text |-> <<>>], replacements)
    IN  done.text \o SubSeq(base.lines, done.copied + 1, Len(base.lines))

Finish ==
    /\ phase = "placing" /\ nth > Len(Chunks)
    /\ phase' = IF Len(Output) > MaxLines THEN "invalid"
                ELSE IF Output = base.lines /\ base.newline
                        /\ ~patches[picked].moved THEN "conflict"
                ELSE "written"
    /\ UNCHANGED <<load, parser, placing>>

Next ==
    \/ \E r \in Loads[load].records : Read(r) \/ Refuse(r)
    \/ ReadEnd
    \/ \E i \in 1 .. Len(patches), b \in Loads[load].bases : Apply(i, b)
    \/ PassChunk \/ PlaceChunk \/ MissChunk \/ Finish

Spec == Init /\ [][Next]_vars

-----------------------------------------------------------------------------
(* Properties.                                                             *)

Placed == phase \in {"placing", "missed", "written"} /\ picked # 0

\* What an update replaces: ranges of the file in the order of the chunks,
\* none over another, each equal to the lines the patch expects there up to
\* blanks and typographic signs; and lines that stay are the file's own.
\* (codex_patch.rs:382-404; the copying loop at 407-420 slices between them)
AppliedInOrder ==
    \A k \in 1 .. Len(replacements) :
        LET r == replacements[k]
            c == Chunks[r.chunk]
        IN  /\ r.start + r.length <= Len(base.lines)
            /\ k > 1 => replacements[k - 1].start + replacements[k - 1].length <= r.start
            /\ k > 1 => replacements[k - 1].chunk < r.chunk
            /\ r.length = Len(c.old) /\ \E mode \in Modes : Matches(mode, c.old, r.start)
            /\ \A j \in 1 .. Len(c.kept) :
                   r.new[c.kept[j][2]] = base.lines[r.start + c.kept[j][1]]

\* The positions any placement of the first n chunks could end at.
CouldEndAt ==
    LET total == Len(base.lines)
        past(c, from) ==
            IF c.context = NoLine THEN {from}
            ELSE {q \in from + 1 .. total : Matches(4, <<c.context>>, q - 1)}
        ends(c, from) ==
            IF Empty(c) THEN {from}
            ELSE IF c.old = <<>> THEN {IF c.eof \/ c.context = NoLine THEN total ELSE from}
            ELSE {q \in from + Len(c.old) .. total : Matches(4, c.old, q - Len(c.old))}
        f[n \in 0 .. Len(Chunks)] ==
            IF n = 0 THEN {0}
            ELSE UNION {ends(Chunks[n], from) :
                            from \in UNION {past(Chunks[n], q) : q \in f[n - 1]}}
    IN  f[Len(Chunks)]

\* Lines that no mode but the exact one takes for another.
Unambiguous ==
    \A x, y \in Range(base.lines) \cup UNION {Range(c.old) \cup {c.context} : c \in Range(Chunks)} :
        (x # NoLine /\ y # NoLine /\ Form[4][x] = Form[4][y]) => x = y

\* A patch is refused for a chunk that is not found only if its chunks have
\* no place in the file in their order, wherever the earlier ones go: taking
\* the first place for each loses nothing.  (With fuzzy matches it can: an
\* exact match further down is preferred.)  (codex_patch.rs:382-404, 431-473)
RefusedForAReason == (phase = "missed" /\ Unambiguous) => CouldEndAt = {}

=============================================================================
