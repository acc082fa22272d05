----------------------------- MODULE MCEditPath -----------------------------
(***************************************************************************)
(* The way of an edit for TLC: CodexPatch makes texts of a patch,          *)
(* EditCache buffers them, and GuardedFiles writes them on the remote      *)
(* host.  A behaviour is of one of the three, which share no state here:   *)
(* the patch of one file, a client that is alone with a small cache, or    *)
(* one job of the write scripts on two names, one of them possibly         *)
(* missing.                                                                *)
(***************************************************************************)
EXTENDS EditCache, GuardedFiles

Step(path, op) == [path |-> path, op |-> op, last |-> TRUE]
Item(path, op) == [path |-> path, op |-> op, last |-> FALSE]
Job(style, reads, ops) == [style |-> style, reads |-> reads, ops |-> ops]

MCTrees == {[f |-> 1, g |-> 0], [f |-> 1, g |-> 2]}

MCJobs == {
    Job("patch", <<"f", "g">>, <<Step("g", "put"), Step("f", "delete")>>),
    Job("patch", <<"g", "f">>, <<Step("g", "create"), Step("f", "update")>>),
    Job("patch", <<>>, <<Step("f", "overwrite")>>),
    Job("batch", <<"f", "g">>, <<Item("f", "put"), Step("g", "put")>>),
    Job("batch", <<"g", "f">>, <<Step("g", "delete"), Step("f", "same")>>) }

-----------------------------------------------------------------------------
(* Lines: "a_" is "a" with blanks after it, "a~" with typographic signs.   *)

CONSTANTS MaxFiles, MaxHunks, MaxBody, MaxLines
VARIABLES part, load, read, section, patches, paths, phase, picked, base, nth,
          cursor, replacements

NoLine == "no line"
Lines == {"a", "a_", "a~", "b"}
Form == [mode \in 1 .. 4 |-> [x \in Lines |->
    IF (x = "a_" /\ mode > 1) \/ (x = "a~" /\ mode > 3) THEN "a" ELSE x]]

\* What the snapshot may find.
Found(lines) == [present |-> TRUE, text |-> TRUE, lines |-> lines, newline |-> TRUE]
Nothing == [Found(<<>>) EXCEPT !.present = FALSE]
Upto(n) == UNION {[1 .. k -> Lines] : k \in 0 .. n}

\* Every way to name two paths, and every update of one file.
Loads == <<
    [records |-> [tag : {"add", "update", "delete", "move"}, path : {"p", "q"}]
         \cup ([tag : {"@@", "+", "-", " "}, text : {"a"}]
         \cup [tag : {"end of file", "blank", "environment", "other"}]),
     length |-> 6,
     bases |-> {Nothing, [Found(<<>>) EXCEPT !.text = FALSE]}],
    [records |-> {[tag |-> "update", path |-> "p"], [tag |-> "end of file"]}
         \cup ([tag : {"@@"}, text : {NoLine, "a"}]
         \cup [tag : {"+", "-", " "}, text : {"a", "b"}]),
     length |-> 5,
     bases |-> {Found(lines) : lines \in Upto(3)}
         \cup {[Found(<<"a">>) EXCEPT !.newline = FALSE]}] >>

Codex == INSTANCE CodexPatch

codexVars == <<load, read, section, patches, paths, phase, picked, base, nth,
               cursor, replacements>>

-----------------------------------------------------------------------------
(* One client at a time, two paths, a cache of one byte, and a remote tree *)
(* that nobody changes but the client's own commands.                      *)

MCSize == [c \in {"gone", "a", "big"} |->
             CASE c = "gone" -> 0 [] c = "a" -> 1 [] c = "big" -> 3]

-----------------------------------------------------------------------------
MCInit ==
    /\ ScriptsInit /\ Codex!Init /\ Init
    /\ part \in {"files", "codex", "cache"}
    /\ part # "codex" => load = 1
    /\ part # "files" => /\ names = [f |-> 1, g |-> 0]
                         /\ job = Job("patch", <<>>, <<Step("f", "overwrite")>>)
    /\ part # "cache" => remote = [p \in Path |-> NoFile]

MCNext ==
    \/ part = "files" /\ ScriptsNext /\ UNCHANGED <<part, codexVars, vars>>
    \/ part = "codex" /\ Codex!Next /\ UNCHANGED <<part, scriptVars, vars>>
    \/ part = "cache" /\ Next /\ UNCHANGED <<part, scriptVars, codexVars>>

MCSpec == MCInit /\ [][MCNext]_<<part, scriptVars, codexVars, vars>>

\* A patch is placed in order, and refused only if it has no place.
PlacedRightly == Codex!AppliedInOrder /\ Codex!RefusedForAReason

=============================================================================
