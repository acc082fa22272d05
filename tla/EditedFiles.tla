----------------------------- MODULE EditedFiles -----------------------------
(***************************************************************************)
(* What the write-back cache promises the clients of one host: edits take  *)
(* effect at once and together, a buffered text stays what it is until an  *)
(* edit replaces it or a client discards it, and writing it to the remote  *)
(* host changes nothing that a client can see.  EditCache implements this. *)
(***************************************************************************)
EXTENDS FiniteSets

CONSTANTS
  Path,     \* remote paths
  Content,  \* file contents, "no file" among them
  Others,   \* the remote files may change in other ways, see Write
  GivesUp   \* a client may discard what is buffered

VARIABLES
  text,     \* each file as a client sees it
  buffered  \* the paths whose text is not known to be on the remote host

vars == <<text, buffered>>

Init == text \in [Path -> Content] /\ buffered = {}

\* The text stays the same except for the paths of S.
Keeps(S) == text' \in [Path -> Content] /\ \A p \in Path \ S : text'[p] = text[p]

\* One call edits a batch of files.
Edit == \E batch \in SUBSET Path :
  /\ batch # {}
  /\ Keeps(batch)
  /\ buffered' = buffered \cup batch

\* Some texts have reached the remote host; those may be changed by others at
\* any time from then on.
Store == \E S \in SUBSET buffered :
  /\ S # {}
  /\ Keeps(IF Others THEN S ELSE {})
  /\ buffered' = buffered \ S

\* An edit that the cache has no room for goes to the remote file, and foreign
\* programs write there too: neither touches a text that is buffered.
Write ==
  /\ Others
  /\ \E p \in Path \ buffered : Keeps({p})
  /\ UNCHANGED buffered

\* A client gives up what is buffered.
Discard ==
  /\ GivesUp
  /\ buffered # {}
  /\ Keeps(buffered)
  /\ buffered' = {}

Next == Edit \/ Store \/ Write \/ Discard

Spec == Init /\ [][Next]_vars
=============================================================================
