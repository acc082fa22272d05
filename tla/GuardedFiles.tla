---------------------------- MODULE GuardedFiles ----------------------------
(***************************************************************************)
(* The shell programs that read and change files on the host, and the      *)
(* callers that run them: the snapshot program (src/remote/patch.rs), the  *)
(* write and the guarded delete programs (src/remote/write.rs), the batch  *)
(* program (src/remote/edit_sync.rs), and the patch or the batch that      *)
(* strings them together and says afterwards which paths it changed.       *)
(*                                                                         *)
(* The programs run step by step beside a foreign program that saves the   *)
(* same files by rename, writes them in place, removes and chmods them.    *)
(* A directory maps a name to an inode; an inode is two halves of data and *)
(* a mode; an inode number is used again once nothing refers to it.        *)
(***************************************************************************)
EXTENDS Naturals, Sequences, FiniteSets

CONSTANTS
    Files,          \* the names in the directory
    Ids,            \* inode numbers
    Trees,          \* the directories a run may start with
    Jobs,           \* the jobs a run may have
    MaxIntrusions,  \* bound: steps of the foreign program
    MaxFaults       \* bound: faults that hit the programs or the host

Absent == 0

OpKind == {"put", "create", "update", "overwrite", "delete", "same"}

(* No two names of a file, and no path twice in a job: a patch that names  *)
(* a path twice is refused, and a batch has one item per cached path.      *)
(* What is not overwritten blindly was read before; the last operation     *)
(* ends its program.                                                       *)
ASSUME FilesAssumption ==
    /\ Ids \subseteq Nat \ {Absent}
    /\ \A tree \in Trees :
          /\ tree \in [Files -> Ids \cup {Absent}]
          /\ \A f, g \in Files : f # g /\ tree[f] = tree[g] => tree[f] = Absent
    /\ \A j \in Jobs :
          /\ j.reads \in Seq(Files)
          /\ j.ops \in Seq([path : Files, op : OpKind, last : BOOLEAN])
          /\ j.ops # <<>> /\ j.ops[Len(j.ops)].last
          /\ \A i, k \in DOMAIN j.ops : j.ops[i].path = j.ops[k].path => i = k
          /\ j.reads = <<>> => \A i \in DOMAIN j.ops : j.ops[i].op = "overwrite"

VARIABLES
    names,    \* name -> inode number, or Absent
    inode,    \* inode number -> [data, mode]
    job,      \* what the caller wants: [style, reads, ops]
    stage,    \* "reading" the bases, "mutating", "done"
    at,       \* the index in reads or in ops
    doing,    \* where the running program is, or "idle"
    seen,     \* identity and mode the program saw at its first stat
    handle,   \* the inode dd has open, or Absent
    acc,      \* the data dd has read
    tmp,      \* the inode of the staged file, or Absent
    snap,     \* name -> the base the caller has for it, or Missing
    prefix,   \* paths the batch program has settled so far
    waiting,  \* whether the host still waits for the program
    report,   \* what the caller says in the end
    touched,  \* paths the programs really changed, or found as wanted
    window,   \* what the foreign program did to the path since it was looked at
    intrusions, faults

disk == <<names, inode>>
program == <<doing, seen, handle, acc, tmp>>
caller == <<job, stage, at, snap, prefix, waiting, report>>
scriptVars == <<disk, program, caller, touched, window, intrusions, faults>>

Private == 600
Modes == {Private, 644}
Missing == [data |-> <<>>, mode |-> 0]
New == <<"new", "new">>
Theirs == "theirs"

Paths == {job.ops[i].path : i \in DOMAIN job.ops}
Op == job.ops[at]
P == IF stage = "reading" THEN job.reads[at] ELSE Op.path
Batch == job.style = "batch"

\* A stat of the path: which inode it names, and its mode.
Look(p) == IF names[p] = Absent THEN [id |-> Absent, mode |-> 0]
           ELSE [id |-> names[p], mode |-> inode[names[p]].mode]

InUse == {names[p] : p \in Files} \cup {handle, tmp}
Fresh(i) == i \in Ids \ InUse

Base == snap[Op.path]
Creates == Base = Missing /\ Op.op \notin {"overwrite", "delete"}
Guarded == Op.op # "overwrite"
Desired == IF Op.op = "same" THEN Base.data ELSE New

\* The mode the staged file gets: a write keeps the mode it saw, the batch
\* program has it from the cached base.
DesiredMode == IF Creates THEN Private ELSE IF Batch THEN Base.mode ELSE seen.mode

ScriptsInit ==
    /\ names \in Trees
    /\ inode = [i \in Ids |-> [data |-> <<"old", "old">>, mode |-> 644]]
    /\ job \in Jobs
    /\ stage = IF job.reads = <<>> THEN "mutating" ELSE "reading"
    /\ at = 1
    /\ doing = IF job.reads = <<>> THEN "launch" ELSE "stat"
    /\ seen = [id |-> Absent, mode |-> 0]
    /\ handle = Absent /\ acc = <<>> /\ tmp = Absent
    /\ snap = [p \in Files |-> Missing]
    /\ prefix = {} /\ waiting = TRUE
    /\ report = [changed |-> {}, unknown |-> {}, same |-> {}]
    /\ touched = {} /\ window = {} /\ intrusions = 0 /\ faults = 0

-----------------------------------------------------------------------------
(* How a program ends, and what the caller makes of it.                    *)

ScriptEnd == CHOOSE j \in at .. Len(job.ops) :
                /\ job.ops[j].last
                /\ \A k \in at .. (j - 1) : ~job.ops[k].last

\* The caller ends: c is changed, u may be, the rest is as it was.
Ends(c, u) ==
    /\ report' = IF ~waiting THEN report
                 ELSE [changed |-> report.changed \cup c, unknown |-> u,
                       same |-> Paths \ (report.changed \cup c \cup u)]
    /\ stage' = "done" /\ waiting' = FALSE /\ prefix' = {}
    /\ doing' = "idle" /\ handle' = Absent
    /\ UNCHANGED <<job, at, snap, seen, acc>>

\* A program says that it did not change the path: a status, and exit 0.
Declines == Ends(prefix, {}) /\ tmp' = Absent

\* No status can be trusted: a non-zero exit, a signal, a lost session.
Unknown == prefix \cup {job.ops[j].path : j \in at .. ScriptEnd}
Fails(left) == Ends({}, Unknown) /\ tmp' = left

\* The path is as wanted: the next item, the next program, or the end.
Succeeds ==
    IF Op.last /\ (at = Len(job.ops) \/ ~waiting)
    THEN Ends(prefix \cup {P}, {}) /\ tmp' = Absent
    ELSE /\ at' = at + 1
         /\ IF Op.last
            THEN /\ report' = [report EXCEPT !.changed = @ \cup prefix \cup {P}]
                 /\ prefix' = {} /\ doing' = "launch"
            ELSE /\ prefix' = prefix \cup {P} /\ doing' = "stat"
                 /\ UNCHANGED report
         /\ tmp' = Absent /\ handle' = Absent
         /\ UNCHANGED <<job, stage, snap, waiting, seen, acc>>

DoesNext(next) == doing' = next /\ UNCHANGED caller
At(where) == doing = where /\ stage # "reading"
Untouched == UNCHANGED <<disk, touched, intrusions, faults>>

-----------------------------------------------------------------------------
(* Reading the bases: stat, two reads of what dd opened, and stat again.   *)

\* A patch creates what is missing and changes what is there; a move and
\* the cache take what they find.
Fits(o, base) ==
    CASE o.op = "create" -> base = Missing
      [] o.op \in {"update", "same"} -> base # Missing
      [] o.op = "delete" -> Batch \/ base # Missing
      [] OTHER -> TRUE

Keep(base) ==
    LET next == [snap EXCEPT ![P] = base] IN
    /\ handle' = Absent /\ UNCHANGED <<seen, acc, tmp>>
    /\ IF at < Len(job.reads)
       THEN /\ at' = at + 1 /\ doing' = "stat" /\ snap' = next
            /\ UNCHANGED <<job, stage, prefix, waiting, report>>
       ELSE IF \A i \in DOMAIN job.ops : Fits(job.ops[i], next[job.ops[i].path])
       THEN /\ at' = 1 /\ stage' = "mutating" /\ doing' = "launch" /\ snap' = next
            /\ UNCHANGED <<job, prefix, waiting, report>>
       ELSE /\ report' = [report EXCEPT !.same = Paths]
            /\ stage' = "done" /\ waiting' = FALSE /\ doing' = "idle"
            /\ UNCHANGED <<job, at, snap, prefix>>

ReadFails ==
    /\ report' = [report EXCEPT !.same = Paths]
    /\ stage' = "done" /\ waiting' = FALSE /\ doing' = "idle" /\ handle' = Absent
    /\ UNCHANGED <<job, at, snap, prefix, seen, acc, tmp>>

SnapshotStat ==
    /\ stage = "reading" /\ doing = "stat" /\ Untouched /\ window' = {}
    /\ IF names[P] = Absent THEN Keep(Missing)
       ELSE /\ seen' = Look(P) /\ DoesNext("read1") /\ UNCHANGED <<handle, acc, tmp>>

SnapshotRestat ==
    /\ stage = "reading" /\ doing = "restat" /\ Untouched /\ UNCHANGED window
    /\ IF Look(P) = seen THEN Keep([data |-> acc, mode |-> seen.mode])
       ELSE ReadFails

\* dd opens the path, and reads the inode it opened whatever happens to the
\* name.  Nothing to open is a conflict, or an error of the program.
Open ==
    /\ doing = "read1" /\ Untouched
    /\ IF names[P] = Absent
       THEN /\ UNCHANGED window
            /\ IF stage = "reading" THEN ReadFails
               ELSE IF Op.op = "delete" /\ ~Batch THEN Declines
               ELSE Fails(Absent)
       ELSE /\ handle' = names[P] /\ acc' = <<inode[names[P]].data[1]>>
            /\ window' = {} /\ DoesNext("read2") /\ UNCHANGED <<seen, tmp>>

ReadOn ==
    /\ doing = "read2" /\ Untouched /\ UNCHANGED <<window, seen, tmp>>
    /\ acc' = Append(acc, inode[handle].data[2]) /\ handle' = Absent
    /\ DoesNext("restat")

-----------------------------------------------------------------------------
(* The write and the guarded delete programs, one path each.               *)

\* The caller starts the program for the next path, or the first of a batch.
Launch ==
    /\ At("launch") /\ Untouched /\ UNCHANGED <<window, seen, handle, acc, tmp>>
    /\ DoesNext("stat")

\* Cancelled, no session, no capability: nothing was started.
Refuse ==
    /\ At("launch") /\ faults < MaxFaults /\ faults' = faults + 1
    /\ Declines /\ UNCHANGED <<disk, touched, window, intrusions>>

FirstStat ==
    /\ At("stat") /\ ~Batch /\ Untouched /\ window' = {}
    /\ IF Creates # (names[P] = Absent) THEN Declines
       ELSE /\ seen' = Look(P) /\ UNCHANGED <<handle, acc, tmp>>
            /\ DoesNext(IF Op.op = "delete" THEN "read1" ELSE "stage")

\* The directory of the path cannot be reached.
NoParent ==
    /\ At("stat") /\ ~Batch /\ faults < MaxFaults /\ faults' = faults + 1
    /\ Declines /\ UNCHANGED <<disk, touched, window, intrusions>>

\* The content arrives on stdin, is written to a private file and verified.
Stage ==
    /\ At("stage") /\ UNCHANGED <<names, touched, window, intrusions, faults>>
    /\ \E i \in Ids :
        /\ Fresh(i) /\ tmp' = i
        /\ inode' = [inode EXCEPT ![i] =
                [data |-> Desired, mode |-> IF Batch THEN DesiredMode ELSE Private]]
    /\ UNCHANGED <<seen, handle, acc>>
    /\ DoesNext(IF Creates THEN "link" ELSE IF Batch THEN "settle" ELSE "compare")

\* ln does not replace a name.
Link ==
    /\ At("link") /\ UNCHANGED <<inode, intrusions, faults, window>>
    /\ IF names[P] # Absent THEN Declines /\ UNCHANGED <<names, touched>>
       ELSE /\ names' = [names EXCEPT ![P] = tmp] /\ touched' = touched \cup {P}
            /\ DoesNext("verify") /\ UNCHANGED <<seen, handle, acc, tmp>>

\* Still the file of the first stat?
Compare ==
    /\ At("compare") /\ Untouched /\ window' = {}
    /\ IF Look(P) # seen THEN Declines
       ELSE /\ DoesNext(IF Guarded THEN "read1" ELSE "chmod")
            /\ UNCHANGED <<seen, handle, acc, tmp>>

Matches_BytesOnly == acc = Base.data

\* The content that was hashed is the expected one, and the name still
\* means the same file; the delete program does not look at the mode.
Matches == /\ acc = Base.data /\ Look(P).id = seen.id
           /\ Op.op = "delete" \/ Look(P) = seen

Restat ==
    /\ At("restat") /\ ~Batch /\ Untouched
    /\ window' = window \ {"entry", "mode"}
    /\ IF names[P] = Absent /\ Op.op # "delete" THEN Fails(Absent)
       ELSE IF ~Matches THEN Declines
       ELSE /\ DoesNext(IF Op.op = "delete" THEN "remove" ELSE "chmod")
            /\ UNCHANGED <<seen, handle, acc, tmp>>

\* The mode is set before the staged file gets the name.
Chmod ==
    /\ At("chmod") /\ UNCHANGED <<names, touched, window, intrusions, faults>>
    /\ inode' = [inode EXCEPT ![tmp].mode = DesiredMode]
    /\ DoesNext("swap") /\ UNCHANGED <<seen, handle, acc, tmp>>

\* mv -T onto the name, whatever it means by now.
Swap ==
    /\ At("swap") /\ UNCHANGED <<inode, intrusions, faults, window>>
    /\ names' = [names EXCEPT ![P] = tmp] /\ touched' = touched \cup {P}
    /\ DoesNext("verify") /\ UNCHANGED <<seen, handle, acc, tmp>>

Remove ==
    /\ At("remove") /\ UNCHANGED <<inode, intrusions, faults, window>>
    /\ names' = [names EXCEPT ![P] = Absent] /\ touched' = touched \cup {P}
    /\ DoesNext("verify") /\ UNCHANGED <<seen, handle, acc, tmp>>

\* The name means the staged file, or nothing: the program says so.  A
\* mismatch after the change is an error, not a conflict.
Holds == IF Op.op = "delete" THEN names[P] = Absent
         ELSE Batch \/ Look(P) = [id |-> tmp, mode |-> DesiredMode]

Verify_Conflict ==
    /\ At("verify") /\ Untouched /\ UNCHANGED window
    /\ IF Holds THEN Succeeds ELSE Declines

Verify ==
    /\ At("verify") /\ Untouched /\ UNCHANGED window
    /\ IF Holds THEN Succeeds ELSE Fails(Absent)

-----------------------------------------------------------------------------
(* The batch program: one check at the start of an item, none later.       *)

BatchCheck ==
    /\ At("stat") /\ Batch /\ UNCHANGED <<disk, intrusions, faults>> /\ window' = {}
    /\ IF (Base = Missing) # (names[P] = Absent) THEN Declines /\ UNCHANGED touched
       ELSE IF Base = Missing /\ Op.op = "delete"
       THEN Succeeds /\ touched' = touched \cup {P}
       ELSE /\ DoesNext(IF Base = Missing THEN "stage" ELSE "read1")
            /\ UNCHANGED <<touched, seen, handle, acc, tmp>>

BatchCompare ==
    /\ At("restat") /\ Batch /\ Untouched /\ UNCHANGED window
    /\ IF acc # Base.data THEN Declines
       ELSE IF names[P] = Absent THEN Fails(Absent)
       ELSE /\ seen' = Look(P) /\ UNCHANGED <<handle, acc, tmp>>
            /\ DoesNext(IF Op.op = "delete" THEN "remove" ELSE "stage")

\* What is there already is not replaced.
BatchSettle ==
    /\ At("settle") /\ UNCHANGED <<disk, window, intrusions, faults>>
    /\ IF acc = Desired /\ seen.mode = DesiredMode
       THEN Succeeds /\ touched' = touched \cup {P}
       ELSE DoesNext("swap") /\ UNCHANGED <<touched, seen, handle, acc, tmp>>

-----------------------------------------------------------------------------
(* Faults, and the foreign program.                                        *)

\* A command of the program fails, a signal ends it, or it is killed with
\* its session; a killed program leaves the staged file behind.
ProgramFails ==
    /\ doing \notin {"idle", "launch"} /\ stage # "reading"
    /\ faults < MaxFaults /\ faults' = faults + 1
    /\ \E left \in {Absent, tmp} : Fails(left)
    /\ UNCHANGED <<disk, touched, window, intrusions>>

\* The call is cancelled or times out, or the session is lost: the caller
\* has its answer while the program runs on.
HostGivesUp ==
    /\ doing \notin {"idle", "launch"} /\ stage = "mutating" /\ waiting
    /\ faults < MaxFaults /\ faults' = faults + 1
    /\ report' = [report EXCEPT !.unknown = Unknown,
                                !.same = Paths \ (report.changed \cup Unknown)]
    /\ stage' = "done" /\ waiting' = FALSE
    /\ UNCHANGED <<disk, program, job, at, snap, prefix, touched, window, intrusions>>

SnapshotFails ==
    /\ stage = "reading" /\ faults < MaxFaults /\ faults' = faults + 1
    /\ ReadFails /\ UNCHANGED <<disk, touched, window, intrusions>>

Notice(p, what) ==
    /\ intrusions < MaxIntrusions /\ doing # "idle" /\ intrusions' = intrusions + 1
    /\ window' = IF p = P THEN window \cup {what} ELSE window
    /\ UNCHANGED <<program, caller, touched, faults>>

ForeignSave == \E p \in Files, i \in Ids, mode \in Modes :
    /\ Fresh(i) /\ Notice(p, IF i = seen.id THEN "reused" ELSE "entry")
    /\ names' = [names EXCEPT ![p] = i]
    /\ inode' = [inode EXCEPT ![i] = [data |-> <<Theirs, Theirs>>, mode |-> mode]]

ForeignOverwrite == \E p \in Files, half \in 1 .. 2 :
    /\ names[p] # Absent /\ Notice(p, "data")
    /\ inode' = [inode EXCEPT ![names[p]].data[half] = Theirs] /\ UNCHANGED names

ForeignRemove == \E p \in Files :
    /\ names[p] # Absent /\ Notice(p, "entry")
    /\ names' = [names EXCEPT ![p] = Absent] /\ UNCHANGED inode

ForeignChmod == \E p \in Files, mode \in Modes :
    /\ names[p] # Absent /\ inode[names[p]].mode # mode /\ Notice(p, "mode")
    /\ inode' = [inode EXCEPT ![names[p]].mode = mode] /\ UNCHANGED names

Foreign == ForeignSave \/ ForeignOverwrite \/ ForeignRemove \/ ForeignChmod

ScriptsNext ==
    \/ SnapshotStat \/ SnapshotRestat \/ Open \/ ReadOn
    \/ Launch \/ Refuse \/ NoParent \/ FirstStat \/ Stage \/ Link \/ Compare \/ Restat
    \/ Chmod \/ Swap \/ Remove \/ Verify
    \/ BatchCheck \/ BatchCompare \/ BatchSettle
    \/ ProgramFails \/ HostGivesUp \/ SnapshotFails
    \/ Foreign

ScriptsSpec == ScriptsInit /\ [][ScriptsNext]_scriptVars

-----------------------------------------------------------------------------
(* Properties.                                                             *)

\* When everything has ended, every path the caller reports as changed was
\* changed by it, none of those it reports as unchanged was, and every path
\* of the job is in exactly one of the three lists: only what is reported as
\* unknown may be either.  (attach_mutation_progress, parse_batch_result)
ProgressIsTrue ==
    (stage = "done" /\ doing = "idle") =>
        /\ report.changed \subseteq touched
        /\ report.same \cap touched = {}
        /\ report.changed \cup report.same \cup report.unknown = Paths
        /\ \A r, s \in {"changed", "same", "unknown"} :
               r # s => report[r] \cap report[s] = {}

\* A guarded program replaces or removes content other than the base it was
\* given only if the foreign program changed the path after the hash was
\* begun, and an inode other than the one it first saw only if the name was
\* given away after the last look at it; and a write changes the mode only
\* of a file whose mode changed after that look.  (A file that was saved
\* twice may have the old inode number again: no look tells it apart.)
\* (WRITE_SCRIPT, GUARDED_DELETE_SCRIPT, BATCH_EDIT_SCRIPT)
NoStaleOverwrite ==
    [][ LET lost == inode[names[P]] IN
        (names' # names /\ intrusions' = intrusions /\ names[P] # Absent) =>
          /\ (Guarded /\ lost.data # Base.data) => window # {}
          /\ (Guarded /\ names[P] # seen.id) => "entry" \in window
          /\ (~Batch /\ Op.op # "delete" /\ inode[tmp].mode # lost.mode) =>
                 window \cap {"entry", "reused", "mode"} # {} ]_scriptVars

=============================================================================
