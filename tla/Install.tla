------------------------------ MODULE Install ------------------------------
(***************************************************************************)
(* `codex-ssh-bridge install --user --apply' and `uninstall' of            *)
(* src/src/cli/install.rs: a transaction over five things the local user   *)
(* owns (the bridge configuration, the stable executable's symlink, the    *)
(* MCP entry Codex keeps, the Skill and the identity marker), under one    *)
(* lock, with a journal and a compensating rollback.                       *)
(*                                                                         *)
(* Several processes run at once, each with its own release.  The release  *)
(* is copied into the managed directory BEFORE the lock is taken, and a    *)
(* finished installation removes every other release there.  A process     *)
(* may be killed, every local operation may fail, `codex' may do a thing   *)
(* and not say so, and another program of the same user may edit what the  *)
(* transaction touches.                                                    *)
(*                                                                         *)
(* A file's place holds a value: None, Foreign (not the bridge's), or the  *)
(* release its content names.  The MCP entry names the stable path         *)
(* (Stable) or, as older releases registered it, a release's executable.   *)
(***************************************************************************)
EXTENDS Naturals

CONSTANTS Procs,        \* the processes
          Versions,     \* the releases
          Histories,    \* what earlier sessions may have left: the initial states
          Commands,     \* who runs what: functions from Procs to [op, release]
          MaxFaults,    \* how many operations may fail or processes be killed
          MaxForeign    \* how many edits another program makes

None == "none"
Foreign == "foreign"
Stable == "stable path"
Copy == "managed copy"      \* a Skill directory of an older bridge, not a link
Artefacts == {"config", "stable", "mcp", "skill", "marker"}
Values == Versions \cup {None, Foreign, Stable, Copy, "v1", "v2"}

ASSUME InstallAssumption ==
  /\ Versions \cap {None, Foreign, Stable, Copy, "v1", "v2"} = {} /\ None \notin Procs
  /\ \A h \in Histories : /\ h.user \in [Artefacts -> Values]
                          /\ h.bundles \in [Versions -> {"absent", "same", "different"}]
  /\ Commands \subseteq [Procs -> [op : {"install", "uninstall"}, release : Versions]]

VARIABLES user,      \* what each artefact's place holds
          bundles,   \* each release in the managed directory: absent, same, different
          staging,   \* the processes whose private copy is still in that directory
          lock,      \* the holder of the installation lock, or None
          job, pc,   \* what each process runs, and where it is
          pre,       \* what its preflight found
          journal,   \* what it has done so far
          before,    \* ghost: the artefacts when it took the lock
          touched,   \* ghost: artefacts a foreign edit changed since then
          pulled,    \* ghost: releases their publisher removed again since then
          faults, edits

ivars == <<user, bundles, staging, lock, job, pc, pre, journal, before, touched,
           pulled, faults, edits>>

Ended == {"ok", "error", "incomplete", "killed"}
NoJournal == [done |-> {}, aside |-> [a \in Artefacts |-> None],
              failed |-> FALSE, unknown |-> FALSE, unseen |-> {}]
NoPreflight == [mcp |-> "Absent", skill |-> "Absent", marker |-> "Absent", migrate |-> FALSE]

InstallInit ==
  /\ \E h \in Histories : user = h.user /\ bundles = h.bundles
  /\ staging = {} /\ lock = None
  /\ job \in Commands
  /\ pc = [p \in Procs |-> IF job[p].op = "install" THEN "stage" ELSE "lock"]
  /\ pre = [p \in Procs |-> NoPreflight]
  /\ journal = [p \in Procs |-> NoJournal]
  /\ before = [p \in Procs |-> user]
  /\ touched = {} /\ pulled = {} /\ faults = 0 /\ edits = 0

-----------------------------------------------------------------------------
(* What a release's process sees of the user's state                       *)

Release(p) == job[p].release

\* resolve_layout: the package's files are all there and fit together
Resolves(v) == bundles[v] # "absent"

\* codex_get: an entry that runs an executable that is gone is refused
McpOf(v, m) ==
  CASE m = None                                     -> "Absent"
    [] m = Stable \/ (m = v /\ Resolves(v))          -> "Matching"
    [] m \in Versions \ {v} /\ Resolves(m)           -> "NeedsUpdate"
    [] OTHER                                        -> "Refused"

SkillOf(v) ==
  CASE user.skill = None                                             -> "Absent"
    [] user.skill = v /\ Resolves(v)                                 -> "Matching"
    [] user.skill = Copy                                             -> "NeedsUpdate"
    [] user.skill \in Versions \ {v} /\ Resolves(user.skill)         -> "NeedsUpdate"
    [] OTHER                                                         -> "Refused"

MarkerOf(v) ==
  CASE user.marker = None                -> "Absent"
    [] user.marker = v                   -> "Matching"
    [] user.marker \in Versions \ {v}    -> "NeedsUpdate"
    [] OTHER                             -> "Refused"

\* inspect_config_migration: a version-1 file is to be rewritten
Migrates == user.config = "v1"

-----------------------------------------------------------------------------
(* Steps                                                                   *)

Goto(p, l) == pc' = [pc EXCEPT ![p] = l]
Set(a, x) == user' = [user EXCEPT ![a] = x]
Finish(p, r) == Goto(p, r) /\ lock' = IF lock = p THEN None ELSE lock
Pay(n) == faults + n <= MaxFaults /\ faults' = faults + n
Free == faults' = faults
Log(p, r) == journal' = [journal EXCEPT ![p] = r]
Quiet == UNCHANGED <<bundles, staging, job, pre, before, touched, pulled, edits>>

\* What stood there is renamed to a private name next to it, then x is created
Replaced(p, a, x) ==
  /\ user' = [user EXCEPT ![a] = x]
  /\ Log(p, [journal[p] EXCEPT !.done = @ \cup {a}, !.aside[a] = user[a]])
\* ... or creating it fails, after the rename
Torn(p, a) ==
  /\ user' = [user EXCEPT ![a] = None]
  /\ Log(p, [journal[p] EXCEPT !.aside[a] = user[a]])
\* ... or x is in place and only the directory could not be synced
Late(p, a, x) ==
  /\ user' = [user EXCEPT ![a] = x]
  /\ Log(p, [journal[p] EXCEPT !.aside[a] = user[a], !.unseen = @ \cup {a}])

\* `codex mcp add' or `remove', which may do it or not, report it or not, and
\* the query after it, which may itself fail: <<entry, outcome, faults>>
Outcomes(v, entry, want) ==
  LET Cost(did, said, seen) == (IF did /\ said THEN 0 ELSE 1) + (IF seen THEN 0 ELSE 1)
      Now(did) == IF did THEN entry ELSE user.mcp
      Out(did, said, seen) ==
        CASE ~seen                                           -> "Unknown"
          [] seen /\ McpOf(v, Now(did)) = want /\ said       -> "Ok"
          [] seen /\ McpOf(v, Now(did)) = want /\ ~said      -> "Applied"
          [] seen /\ McpOf(v, Now(did)) \in {"Absent", "Matching"} \ {want} -> "NotApplied"
          [] OTHER                                           -> "Unknown"
  IN {<<Now(d), Out(d, s, q), Cost(d, s, q)>> : d, s, q \in BOOLEAN}

Add(v) == Outcomes(v, Stable, "Matching")
Remove(v) == Outcomes(v, None, "Absent")

\* The entry was changed and the journal cannot tell
Unseen(o) == IF o[2] = "Unknown" THEN {"mcp"} ELSE {}

-----------------------------------------------------------------------------
(* Before the lock: the release is copied into the managed directory       *)

Stage(p) ==
  /\ pc[p] = "stage"
  /\ CASE bundles[Release(p)] = "absent" ->
            /\ staging' = staging \cup {p}
            /\ Goto(p, "copying")
       [] bundles[Release(p)] = "same" -> Goto(p, "lock") /\ UNCHANGED staging
       [] OTHER -> Goto(p, "error") /\ UNCHANGED staging
  /\ UNCHANGED <<user, bundles, lock, job, pre, journal, before, touched, pulled, faults, edits>>

\* rename_noreplace; the private copy may have been pruned meanwhile
Publish(p) ==
  /\ pc[p] = "copying"
  /\ staging' = staging \ {p}
  /\ \/ /\ p \in staging /\ bundles[Release(p)] = "absent"
        /\ bundles' = [bundles EXCEPT ![Release(p)] = "same"]
        /\ Goto(p, "verify") /\ Free
     \/ /\ p \in staging /\ bundles[Release(p)] = "same"
        /\ Goto(p, "lock") /\ Free /\ UNCHANGED bundles
     \/ /\ p \notin staging \/ bundles[Release(p)] = "different"
        /\ Goto(p, "error") /\ Free /\ UNCHANGED bundles
     \/ p \in staging /\ Pay(1) /\ Goto(p, "error") /\ UNCHANGED bundles
  /\ UNCHANGED <<user, lock, job, pre, journal, before, touched, pulled, edits>>

\* What was published is resolved where it is now ...
Verify(p) ==
  /\ pc[p] = "verify"
  /\ \/ Resolves(Release(p)) /\ Goto(p, "lock") /\ Free
     \/ ~Resolves(Release(p)) /\ Goto(p, "withdraw") /\ Free
     \/ Pay(1) /\ Goto(p, "withdraw")
  /\ UNCHANGED <<user, lock, journal>> /\ Quiet

\* ... and removed if that fails: without the lock, whoever relies on it by now
Withdraw(p) ==
  /\ pc[p] = "withdraw" /\ Goto(p, "error")
  /\ \/ /\ bundles' = [bundles EXCEPT ![Release(p)] = "absent"]
        /\ pulled' = pulled \cup {Release(p)} /\ Free
     \/ Pay(1) /\ UNCHANGED <<bundles, pulled>>
  /\ UNCHANGED <<user, staging, lock, job, pre, journal, before, touched, edits>>

\* The layout is resolved once before the lock ...
ResolveFirst(p) ==
  /\ pc[p] = "lock"
  /\ Goto(p, IF Resolves(Release(p)) THEN "waiting" ELSE "error")
  /\ UNCHANGED <<user, lock, journal, faults>> /\ Quiet

\* ... acquire_install_lock: ten seconds of tries
AcquireLock(p) ==
  /\ pc[p] = "waiting"
  /\ \/ /\ lock = None
        /\ lock' = p /\ before' = [before EXCEPT ![p] = user] /\ touched' = {} /\ pulled' = {}
        /\ Goto(p, "preflight")
     \/ /\ lock # None
        /\ Goto(p, "error") /\ UNCHANGED <<lock, before, touched, pulled>>
  /\ UNCHANGED <<user, bundles, staging, job, pre, journal, faults, edits>>

\* Mutant: the preflight trusts the layout resolved before the lock
Accepts_Resolved_Before(p) ==
  LET v == Release(p) IN
  /\ SkillOf(v) # "Refused" /\ McpOf(v, user.mcp) # "Refused"
  /\ IF job[p].op = "install" THEN MarkerOf(v) # "Refused" /\ user.config # Foreign
                              ELSE MarkerOf(v) = "Matching"

\* install_preflight and uninstall_preflight, under the lock
Accepts(p) ==
  LET v == Release(p) IN
  /\ Resolves(v)
  /\ SkillOf(v) # "Refused" /\ McpOf(v, user.mcp) # "Refused"
  /\ IF job[p].op = "install" THEN MarkerOf(v) # "Refused" /\ user.config # Foreign
                              ELSE MarkerOf(v) = "Matching"

Preflight(p) ==
  /\ pc[p] = "preflight"
  /\ \/ /\ Accepts(p) /\ Free
        /\ pre' = [pre EXCEPT ![p] = [mcp |-> McpOf(Release(p), user.mcp),
                                      skill |-> SkillOf(Release(p)),
                                      marker |-> MarkerOf(Release(p)), migrate |-> Migrates]]
        /\ Goto(p, IF job[p].op = "install" THEN "config" ELSE "unregister")
        /\ UNCHANGED lock
     \/ ~Accepts(p) /\ Free /\ Finish(p, "error") /\ UNCHANGED pre
     \/ Pay(1) /\ Finish(p, "error") /\ UNCHANGED pre
  /\ UNCHANGED <<user, bundles, staging, job, journal, before, touched, pulled, edits>>

-----------------------------------------------------------------------------
(* install_user: the five steps                                            *)

\* A step stops the installation; it changed nothing
StepFails(p) ==
  /\ pc[p] \in {"config", "stable", "replace", "register", "skill", "marker"}
  /\ Pay(1) /\ Goto(p, "undo files")
  /\ UNCHANGED <<user, lock, journal>> /\ Quiet

MigrateConfig(p) ==
  /\ pc[p] = "config"
  /\ \/ ~pre[p].migrate /\ Goto(p, "stable") /\ Free /\ UNCHANGED <<user, journal>>
     \/ /\ pre[p].migrate /\ ~Migrates
        /\ Goto(p, "undo files") /\ Free /\ UNCHANGED <<user, journal>>
     \/ /\ pre[p].migrate /\ Migrates
        /\ \/ Replaced(p, "config", "v2") /\ Goto(p, "stable") /\ Free
           \/ Torn(p, "config") /\ Goto(p, "undo files") /\ Pay(1)
  /\ UNCHANGED lock /\ Quiet

\* ensure_stable_binary: only a link to a release that is there is replaced
EnsureStableBinary(p) ==
  /\ pc[p] = "stable"
  /\ LET managed == user.stable \in Versions /\ Resolves(user.stable) IN
     \/ /\ user.stable = Release(p) /\ managed
        /\ Goto(p, "replace") /\ Free /\ UNCHANGED <<user, journal>>
     \/ /\ user.stable # None /\ ~managed
        /\ Goto(p, "undo files") /\ Free /\ UNCHANGED <<user, journal>>
     \/ /\ user.stable = None \/ (managed /\ user.stable # Release(p))
        /\ \/ Replaced(p, "stable", Release(p)) /\ Goto(p, "replace") /\ Free
           \/ Torn(p, "stable") /\ Goto(p, "undo files") /\ Pay(1)
  /\ UNCHANGED lock /\ Quiet

\* Mutant: a removal `codex' did and reported as failed is not journaled
ReplaceMcp_Forgets(p) ==
  /\ pc[p] = "replace"
  /\ \/ /\ pre[p].mcp # "NeedsUpdate"
        /\ Goto(p, "register") /\ Free /\ UNCHANGED <<user, journal>>
     \/ /\ pre[p].mcp = "NeedsUpdate" /\ McpOf(Release(p), user.mcp) # "NeedsUpdate"
        /\ Goto(p, "undo files") /\ Free /\ UNCHANGED <<user, journal>>
     \/ /\ pre[p].mcp = "NeedsUpdate" /\ McpOf(Release(p), user.mcp) = "NeedsUpdate"
        /\ \E o \in Remove(Release(p)) :
             /\ user' = [user EXCEPT !.mcp = o[1]] /\ Pay(o[3])
             /\ Log(p, [journal[p] EXCEPT
                          !.done = @ \cup IF o[2] = "Ok" THEN {"removed"} ELSE {},
                          !.unseen = @ \cup Unseen(o)])
             /\ Goto(p, IF o[2] = "Ok" THEN "register" ELSE "undo files")
  /\ UNCHANGED lock /\ Quiet

\* An entry that runs another release is removed ...
ReplaceMcp(p) ==
  /\ pc[p] = "replace"
  /\ \/ /\ pre[p].mcp # "NeedsUpdate"
        /\ Goto(p, "register") /\ Free /\ UNCHANGED <<user, journal>>
     \/ /\ pre[p].mcp = "NeedsUpdate" /\ McpOf(Release(p), user.mcp) # "NeedsUpdate"
        /\ Goto(p, "undo files") /\ Free /\ UNCHANGED <<user, journal>>
     \/ /\ pre[p].mcp = "NeedsUpdate" /\ McpOf(Release(p), user.mcp) = "NeedsUpdate"
        /\ \E o \in Remove(Release(p)) :
             /\ user' = [user EXCEPT !.mcp = o[1]] /\ Pay(o[3])
             /\ Log(p, [journal[p] EXCEPT
                          !.done = @ \cup IF o[2] \in {"Ok", "Applied"} THEN {"removed"} ELSE {},
                          !.unseen = @ \cup Unseen(o)])
             /\ Goto(p, IF o[2] = "Ok" THEN "register" ELSE "undo files")
  /\ UNCHANGED lock /\ Quiet

\* ... and the stable path registered
RegisterMcp(p) ==
  /\ pc[p] = "register"
  /\ \/ /\ pre[p].mcp = "Matching"
        /\ Goto(p, "skill") /\ Free /\ UNCHANGED <<user, journal>>
     \/ /\ pre[p].mcp # "Matching" /\ user.mcp # None
        /\ Goto(p, "undo files") /\ Free /\ UNCHANGED <<user, journal>>
     \/ /\ pre[p].mcp # "Matching" /\ user.mcp = None
        /\ \E o \in Add(Release(p)) :
             /\ user' = [user EXCEPT !.mcp = o[1]] /\ Pay(o[3])
             /\ Log(p, [journal[p] EXCEPT
                          !.done = @ \cup IF o[2] \in {"Ok", "Applied"} THEN {"added"} ELSE {},
                          !.unknown = (o[2] = "Unknown"),
                          !.unseen = @ \cup Unseen(o)])
             /\ Goto(p, IF o[2] = "Ok" THEN "skill" ELSE "undo files")
  /\ UNCHANGED lock /\ Quiet

LinkSkill(p) ==
  /\ pc[p] = "skill"
  /\ \/ /\ pre[p].skill = "Matching"
        /\ Goto(p, "marker") /\ Free /\ UNCHANGED <<user, journal>>
     \/ /\ pre[p].skill # "Matching" /\ SkillOf(Release(p)) # pre[p].skill
        /\ Goto(p, "undo files") /\ Free /\ UNCHANGED <<user, journal>>
     \/ /\ pre[p].skill # "Matching" /\ SkillOf(Release(p)) = pre[p].skill
        /\ \/ Replaced(p, "skill", Release(p)) /\ Goto(p, "marker") /\ Free
           \/ Torn(p, "skill") /\ Goto(p, "undo files") /\ Pay(1)
  /\ UNCHANGED lock /\ Quiet

WriteMarker(p) ==
  /\ pc[p] = "marker"
  /\ \/ /\ pre[p].marker = "Matching"
        /\ Goto(p, "clean up") /\ Free /\ UNCHANGED <<user, journal>>
     \/ /\ pre[p].marker # "Matching" /\ MarkerOf(Release(p)) # pre[p].marker
        /\ Goto(p, "undo files") /\ Free /\ UNCHANGED <<user, journal>>
     \/ /\ pre[p].marker # "Matching" /\ MarkerOf(Release(p)) = pre[p].marker
        /\ \/ Replaced(p, "marker", Release(p)) /\ Goto(p, "clean up") /\ Free
           \/ Torn(p, "marker") /\ Goto(p, "undo files") /\ Pay(1)
           \/ Late(p, "marker", Release(p)) /\ Goto(p, "undo files") /\ Pay(1)
  /\ UNCHANGED lock /\ Quiet

\* cleanup_install_quarantine: from here on an error undoes nothing
CleansUp(p) ==
  /\ pc[p] = "clean up"
  /\ \/ /\ Log(p, [journal[p] EXCEPT !.aside = NoJournal.aside])
        /\ Goto(p, "prune") /\ Free /\ UNCHANGED lock
     \/ Pay(1) /\ Finish(p, "error") /\ UNCHANGED journal
  /\ UNCHANGED user /\ Quiet

\* prune_old_releases: every other release, and the copies others have begun; or
\* some of them, if it fails or is killed
Prune(p) ==
  /\ pc[p] = "prune"
  /\ \E gone \in SUBSET (Versions \ {Release(p)}) :
       /\ bundles' = [v \in Versions |-> IF v \in gone THEN "absent" ELSE bundles[v]]
       /\ \/ gone = Versions \ {Release(p)} /\ Finish(p, "ok") /\ Free
          \/ Pay(1) /\ \E r \in {"error", "killed"} : Finish(p, r)
  /\ \E gone \in SUBSET staging : staging' = staging \ gone
  /\ UNCHANGED <<user, job, pre, journal, before, touched, pulled, edits>>

-----------------------------------------------------------------------------
(* rollback_install                                                        *)

\* One operation of a rollback step may fail
OneFails == {{}} \cup {{a} : a \in Artefacts}

\* What was set aside goes back where nothing stands now (no-replace)
PutBack(now, aside, A) ==
  [a \in Artefacts |-> IF a \in A /\ aside[a] # None /\ now[a] = None THEN aside[a] ELSE now[a]]
Blocked(now, aside, A) == \E a \in A : aside[a] # None /\ now[a] # None

\* The new marker and Skill go, if they are still the ones this run wrote
UndoFiles(p) ==
  /\ pc[p] = "undo files"
  /\ LET j == journal[p]
         ours == (IF "marker" \in j.done /\ MarkerOf(Release(p)) = "Matching" THEN {"marker"} ELSE {})
                 \cup (IF "skill" \in j.done /\ SkillOf(Release(p)) = "Matching" THEN {"skill"} ELSE {})
     IN \E bad \in OneFails :
          /\ bad \subseteq ours
          /\ IF bad = {} THEN Free ELSE Pay(1)
          /\ user' = [a \in Artefacts |-> IF a \in ours \ bad THEN None ELSE user[a]]
          /\ Log(p, [j EXCEPT !.failed = @ \/ bad # {}])
  /\ Goto(p, "undo register") /\ UNCHANGED lock /\ Quiet

UndoRegister(p) ==
  /\ pc[p] = "undo register"
  /\ LET j == journal[p] IN
     \/ /\ "added" \notin j.done \/ McpOf(Release(p), user.mcp) # "Matching"
        /\ Free /\ UNCHANGED <<user, journal>>
     \/ /\ "added" \in j.done /\ McpOf(Release(p), user.mcp) = "Matching"
        /\ \E o \in Remove(Release(p)) :
             /\ user' = [user EXCEPT !.mcp = o[1]] /\ Pay(o[3])
             /\ Log(p, [j EXCEPT !.failed = @ \/ o[2] \notin {"Ok", "Applied"}])
     \/ "added" \in j.done /\ Pay(1) /\ Log(p, [j EXCEPT !.failed = TRUE]) /\ UNCHANGED user
  /\ Goto(p, "undo replace") /\ UNCHANGED lock /\ Quiet

\* What was removed is registered again, as the stable path
UndoReplace(p) ==
  /\ pc[p] = "undo replace"
  /\ LET j == journal[p] IN
     \/ /\ "removed" \notin j.done \/ McpOf(Release(p), user.mcp) = "Matching"
        /\ Free /\ UNCHANGED <<user, journal>>
     \/ /\ "removed" \in j.done /\ McpOf(Release(p), user.mcp) = "Absent"
        /\ \E o \in Add(Release(p)) :
             /\ user' = [user EXCEPT !.mcp = o[1]] /\ Pay(o[3])
             /\ Log(p, [j EXCEPT !.failed = @ \/ o[2] # "Ok"])
     \/ /\ "removed" \in j.done
        /\ IF McpOf(Release(p), user.mcp) \in {"NeedsUpdate", "Refused"} THEN Free ELSE Pay(1)
        /\ Log(p, [j EXCEPT !.failed = TRUE]) /\ UNCHANGED user
  /\ Goto(p, "undo stable") /\ UNCHANGED lock /\ Quiet

\* The stable link goes, whatever it is by now; then what was set aside returns
UndoStable(p) ==
  /\ pc[p] = "undo stable"
  /\ LET j == journal[p]
         ours == "stable" \in j.done
         now == [user EXCEPT !.stable = IF ours THEN None ELSE @]
         back == {"stable", "skill", "marker"}
     IN \E bad \in OneFails :
          /\ bad \subseteq {a \in back : j.aside[a] # None}
          /\ IF bad = {} THEN Free ELSE Pay(1)
          /\ user' = PutBack(now, j.aside, back \ bad)
          /\ Log(p, [j EXCEPT !.failed = \/ @ \/ bad # {} \/ (ours /\ user.stable = None)
                                         \/ Blocked(now, j.aside, back)])
  /\ Goto(p, "undo config") /\ UNCHANGED lock /\ Quiet

\* rollback_config_migration, and what the command reports
UndoConfig(p) ==
  /\ pc[p] = "undo config"
  /\ LET j == journal[p]
         changed == "config" \in j.done /\ user.config \notin {"v2", None}
         now == [user EXCEPT !.config = IF "config" \in j.done THEN None ELSE @]
     IN \/ /\ changed /\ Free /\ UNCHANGED user
           /\ Finish(p, "incomplete")
        \/ /\ ~changed /\ Free
           /\ user' = PutBack(now, j.aside, {"config"})
           /\ Finish(p, IF j.failed \/ j.unknown \/ Blocked(now, j.aside, {"config"})
                        THEN "incomplete" ELSE "error")
        \/ /\ j.aside["config"] # None /\ Pay(1) /\ UNCHANGED user
           /\ Finish(p, "incomplete")
  /\ UNCHANGED journal /\ Quiet

-----------------------------------------------------------------------------
(* uninstall_user                                                          *)

Unregister(p) ==
  /\ pc[p] = "unregister"
  /\ \/ /\ pre[p].mcp # "Matching"
        /\ Goto(p, "take skill") /\ Free /\ UNCHANGED <<user, journal>>
     \/ /\ pre[p].mcp = "Matching" /\ McpOf(Release(p), user.mcp) # "Matching"
        /\ Goto(p, "restore") /\ Free /\ UNCHANGED <<user, journal>>
     \/ /\ pre[p].mcp = "Matching" /\ McpOf(Release(p), user.mcp) = "Matching"
        /\ \E o \in Remove(Release(p)) :
             /\ user' = [user EXCEPT !.mcp = o[1]] /\ Pay(o[3])
             /\ Log(p, [journal[p] EXCEPT
                          !.done = @ \cup IF o[2] \in {"Ok", "Applied"} THEN {"removed"} ELSE {},
                          !.unknown = (o[2] = "Unknown"), !.unseen = @ \cup Unseen(o)])
             /\ Goto(p, IF o[2] = "Ok" THEN "take skill" ELSE "restore")
  /\ UNCHANGED lock /\ Quiet

\* The Skill and then the marker are set aside
TakeSkill(p) ==
  /\ pc[p] = "take skill"
  /\ \/ /\ pre[p].skill # "Matching"
        /\ Goto(p, "take marker") /\ Free /\ UNCHANGED <<user, journal>>
     \/ /\ pre[p].skill = "Matching" /\ SkillOf(Release(p)) = "Matching"
        /\ Torn(p, "skill") /\ Goto(p, "take marker") /\ Free
     \/ /\ pre[p].skill = "Matching"
        /\ IF SkillOf(Release(p)) = "Matching" THEN Pay(1) ELSE Free
        /\ Goto(p, "restore") /\ UNCHANGED <<user, journal>>
  /\ UNCHANGED lock /\ Quiet

TakeMarker(p) ==
  /\ pc[p] = "take marker"
  /\ \/ /\ MarkerOf(Release(p)) = "Matching"
        /\ Torn(p, "marker") /\ Goto(p, "delete marker") /\ Free
     \/ /\ IF MarkerOf(Release(p)) = "Matching" THEN Pay(1) ELSE Free
        /\ Goto(p, "restore") /\ UNCHANGED <<user, journal>>
  /\ UNCHANGED lock /\ Quiet

\* What was set aside is deleted, the marker first; a failure still undoes it all
DeleteMarker(p) ==
  /\ pc[p] = "delete marker"
  /\ \/ /\ Log(p, [journal[p] EXCEPT !.aside["marker"] = None, !.done = @ \cup {"deleted"}])
        /\ Goto(p, "delete skill") /\ Free
     \/ Goto(p, "restore") /\ Pay(1) /\ UNCHANGED journal
  /\ UNCHANGED <<user, lock>> /\ Quiet

DeleteSkill(p) ==
  /\ pc[p] = "delete skill"
  /\ \/ /\ Log(p, [journal[p] EXCEPT !.aside["skill"] = None])
        /\ Finish(p, "ok") /\ Free
     \/ /\ journal[p].aside["skill"] # None
        /\ Goto(p, "restore") /\ Pay(1) /\ UNCHANGED <<journal, lock>>
  /\ UNCHANGED user /\ Quiet

\* rollback_uninstall: a deleted marker is written anew
Restore(p) ==
  /\ pc[p] = "restore"
  /\ LET j == journal[p]
         rewrites == "deleted" \in j.done
         now == [user EXCEPT !.marker = IF rewrites /\ @ = None THEN Release(p) ELSE @]
         back == {"skill", "marker"}
     IN \E bad \in OneFails :
          /\ bad \subseteq {a \in back : j.aside[a] # None}
                           \cup IF rewrites THEN {"marker"} ELSE {}
          /\ IF bad = {} THEN Free ELSE Pay(1)
          /\ user' = PutBack(IF rewrites /\ "marker" \in bad THEN user ELSE now,
                             j.aside, back \ bad)
          /\ Log(p, [j EXCEPT !.failed = \/ bad # {} \/ Blocked(user, j.aside, back)
                                         \/ (rewrites /\ user.marker # None)])
  /\ Goto(p, "register again") /\ UNCHANGED lock /\ Quiet

RegisterAgain(p) ==
  /\ pc[p] = "register again"
  /\ LET j == journal[p]
         Report(bad) == Finish(p, IF j.failed \/ j.unknown \/ bad THEN "incomplete" ELSE "error")
     IN \/ "removed" \notin j.done /\ Free /\ Report(FALSE) /\ UNCHANGED user
        \/ /\ "removed" \in j.done
           /\ \E o \in Add(Release(p)) :
                /\ user' = [user EXCEPT !.mcp = o[1]] /\ Pay(o[3])
                /\ Report(o[2] \notin {"Ok", "Applied"})
  /\ UNCHANGED journal /\ Quiet

-----------------------------------------------------------------------------
(* The rest of the machine                                                 *)

\* The command is interrupted or its process killed; the lock goes with it
Killed(p) ==
  /\ pc[p] \notin Ended /\ Pay(1)
  /\ Finish(p, "killed")
  /\ UNCHANGED <<user, journal>> /\ Quiet

\* Another program of the same user takes no lock
ForeignEdit(a, x) ==
  /\ edits < MaxForeign /\ edits' = edits + 1
  /\ lock # None /\ user[a] # x
  /\ Set(a, x) /\ touched' = touched \cup {a}
  /\ UNCHANGED <<bundles, staging, lock, job, pc, pre, journal, before, pulled, faults>>

Installs(p) ==
  \/ Stage(p) \/ Publish(p) \/ Verify(p) \/ Withdraw(p)
  \/ ResolveFirst(p) \/ AcquireLock(p) \/ Preflight(p) \/ StepFails(p)
  \/ MigrateConfig(p) \/ EnsureStableBinary(p) \/ ReplaceMcp(p) \/ RegisterMcp(p)
  \/ LinkSkill(p) \/ WriteMarker(p) \/ CleansUp(p) \/ Prune(p)
  \/ UndoFiles(p) \/ UndoRegister(p) \/ UndoReplace(p) \/ UndoStable(p) \/ UndoConfig(p)

Uninstalls(p) ==
  \/ Unregister(p) \/ TakeSkill(p) \/ TakeMarker(p) \/ DeleteMarker(p) \/ DeleteSkill(p)
  \/ Restore(p) \/ RegisterAgain(p)

InstallNext == \/ \E p \in Procs : Installs(p) \/ Uninstalls(p) \/ Killed(p)
        \/ \E a \in Artefacts, x \in {None, Foreign} : ForeignEdit(a, x)

InstallSpec == InstallInit /\ [][InstallNext]_ivars

-----------------------------------------------------------------------------
(* Properties                                                              *)

\* p, holding the lock, reports result r in this step
Reports(p, r) == lock = p /\ pc[p] \notin Ended /\ pc'[p] = r

\* An artefact is as it was before the transaction.  Three exceptions: an MCP entry
\* that named a release's executable may come back as the stable path; a change the
\* code did not observe is not undone; and a new Skill link whose release its
\* publisher removed meanwhile dangles, and the rollback leaves it where it is.
IsBack(p, a) ==
  \/ user'[a] = before[p][a]
  \/ a \in journal[p].unseen
  \/ a = "mcp" /\ before[p]["mcp"] \in Versions /\ user'["mcp"] = Stable
  \/ /\ a = "skill" /\ user'["skill"] = Release(p)
     /\ job[p].op = "install" /\ Release(p) \in pulled

\* What a successful command promises
Installed(v) == /\ Resolves(v) \/ v \in pulled
                /\ user.stable = v /\ user.mcp \in {Stable, v}
                /\ user.skill = v /\ user.marker = v /\ user.config # "v1"
Uninstalled(v) == /\ user.marker = None /\ user.skill # v
                  /\ user.mcp \notin {Stable, v}

\* AllOrNothing: a command that reports an ordinary error, not an incomplete
\* rollback, leaves every artefact nobody else edited as it was, but for the
\* exceptions of IsBack, whatever failed, wherever it stopped and whatever ran
\* beside it; unless the error is of the cleanup after the last step
\* (install.rs:462, 464), which undoes nothing: then all is installed.
AllOrNothing ==
  [][\A p \in Procs : Reports(p, "error") =>
        IF pc[p] \in {"clean up", "prune"}
        THEN touched = {} => Installed(Release(p))'
        ELSE \A a \in Artefacts \ touched' : IsBack(p, a)]_ivars

\* OkMeansDone: a command that reports success, when nobody edited its
\* artefacts meanwhile, leaves all of them on ITS release (or, uninstalling,
\* none of them), also after other installations were killed half-way and while
\* others run.  The release is still in the managed directory, unless the process
\* that published it removed it again: that takes no lock (install.rs:706-710).
OkMeansDone ==
  [][\A p \in Procs : Reports(p, "ok") /\ touched = {} =>
        IF job[p].op = "install" THEN Installed(Release(p))' ELSE Uninstalled(Release(p))']_ivars

=============================================================================
