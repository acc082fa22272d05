---------------------------- MODULE MCLocalDisk -----------------------------
(***************************************************************************)
(* What the bridge keeps on the local disk, for TLC: the output store with *)
(* two operations (OutputStore), or an installation by two processes       *)
(* (Install).  A behaviour is of one of the two; they have no state in     *)
(* common.                                                                 *)
(***************************************************************************)
EXTENDS OutputStore, Install

VARIABLE part

-----------------------------------------------------------------------------
(* Two processes, two releases, two faults or kills, so that one can hit   *)
(* the rollback of the other, and one foreign edit.                        *)

MCProcs == {"p1", "p2"}
MCVersions == {"r1", "r2"}

Nothings == [v \in MCVersions |-> "absent"]
Have(v) == [Nothings EXCEPT ![v] = "same"]
Left(config, stable, mcp, skill, marker) ==
    [config |-> config, stable |-> stable, mcp |-> mcp, skill |-> skill, marker |-> marker]

MCHistories ==
    { [user |-> Left(None, None, None, None, None), bundles |-> Nothings],
      \* an old bridge without a stable link, its Skill copied
      [user |-> Left("v1", None, "r1", Copy, None), bundles |-> Have("r1")],
      \* r1 installed by this installer
      [user |-> Left("v2", "r1", Stable, "r1", "r1"), bundles |-> Have("r1")],
      \* r2 installed, its MCP entry registered by path
      [user |-> Left("v2", "r2", "r2", "r2", "r2"), bundles |-> Have("r2")],
      \* the Skill, or the release's place, is somebody else's
      [user |-> Left(None, None, None, Foreign, None), bundles |-> Nothings],
      [user |-> Left(None, None, None, None, None),
       bundles |-> [Nothings EXCEPT !["r2"] = "different"]],
      \* an entry and a link whose release is gone
      [user |-> Left("v1", "r1", None, None, None), bundles |-> Nothings] }

Does(what, v) == [op |-> what, release |-> v]
Both(x, y) == [p \in MCProcs |-> IF p = "p1" THEN x ELSE y]

MCCommands == { Both(Does("install", "r2"), Does("install", "r1")),
                Both(Does("install", "r2"), Does("install", "r2")),
                Both(Does("install", "r2"), Does("uninstall", "r2")),
                Both(Does("install", "r2"), Does("uninstall", "r1")) }

-----------------------------------------------------------------------------
MCInit ==
    /\ Init /\ InstallInit
    /\ part \in {"store", "install"}
    /\ part # "store" => maxEntries = 1 /\ kind = [c \in Op |-> "retain"]
    \* two of one release meet while it is published: over nothing, or over r1
    /\ job["p1"] = job["p2"] => bundles["r2"] = "absent" /\ user.config \in {None, "v2"}
    /\ part # "install" => bundles = Nothings /\ user.config = None /\ user.skill = None
                            /\ job["p2"] = Does("install", "r1")

MCNext ==
    \/ part = "store" /\ Next /\ UNCHANGED <<part, ivars>>
    \/ part = "install" /\ InstallNext /\ UNCHANGED <<part, vars>>

\* Nothing that OutputStore is fair to is due before an operation has begun, so
\* that its fairness asks nothing of the other part.
MCFairSpec == MCInit /\ [][MCNext]_<<part, vars, ivars>> /\ Fairness

=============================================================================
