\* Captures, internal captures and retentions share a quota of three bytes and
\* one or two entry slots; files cannot be made, written or unlinked.  Or two
\* processes install, upgrade or uninstall.
SPECIFICATION MCFairSpec
CONSTANTS
  Op = {o1, o2}
  Kinds = {"capture", "internal", "retain"}
  Limit = 3
  MaxOutput = 2
  Spill = 1
  EntryLimits = {1, 2}
  Jobs = 1
  Faults = {"io", "remove", "cancel"}
  Procs <- MCProcs
  Versions <- MCVersions
  Histories <- MCHistories
  Commands <- MCCommands
  MaxFaults = 2
  MaxForeign = 1
INVARIANTS
  AccountsAgree
  NothingLeaks
PROPERTIES
  RetentionSettles
  AllOrNothing
  OkMeansDone
\* Every operation is made once, and installations end.
CHECK_DEADLOCK FALSE
