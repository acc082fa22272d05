\* Two connections, a lock that an earlier one may have left, with or without its
\* owner in it, one kill and every other fault.
SPECIFICATION MCFairSpec
CONSTANTS
  Conn = {c1, c2}
  Nobody = nobody
  Gone = gone
  Tries = 2
  Kills = 1
  Faults = {"term", "disk", "loader", "old", "dispatcher", "no artifact"}
INVARIANTS
  OnlyVerifiedRuns
PROPERTIES
  ScriptsEnd
  ChildCallEnds
\* Every connection is made once.
CHECK_DEADLOCK FALSE
