\* A request that outlives its limit or is cancelled next to one that runs
\* undisturbed; pids may be reused.  Or a job whose logs are read while they grow.
SPECIFICATION MCFairSpec
CONSTANTS
  Requests <- MCRequests
  Leaves <- MCLeaves
  Timed <- MCTimed
  Impatient <- MCImpatient
  Output = 2
  Maximum = 3
  Buffer = 2
  Pages = {1, 3}
  Parts = {1, 2, 4}
INVARIANTS
  ExitIsTrue
  LogsAreTrue
PROPERTIES
  CancelReaches
\* Every request comes to an end.
CHECK_DEADLOCK FALSE
