\* One client edits batches of two paths against foreign writers and its own
\* commands: partial commits, conflicts, permanent errors, failed commands and
\* immediate writes of contents that do not fit the cache.
SPECIFICATION Spec
CONSTANTS
  Path = {1, 2}
  Content = {gone, a, Big}
  NoFile = gone
  Big = Big
  Size <- MCSize
  MaxBytes = 2
  Payload = {0}
  Threshold = 1
  Call = {c1}
  Ops = {"edit", "run"}
  MaxBatch = 2
  Faults = {"permanent", "unknown", "foreign", "runfails"}
  MaxGen = 2
  MaxForeign = 1
  None = None
INVARIANTS
  NoSilentLoss
  GuardMatchesText
