\* An edit loads a file, a command rewrites it, another call reloads it.
SPECIFICATION Spec
CONSTANTS
  Path = {1}
  Content = {gone, a, b}
  NoFile = gone
  Big = Big
  Size <- MCSize
  MaxBytes = 2
  Payload = {0}
  Threshold = 1
  Call = {c1, c2}
  Ops = {"edit", "read", "run"}
  MaxBatch = 1
  Faults = {}
  MaxGen = 1
  MaxForeign = 1
  None = None
SYMMETRY Symmetric
INVARIANTS
  GuardMatchesText
