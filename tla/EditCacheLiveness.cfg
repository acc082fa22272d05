\* Flushing needs no help from the client.
SPECIFICATION FairSpec
CONSTANTS
  Path = {1}
  Content = {gone, a}
  NoFile = gone
  Big = Big
  Size <- MCSize
  MaxBytes = 2
  Payload = {0, 1}
  Threshold = 1
  Call = {c1}
  Ops = {"edit", "observe", "discard", "sync"}
  MaxBatch = 1
  Faults = {"transient"}
  MaxGen = 2
  MaxForeign = 0
  None = None
PROPERTIES
  DirtySettles
