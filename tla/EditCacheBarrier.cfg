\* Two concurrent calls edit, observe and read one path; barriers are
\* abandoned, connections and fetches fail, the payload threshold and the timer
\* flush, and the client may close its end at any time.
SPECIFICATION Spec
CONSTANTS
  Path = {1}
  Content = {gone, a}
  NoFile = gone
  Big = Big
  Size <- MCSize
  MaxBytes = 2
  Payload = {0, 1}
  Threshold = 1
  Call = {c1, c2}
  Ops = {"edit", "observe", "read"}
  MaxBatch = 1
  Faults = {"transient", "fetch", "leave", "close", "abort"}
  MaxGen = 2
  MaxForeign = 0
  None = None
SYMMETRY Symmetric
INVARIANTS
  BarrierSound
  ShutdownSound
PROPERTIES
  WriteBackInvisible
  NoLostBufferedEdit
\* The bridge stops after the shutdown flush.
CHECK_DEADLOCK FALSE
