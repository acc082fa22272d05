SPECIFICATION MCSpec
CONSTANTS
  a = a
  b = b
  c = c
  s1 = s1
  Nothing = Nothing
  s2 = s2
  Call <- Calls
  Workload <- Workloads
  Sessions = 3
  Probes = 3
  Faults = {"give up", "death", "child", "tool", "capture", "identity"}
SYMMETRY Symmetric
INVARIANTS
  OneSession
  CapabilityFresh
  MutationHonest
  NoneForgotten
  RequestsArriveWhole
\* Calls and requests come to an end.
CHECK_DEADLOCK FALSE
