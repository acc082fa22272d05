\* One command that may leave a process behind, over a connection that may fail
\* and a helper that may lose a cancellation or stop answering.
SPECIFICATION FairSpec
CONSTANTS
  Request = {r1}
  Command = {r1}
  QueueCap = 1
  PipeCap = 1
  MaxOutput = 1
  Offspring = {"quiet", "output"}
  Faults = {"link", "wedge", "reorder"}
  None = None
INVARIANTS
  ContinuationIsTrue
  OutputComplete
PROPERTIES
  EveryCallReturns
  HelperGoes
\* A session serves finitely many requests.
CHECK_DEADLOCK FALSE
