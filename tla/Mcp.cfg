SPECIFICATION SysFairSpec
CONSTANTS
  Id = {"i", "j"}
  Requests = 2
  Ids <- IdsToCheck
  Input = 1
  Capacity = 1
  Relays = 1
  Kinds <- KindsToCheck
  Faults = {"partial eof", "failed", "writer", "service"}
INVARIANTS
  AnswersInOrder
  NoForwardLeft
PROPERTIES
  EveryCallAnswered
  ServeEnds
CHECK_DEADLOCK FALSE
