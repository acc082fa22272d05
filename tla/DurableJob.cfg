\* One job and two helpers that start, cancel and delete it, with failures at
\* every step, crashes, a reboot and a command that ignores signals.
SPECIFICATION FairSpec
CONSTANTS
  Job = {j1}
  Helper = {h1, h2}
  Ops = {"start", "cancel", "delete"}
  Faults = {"io", "slow", "stdin", "timeout", "fork", "helper", "runner", "reboot"}
  MaxBoot = 2
  None = None
INVARIANTS
  OutcomeIsTrue
  SupervisedIsKept
PROPERTIES
  TerminalIsFinal
  CancelSettles
