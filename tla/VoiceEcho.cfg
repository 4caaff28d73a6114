SPECIFICATION Spec
CONSTANTS
  MaxSessions = 1
  MaxCandidates = 1
  MaxTurns = 1
  MaxFaults = 0
  MaxResets = 0
  MaxEvents = 3
  RetryLimit = 1
  FullDuplex = TRUE
INVARIANTS
  EchoNeverConfirmed
CHECK_DEADLOCK FALSE
