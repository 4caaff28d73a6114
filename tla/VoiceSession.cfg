SPECIFICATION LiveSpec
CONSTANTS
  MaxSessions = 2
  MaxCandidates = 1
  MaxTurns = 1
  MaxFaults = 2
  MaxResets = 1
  MaxEvents = 4
  RetryLimit = 1
  FullDuplex = TRUE
INVARIANTS
  TypeOK
  ReportedEchoNeverConfirmed
  ActiveIsServed
  StopReleasesMicrophone
PROPERTIES
  SessionSettles
  CandidateEnds
CHECK_DEADLOCK FALSE
