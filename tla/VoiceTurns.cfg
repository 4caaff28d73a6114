SPECIFICATION LiveSpec
CONSTANTS
  MaxTurns = 2
  MaxSegments = 2
  MaxFailures = 1
  MaxQueued = 1
  TtsCapacity = 1
  OutputCapacity = 1
  Lead = 1
  EventCapacity = 1
  ObsCapacity = 1
  Backlog = 1
INVARIANTS
  TypeOK
  OneTerminalEvent
  CompletedIsSpoken
  AdmissionFitsQueue
PROPERTIES
  TurnEnds
CHECK_DEADLOCK FALSE
