SPECIFICATION Spec
CONSTANTS
  MaxTurns = 1
  MaxSegments = 4
  MaxFailures = 0
  MaxQueued = 1
  TtsCapacity = 1
  OutputCapacity = 1
  Lead = 1
  EventCapacity = 1
  ObsCapacity = 1
  Backlog = 1
INVARIANTS
  LongSpeechIsNotRejected
CHECK_DEADLOCK FALSE
