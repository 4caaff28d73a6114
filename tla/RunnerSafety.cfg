\* Production composition: one run contended by two requests; every command, crashes,
\* lost sessions and a movement.
CONSTANTS
  r1 = r1  r2 = r2  t1 = t1  t2 = t2  c1 = c1  c2 = c2
  Runs = {r1}
  Threads = {t1, t2}
  Conts = {c1, c2}
  Commands = {"start", "status", "cancel", "submit", "postpone"}
  Faults = {"crash", "crash_executing", "session_lost", "movement"}
  CustomerExecutionBarrier = TRUE
  MaxRevision = 4
  MaxFaults = 2
SPECIFICATION Spec
SYMMETRY Symmetry
INVARIANTS TypeOK AtMostOneUncertain UncertainIsRecorded OneExecutor DrainedIsQuiet OneAnswerable CopyIsCurrent
PROPERTIES ImplementsPlanRun
