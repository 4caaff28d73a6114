\* Replicas restart, and a movement pauses and moves the database, while requests start and read runs.
CONSTANTS
  r1 = r1  r2 = r2  t1 = t1  t2 = t2  c1 = c1  c2 = c2
  Runs = {r1, r2}
  Threads = {t1, t2}
  Conts = {}
  Commands = {"start", "status"}
  Faults = {"crash", "movement"}
  CustomerExecutionBarrier = TRUE
  MaxRevision = 2
  MaxFaults = 1
SPECIFICATION FairSpec
PROPERTIES AdmittedRunsProceed PauseDrains
