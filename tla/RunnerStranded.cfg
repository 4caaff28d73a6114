\* A restart catches one run executing and another just admitted.
CONSTANTS
  r1 = r1  r2 = r2  t1 = t1  t2 = t2  c1 = c1  c2 = c2
  Runs = {r1, r2}
  Threads = {t1, t2}
  Conts = {c1}
  Commands = {"start", "status"}
  Faults = {"crash", "crash_executing"}
  CustomerExecutionBarrier = TRUE
  MaxRevision = 2
  MaxFaults = 2
SPECIFICATION FairSpec
PROPERTY AdmittedRunsProceed
