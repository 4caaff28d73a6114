\* A cancellation races the start of an attempt.
CONSTANTS
  r1 = r1  r2 = r2  t1 = t1  t2 = t2  c1 = c1  c2 = c2
  Runs = {r1}
  Threads = {t1, t2}
  Conts = {c1}
  Commands = {"start", "status", "cancel"}
  Faults = {}
  CustomerExecutionBarrier = TRUE
  MaxRevision = 2
  MaxFaults = 0
SPECIFICATION Spec
PROPERTY NoAttemptAfterCancel
