\* After a first installation, a revocation overtakes a claimed reconcile; no fault is
\* needed.
CONSTANTS
  c1 = c1  c2 = c2  w1 = w1  w2 = w2  p1 = p1  NoOne = NoOne
  Components = {c1}
  Workers = {w1, w2}
  Instances = {w1, w2}
  InstanceOf <- OwnProcess
  MaxGen = 3
  MaxCrashes = 0
  MaxErrors = 0
  MaxStalls = 0
  MaxRetries = 0
SPECIFICATION Spec
INVARIANTS SuspendedIsClosed
CHECK_DEADLOCK FALSE
