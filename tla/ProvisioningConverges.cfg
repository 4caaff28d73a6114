\* Two work() calls of one process, which share its lease owner, under fairness: a crash,
\* a stall and two entitlements, no errors.
CONSTANTS
  c1 = c1  c2 = c2  w1 = w1  w2 = w2  p1 = p1  NoOne = NoOne
  Components = {c1, c2}
  Workers = {w1, w2}
  Instances = {p1}
  InstanceOf <- OneProcess
  MaxGen = 2
  MaxCrashes = 1
  MaxErrors = 0
  MaxStalls = 1
  MaxRetries = 0
SPECIFICATION LiveSpec
PROPERTIES Converges
CHECK_DEADLOCK FALSE
