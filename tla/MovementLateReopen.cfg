\* One movement, one controller, no crash: a job whose lease expired and whose operation
\* another worker finished reconciles after the fence.
CONSTANTS
  r1 = r1  r2 = r2  m1 = m1  m2 = m2  c1 = c1  c2 = c2  w1 = w1  w2 = w2  None = None
  Runtimes = {r1, r2}
  Home = r1
  Movements = {m1}
  Controllers = {c1}
  Workers = {w1, w2}
  MaxGen = 3
  MaxWrites = 0
  MaxEvents = 1
  MaxDeaths = 0
  MaxLost = 0
  MaxStalls = 1
  MaxLate = 1
  MaxReturns = 0
SPECIFICATION Spec
INVARIANTS SingleWriter
CHECK_DEADLOCK FALSE
