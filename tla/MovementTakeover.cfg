\* One lost lock connection while a return is published, then a second move.
CONSTANTS
  r1 = r1  r2 = r2  m1 = m1  m2 = m2  c1 = c1  c2 = c2  w1 = w1  w2 = w2  None = None
  Runtimes = {r1, r2}
  Home = r1
  Movements = {m1, m2}
  Controllers = {c1, c2}
  Workers = {w1}
  MaxGen = 4
  MaxWrites = 0
  MaxEvents = 0
  MaxDeaths = 0
  MaxLost = 1
  MaxStalls = 0
  MaxLate = 0
  MaxReturns = 1
SPECIFICATION Spec
SYMMETRY Symmetry
INVARIANTS SingleWriter
CHECK_DEADLOCK FALSE
