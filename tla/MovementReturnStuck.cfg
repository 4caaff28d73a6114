\* A restore is interrupted, the movement is returned, and a second one tries again; under
\* fairness, no entitlement event.
CONSTANTS
  r1 = r1  r2 = r2  m1 = m1  m2 = m2  c1 = c1  c2 = c2  w1 = w1  w2 = w2  None = None
  Runtimes = {r1, r2}
  Home = r1
  Movements = {m1, m2}
  Controllers = {c1}
  Workers = {w1}
  MaxGen = 6
  MaxWrites = 0
  MaxEvents = 0
  MaxDeaths = 1
  MaxLost = 0
  MaxStalls = 0
  MaxLate = 0
  MaxReturns = 2
SPECIFICATION LiveSpec
PROPERTIES ReturnCompletes
CHECK_DEADLOCK FALSE
