\* Under fairness: a movement, its return, and a second movement or rollback; two
\* entitlement events, a death, one controller at a time, no lost lock connection.
CONSTANTS
  r1 = r1  r2 = r2  m1 = m1  m2 = m2  c1 = c1  c2 = c2  w1 = w1  w2 = w2  None = None
  Runtimes = {r1, r2}
  Home = r1
  Movements = {m1, m2}
  Controllers = {c1}
  Workers = {w1}
  MaxGen = 4
  MaxWrites = 1
  MaxEvents = 2
  MaxDeaths = 1
  MaxLost = 0
  MaxStalls = 0
  MaxLate = 0
  MaxReturns = 1
SPECIFICATION LiveSpec
INVARIANTS TypeOK
PROPERTIES MovementEnds
CHECK_DEADLOCK FALSE
