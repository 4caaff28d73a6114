\* A move that may be returned and a second movement or rollback, two controllers, a death, one
\* entitlement event; no lock connection is lost.
CONSTANTS
  r1 = r1  r2 = r2  m1 = m1  m2 = m2  c1 = c1  c2 = c2  w1 = w1  w2 = w2  None = None
  Runtimes = {r1, r2}
  Home = r1
  Movements = {m1, m2}
  Controllers = {c1, c2}
  Workers = {w1}
  MaxGen = 4
  MaxWrites = 1
  MaxEvents = 1
  MaxDeaths = 1
  MaxLost = 0
  MaxStalls = 0
  MaxLate = 0
  MaxReturns = 1
SPECIFICATION Spec
SYMMETRY Symmetry
INVARIANTS SingleWriter NothingLost GrantNamesOnePlacement SourceStaysClosed
CHECK_DEADLOCK FALSE
