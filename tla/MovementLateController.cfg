\* A controller that lost its lock connection reconciles after another one completed its
\* movement and a rollback of it has fenced the same database.
CONSTANTS
  r1 = r1  r2 = r2  m1 = m1  m2 = m2  c1 = c1  c2 = c2  w1 = w1  w2 = w2  None = None
  Runtimes = {r1, r2}
  Home = r1
  Movements = {m1, m2}
  Controllers = {c1, c2}
  Workers = {w1}
  MaxGen = 4
  MaxWrites = 0
  MaxEvents = 0
  MaxDeaths = 0
  MaxLost = 1
  MaxStalls = 0
  MaxLate = 1
  MaxReturns = 0
SPECIFICATION Spec
SYMMETRY Symmetry
INVARIANTS SourceStaysClosed
CHECK_DEADLOCK FALSE
