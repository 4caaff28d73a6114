\* Two components and two provisioner processes under an error, two stalls and an
\* operator retry, across two entitlement events.  Idle workers with nothing to claim stop.
CONSTANTS
  c1 = c1  c2 = c2  w1 = w1  w2 = w2  p1 = p1  NoOne = NoOne
  Components = {c1, c2}
  Workers = {w1, w2}
  Instances = {w1, w2}
  InstanceOf <- OwnProcess
  MaxGen = 2
  MaxCrashes = 0
  MaxErrors = 1
  MaxStalls = 2
  MaxRetries = 1
SPECIFICATION Spec
SYMMETRY Symmetry
INVARIANTS TypeOK GrantIsServed ReadyIsEarned
PROPERTIES IdentityNeverRegresses
CHECK_DEADLOCK FALSE
