\* One failed post of the grant.
CONSTANTS
  o1 = o1  o2 = o2  w1 = w1  w2 = w2  NoOne = NoOne
  Orders = {o1}
  Workers = {w1, w2}
  MaxAttempts = 2
  MaxFailures = 1
  MaxCrashes = 0
  MaxStalls = 0
SPECIFICATION Spec
INVARIANTS NamesAgree
CHECK_DEADLOCK FALSE
