\* Three intents, two requests at a time, three in all, each of which may fail.
CONSTANTS
  i1 = i1  i2 = i2  i3 = i3  n1 = n1  c1 = c1  c2 = c2  q1 = q1  q2 = q2  None = None
  Intents = {i1, i2, i3}
  Notes = {n1}
  Commands = {c1, c2}
  Requests = {q1, q2}
  Active = {"working", "done"}
  MaxRequests = 3
SPECIFICATION Spec
SYMMETRY Symmetry
INVARIANTS MergesFormForest MergedAsSeen
PROPERTIES ClosedIsFinal
CHECK_DEADLOCK FALSE
