\* One transient error while a suspension is carried out, under fairness.
CONSTANTS
  c1 = c1  c2 = c2  w1 = w1  w2 = w2  p1 = p1  NoOne = NoOne
  Components = {c1}
  Workers = {w1}
  Instances = {w1}
  InstanceOf <- OwnProcess
  MaxGen = 2
  MaxCrashes = 0
  MaxErrors = 1
  MaxStalls = 0
  MaxRetries = 1
SPECIFICATION LiveSpec
PROPERTIES SuspensionTakesEffect
CHECK_DEADLOCK FALSE
