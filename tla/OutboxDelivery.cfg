\* Two orders for the name and two workers under a failed post, a crash and a
\* stalled lease.  Once everything is delivered or dead, nothing is left to do.
CONSTANTS
  o1 = o1  o2 = o2  w1 = w1  w2 = w2  NoOne = NoOne
  Orders = {o1, o2}
  Workers = {w1, w2}
  MaxAttempts = 2
  MaxFailures = 1
  MaxCrashes = 1
  MaxStalls = 1
SPECIFICATION LiveSpec
INVARIANTS TypeOK AppliedOnce DeliveredIsApplied
PROPERTIES OutcomeIsFinal Settles
CHECK_DEADLOCK FALSE
