SPECIFICATION FairSpec
CONSTANTS
  w1 = w1  w2 = w2  a1 = a1
  e1 = e1  e2 = e2  e3 = e3  e4 = e4  e5 = e5
  Worker = {w1, w2}
  Admin = {a1}
  Event = {e1, e2, e3}
  Attempts = 2
  MaxFailures = 1
  MaxCrashes = 1
  None = None
CHECK_DEADLOCK FALSE
INVARIANTS AttemptsBounded NotDisabledEarly
PROPERTY EveryEventSettles
