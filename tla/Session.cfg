\* One session, two overlapping validations, a revocation, the absolute cap inside the horizon.
SPECIFICATION FairSpec
CONSTANTS
  Session = {s1}
  Validator = {v1, v2}
  Revoker = {r1}
  Lifetime = 2
  Threshold = 1
  MaxLifetime = 4
  Horizon = 5
INVARIANTS KeptWarmStillDies
PROPERTIES ImplementsPromise OnlyOvertakenShortens NoResurrection EverySessionEnds
CHECK_DEADLOCK FALSE
