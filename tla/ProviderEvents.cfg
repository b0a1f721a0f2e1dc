\* Webhooks race the worker's own accept; any statement but the first may fail.
SPECIFICATION FairSpec
CONSTANTS
  h1 = h1
  h2 = h2
  Event = {1, 2, 3, 4}
  ClassOf <- Classes
  Handler = {h1, h2}
  MaxAttempts = 2
INVARIANTS AckedEventsReflected
PROPERTIES RowKeepsEvidence EventuallyReflected
CHECK_DEADLOCK FALSE
