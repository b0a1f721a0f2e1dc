\* The reduction in a webhook handler fails after the event was inserted, and the
\* provider sends it again; the worker does not fail.
SPECIFICATION HandlerFaults
CONSTANTS
  h1 = h1
  h2 = h2
  Event = {1, 2, 3}
  ClassOf <- Classes
  Handler = {h1, h2}
  MaxAttempts = 2
INVARIANTS RetryIsSafe
CHECK_DEADLOCK FALSE
