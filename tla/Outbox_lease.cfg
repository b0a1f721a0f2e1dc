\* Two workers on one job: leases run out, attempts overlap.  Another job was left behind
\* by a change of provider.
SPECIFICATION FairSpec
CONSTANTS
  j1 = j1
  j2 = j2
  w1 = w1
  w2 = w2
  resend = resend
  postmark = postmark
  Job = {j1, j2}
  Worker = {w1, w2}
  SlotOf <- OwnSlots
  ProviderOf <- Stranded
  Adapter <- ResendWorkers
  Idempotent = {resend}
  MaxAttempts = 2
  ClaimBatch = 2
INVARIANTS SingleOwner IdempotentSendsOnce
PROPERTIES EveryJobSettles
CHECK_DEADLOCK FALSE
