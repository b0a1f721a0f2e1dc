\* Two requests for one user and purpose, one worker, a provider without idempotency keys.
SPECIFICATION Spec
CONSTANTS
  j1 = j1
  j2 = j2
  w1 = w1
  w2 = w2
  resend = resend
  postmark = postmark
  Job = {j1, j2}
  Worker = {w1}
  SlotOf <- OneSlot
  ProviderOf <- AllPostmark
  Adapter <- PostmarkWorkers
  Idempotent = {resend}
  MaxAttempts = 2
  ClaimBatch = 2
INVARIANTS PayloadIffPending SupersededIsCanceled NewestLinkWins
PROPERTIES ImplementsMail
CHECK_DEADLOCK FALSE
