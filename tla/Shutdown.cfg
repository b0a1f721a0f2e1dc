\* The code's constants in units of five seconds.
SPECIFICATION FairSpec
CONSTANTS
  ClaimBatch = 4
  SendTimeout = 4
  FinalizeTimeout = 1
  LeaseDuration = 24
  ShutdownTimeout = 6
  ClaimTime = 3
INVARIANTS LeaseCoversBatch
PROPERTIES SignalEndsProcess OneDeliveryDrains
CHECK_DEADLOCK FALSE
