\* Three replicas, one of an older build, boot, crash, are signalled and are
\* redeployed through a key rotation that teaches the new key before using it.
SPECIFICATION FairRollout
CONSTANTS
  r1 = r1
  r2 = r2
  r3 = r3
  old = old
  new = new
  Replica = {r1, r2, r3}
  FilesOf <- Builds
  None = None
  Job = {j1}
  Key = {old, new}
  Stages <- Careful
INVARIANTS MigratedOnce InOrder ServesMigrated NothingUnreadable
PROPERTIES BootEnds
CHECK_DEADLOCK FALSE
