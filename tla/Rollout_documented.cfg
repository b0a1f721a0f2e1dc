\* The rotation keyring.go describes, deployed replica by replica.
SPECIFICATION RolloutSpec
CONSTANTS
  r1 = r1
  r2 = r2
  r3 = r3
  old = old
  new = new
  Replica = {r1, r2, r3}
  FilesOf <- Builds
  None = None
  Job = {j1}
  Key = {old, new}
  Stages <- Documented
INVARIANTS NothingUnreadable
CHECK_DEADLOCK FALSE
