\* Signups, OAuth callbacks and an import that fails and is run again, on a clean
\* export and on one with a malformed line, with or without a rejected row.
SPECIFICATION FairSpec
CONSTANTS
  e1 = e1
  e2 = e2
  i1 = i1
  i2 = i2
  q1 = q1
  q2 = q2
  Email = {e1, e2}
  Identity = {i1, i2}
  ProfileEmail <- OneProfile
  Request = {q1, q2}
  Lines = 3
  Exports <- TwoExports
  Rejects = {{}, {3}}
  ChunkSize = 2
  SignupOpen = TRUE
  Restarts = 1
  None = None
INVARIANTS CleanImportIsComplete MailIffSignup OAuthAccountIsLinked
PROPERTIES ImplementsDirectory ImportEnds
CHECK_DEADLOCK FALSE
