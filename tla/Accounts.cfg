SPECIFICATION Spec
CONSTANTS
  r1 = r1
  r2 = r2
  s1 = s1
  s2 = s2
  m1 = m1
  t1 = t1
  v1 = v1
  p1 = p1
  p2 = p2
  Request = {r1, r2}
  MagicLink = {m1}
  ResetLink = {t1}
  VerifyLink = {v1}
  Session = {s1, s2}
  Password = {p1, p2}
  FirstPassword = p1
  Strict = TRUE
  None = None
SYMMETRY Symmetry
INVARIANTS LinkOpensOneSession SpentLinkTookEffect StrictEvidence EvidenceIsTrue OnlyOverlapEscapes SomeoneProceeds
PROPERTIES CommitClosesMagic
CHECK_DEADLOCK FALSE
