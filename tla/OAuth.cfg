\* Two callbacks at once; trips with an id_token, to GitHub and of another browser; one rotation.
SPECIFICATION FairSpec
CONSTANTS
  Request = {r1, r2}
  Trip = {t1, t2, t3}
  Elsewhere = {t3}
  ApiTrip = {t2}
  MaxKey = 2
  None = None
INVARIANTS ExchangePaired UnknownKeyMeansOverlap
PROPERTIES RotationHeals
CHECK_DEADLOCK FALSE
