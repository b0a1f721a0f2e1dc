\* Two tokens, half a token per tick, three overlapping calls, room for a purge.
SPECIFICATION BucketSpec
CONSTANTS
  c1 = c1
  c2 = c2
  c3 = c3
  Call = {c1, c2, c3}
  Capacity = 4
  Refill = 1
  Unit = 2
  Stale = 8
  MaxFlight = 2
  Horizon = 11
SYMMETRY CallSymmetry
INVARIANTS NoOversubscription StaleIsFull
CHECK_DEADLOCK FALSE
