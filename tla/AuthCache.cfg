SPECIFICATION Spec
CONSTANTS
  p1 = p1
  p2 = p2
  p3 = p3
  w1 = w1
  w2 = w2
  NoEntry = NoEntry
  NoFlight = NoFlight
  Procs = {p1, p2, p3}
  Writers = {w1, w2}
  TTL = 2
  Grace = 1
SYMMETRY Symmetry
INVARIANT StaleBounded
CHECK_DEADLOCK FALSE
