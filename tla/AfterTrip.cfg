SPECIFICATION Spec
CONSTANTS
  h = h
  a = a
  p1 = p1
  p2 = p2
  b = b
  Idle = Idle
  Users = {h, a, b}
  Host = h
  Active = {h, a}
  Procs = {p1, p2}
SYMMETRY Symmetry
INVARIANT MarkerOnce
INVARIANT RatingsBetweenTravellers
INVARIANT MembershipAgrees
INVARIANT ScreensHonest
INVARIANT TravellersAgree
CHECK_DEADLOCK FALSE
