SPECIFICATION Spec
CONSTANTS
  ua = ua
  ub = ub
  r1 = r1
  p1 = p1
  p2 = p2
  NoProc = NoProc
  NoTarget = NoTarget
  Users = {ua, ub}
  Rides = {r1}
  Procs = {p1, p2}
  Female = {ua}
  Routes <- AllRoutes
  CreateSeats = {2}
  CreateBooked = {0, 1}
  EditSeats = {3}
  EditBooked = {0}
  EditHosts = {ua}
  MaxGen = 1
  Serializable = FALSE
SYMMETRY ProcSymmetry
INVARIANT BookedInBounds
CHECK_DEADLOCK FALSE
