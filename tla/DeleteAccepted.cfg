SPECIFICATION Spec
CONSTANTS
  ua = ua
  ub = ub
  uc = uc
  r1 = r1
  p1 = p1
  p2 = p2
  NoProc = NoProc
  NoTarget = NoTarget
  Users = {ua, ub, uc}
  Rides = {r1}
  Procs = {p1, p2}
  Female = {}
  Routes <- DeleteRoutes
  CreateSeats = {3}
  CreateBooked = {0}
  EditSeats = {3}
  EditBooked = {0}
  EditHosts = {ua}
  MaxGen = 1
  Serializable = TRUE
SYMMETRY Symmetry
PROPERTY AcceptedRidesStay
CHECK_DEADLOCK FALSE
