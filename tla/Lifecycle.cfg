SPECIFICATION Spec
CONSTANTS
  ua = ua
  ub = ub
  uc = uc
  r1 = r1
  p1 = p1
  p2 = p2
  NoProc = NoProc
  NoTarget = NoTarget
  Users = {ua, ub, uc}
  Rides = {r1}
  Procs = {p1, p2}
  Female = {}
  Routes <- LifecycleRoutes
  CreateSeats = {2, 3}
  CreateBooked = {0}
  EditSeats = {3}
  EditBooked = {0}
  EditHosts = {ua}
  MaxGen = 2
  Serializable = TRUE
SYMMETRY Symmetry
INVARIANT SeatsMatchBookings
INVARIANT NoOverbooking
PROPERTY DecisionsFinal
PROPERTY LedgerSpec
CHECK_DEADLOCK FALSE
