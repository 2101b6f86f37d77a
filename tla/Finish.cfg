SPECIFICATION FairSpec
CONSTANTS
  ua = ua
  ub = ub
  r1 = r1
  p1 = p1
  p2 = p2
  p3 = p3
  NoProc = NoProc
  NoTarget = NoTarget
  Users = {ua, ub}
  Rides = {r1}
  Procs = {p1, p2, p3}
  Female = {}
  Routes <- LockingRoutes
  CreateSeats = {2}
  CreateBooked = {0}
  EditSeats = {3}
  EditBooked = {0}
  EditHosts = {ua}
  MaxGen = 1
  Serializable = TRUE
PROPERTY RequestsFinish
CHECK_DEADLOCK FALSE
