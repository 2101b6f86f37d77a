SPECIFICATION Spec
CONSTANTS
  ua = ua
  ub = ub
  a1 = a1
  a2 = a2
  b1 = b1
  Users = {ua, ub}
  Conns = {a1, a2, b1}
  Owner <- MCOwner
  Msgs = {}
  Cap = 2
  Pushed = {}
  NoConn = NoConn
INVARIANT ChannelsSafe
INVARIANT PresenceHonest
CHECK_DEADLOCK FALSE
