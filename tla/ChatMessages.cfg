SPECIFICATION Spec
CONSTANTS
  ua = ua
  ub = ub
  a1 = a1
  a2 = a2
  b1 = b1
  m1 = m1
  Users = {ua, ub}
  Conns = {a1, a2}
  Owner <- MCOwner
  Msgs = {m1}
  Cap = 2
  Pushed = {ua}
  NoConn = NoConn
INVARIANT NobodyMissed
PROPERTY ConnectionsEnd
CHECK_DEADLOCK FALSE
