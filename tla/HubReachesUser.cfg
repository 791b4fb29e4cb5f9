SPECIFICATION Spec
CONSTANTS
  Users = {u1}
  Conns = {c1, c2}
  Notes = {n1}
  ChanCap = 1
  NoUser = NoUser
  NoConn = NoConn
INVARIANT NotifyFindsConnection
CHECK_DEADLOCK FALSE
