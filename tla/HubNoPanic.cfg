SPECIFICATION Spec
CONSTANTS
  Users = {u1}
  Conns = {c1}
  Notes = {n1}
  ChanCap = 1
  NoUser = NoUser
  NoConn = NoConn
INVARIANT NotifyNeverPanics
CHECK_DEADLOCK FALSE
