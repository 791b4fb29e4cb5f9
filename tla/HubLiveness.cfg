SPECIFICATION FairSpec
CONSTANTS
  Users = {u1}
  Conns = {c1, c2}
  Notes = {n1, n2}
  ChanCap = 2
  NoUser = NoUser
  NoConn = NoConn
PROPERTIES StreamsEnd QueuedIsConsumed
CHECK_DEADLOCK FALSE
