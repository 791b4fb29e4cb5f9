SPECIFICATION Spec
CONSTANTS
  Users = {u1, u2}
  Conns = {c1, c2, c3}
  Notes = {n1, n2}
  ChanCap = 1
  NoUser = NoUser
  NoConn = NoConn
SYMMETRY Symmetry
INVARIANTS TypeOK RegistrySound EndsForAReason UnreachableForAReason RightRecipient AtMostOnce
PROPERTY ImplementsDelivery
CHECK_DEADLOCK FALSE
