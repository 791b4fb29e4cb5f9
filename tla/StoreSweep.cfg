SPECIFICATION FairSpec
CONSTANTS
  Users = {u1, u2}
  Ids = {d1, d2, t1}
  DefaultSets = {{d1}, {d2}}
  Statuses = {todo}
  FirstStatus = todo
  Callers = {c1}
  Workers = {w1}
  TTL = 1
  MaxTime = 2
  None = None
PROPERTIES
  SweepSparesFresh DeletedStaysDeleted ImplementsAtomicBoards ExpiredRowsSwept
