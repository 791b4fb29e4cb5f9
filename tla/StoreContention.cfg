SPECIFICATION Spec
CONSTANTS
  Users = {u1, u2}
  Ids = {t1}
  DefaultSets = {{}}
  Statuses = {todo, done}
  FirstStatus = todo
  Callers = {c1, c2}
  Workers = {w1, w2}
  TTL = 0
  MaxTime = 1
  None = None
SYMMETRY Symmetry
INVARIANTS TypeOK OneCardPerId OwnTickets
PROPERTY UncontendedWritesExact
