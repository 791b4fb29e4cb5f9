SPECIFICATION Spec
CONSTANTS
  Users = {u1}
  Ids = {t1}
  DefaultSets = {{}}
  Statuses = {todo}
  FirstStatus = todo
  Callers = {c1}
  Workers = {w1}
  TTL = 0
  MaxTime = 1
  None = None
PROPERTY AddIsStored
