SPECIFICATION Spec
CONSTANTS
  Users = {u1}
  Ids = {t1, t2}
  DefaultSets = {{}}
  Statuses = {todo}
  FirstStatus = todo
  Callers = {c1, c2}
  Workers = {w1}
  TTL = 0
  MaxTime = 0
  None = None
PROPERTY AddOnlyAdds
