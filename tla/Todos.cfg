SPECIFICATION Spec
CONSTANTS
  Browsers = {b1, b2}
  Replicas = {rep1, rep2}
  Requests = {q1, q2}
  Users = {u1, u2}
  Tokens = {s1, s2}
  NoUser = NoUser
  NoToken = NoToken
  Absent = Absent
  Anywhere = Anywhere
SYMMETRY Symmetry
INVARIANTS TypeOK OneOwner NoGhosts
PROPERTIES PageMatchesSession UserReturnsOnlyByPost SessionKept
