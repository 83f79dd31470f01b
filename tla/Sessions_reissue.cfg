\* Two sessions; an access token may be re-issued once.
CONSTANTS
  s1 = s1  s2 = s2  r1 = r1  r2 = r2  NoToken = NoToken
  Ids = {s1, s2}
  Requests = {r1}
  AccessLife = 2
  SessionLife = 3
  Grace = 1
  MaxTime = 4
  MaxRotations = 2
  MaxReissues = 1
SPECIFICATION Spec
SYMMETRY Symmetry
INVARIANTS EndsInOneLifetime
CHECK_DEADLOCK FALSE
