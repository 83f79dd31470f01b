\* One session, two requests at a time; tokens and the session run out and are
\* renewed within the run.
CONSTANTS
  s1 = s1  s2 = s2  r1 = r1  r2 = r2  NoToken = NoToken
  Ids = {s1}
  Requests = {r1, r2}
  AccessLife = 2
  SessionLife = 3
  Grace = 1
  MaxTime = 4
  MaxRotations = 2
  MaxReissues = 1
SPECIFICATION Spec
SYMMETRY Symmetry
INVARIANTS TypeOK ExchangedOnce EndsInTime GoneUserIsOut
PROPERTIES KeepsPromise
CHECK_DEADLOCK FALSE
