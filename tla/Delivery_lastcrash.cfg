CONSTANTS
  h1 = h1  h2 = h2  r1 = r1  t1 = t1  w1 = w1  w2 = w2
  Hosts = {hostA}
  NoHost = NoHost
  NoLog = NoLog
  Hooks = {h1}
  Responses = {r1}
  Tests = {}
  Workers = {w1, w2}
  MovedHooks = {}
  MaxAttempts = 2
  Troubles = {"crash"}
  MaxTrouble = 1
  Races = {}
SPECIFICATION Spec
INVARIANTS AtMostMaxAttempts
CHECK_DEADLOCK FALSE
