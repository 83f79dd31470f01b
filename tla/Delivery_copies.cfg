\* A submission and a test event of a moved webhook, two hosts to edit it to, and the
\* switch that may come back on while a job is still parking its retry.
CONSTANTS
  h1 = h1  h2 = h2  r1 = r1  t1 = t1  w1 = w1  w2 = w2
  Hosts = {hostA, hostB}
  NoHost = NoHost
  NoLog = NoLog
  Hooks = {h1}
  Responses = {r1}
  Tests = {t1}
  Workers = {w1}
  MovedHooks = {h1}
  MaxAttempts = 2
  Troubles = {"edit", "erase", "form", "purge", "switch"}
  MaxTrouble = 2
  Races = {"parking"}
SPECIFICATION Spec
INVARIANTS PinnedDestination
PROPERTIES NoResurrection
CHECK_DEADLOCK FALSE
