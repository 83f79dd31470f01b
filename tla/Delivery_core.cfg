\* One hook and one submission, two workers, every kind of trouble but the purge,
\* no late worker or job.
CONSTANTS
  h1 = h1  h2 = h2  r1 = r1  t1 = t1  w1 = w1  w2 = w2
  Hosts = {hostA}
  NoHost = NoHost
  NoLog = NoLog
  Hooks = {h1}
  Responses = {r1}
  Tests = {}
  Workers = {w1, w2}
  MovedHooks = {}
  MaxAttempts = 2
  Troubles = {"crash", "db", "queue", "edit", "erase", "form", "switch"}
  MaxTrouble = 2
  Races = {}
SPECIFICATION FairSpec
INVARIANTS TypeOK ErasureWins SingleSender RepeatsAreLosses AttemptsBounded DeliveryInv
PROPERTIES KeepsPromise EventuallySettled
CHECK_DEADLOCK FALSE
