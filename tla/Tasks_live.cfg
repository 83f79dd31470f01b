\* Two tasks that share a lock; only dead runners are taken over; two troubles.
CONSTANTS
  reencrypt = reencrypt  purge = purge  report = report  keyset = keyset
  w1 = w1  w2 = w2  NoRunner = NoRunner
  Tasks = {reencrypt, purge}
  ResourceNames = {keyset}
  Resources <- ResourcesOf
  Mutating = {reencrypt, purge}
  Resumable = {reencrypt}
  Idempotent = {}
  Runners = {w1, w2}
  Admins = {a1}
  MaxRuns = 2
  Batches = 1
  MaxClaimAttempts = 2
  FinishRetries = 1
  Troubles = {"crash", "cancel", "stop", "db", "bad request"}
  MaxTrouble = 2
  SlowRunners = FALSE
SPECIFICATION FairSpec
INVARIANTS ExclusiveBodies
PROPERTIES EventuallyEnds
CHECK_DEADLOCK FALSE
