CONSTANTS
  reencrypt = reencrypt  purge = purge  report = report  keyset = keyset
  w1 = w1  w2 = w2  NoRunner = NoRunner
  Tasks = {reencrypt}
  ResourceNames = {keyset}
  Resources <- ResourcesOf
  Mutating = {reencrypt}
  Resumable = {reencrypt}
  Idempotent = {}
  Runners = {w1, w2}
  Admins = {a1, a2}
  MaxRuns = 3
  Batches = 1
  MaxClaimAttempts = 1
  FinishRetries = 1
  Troubles = {}
  MaxTrouble = 0
  SlowRunners = FALSE
SPECIFICATION Spec
INVARIANTS ResumedOnce
CHECK_DEADLOCK FALSE
