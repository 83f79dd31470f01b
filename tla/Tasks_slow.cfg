CONSTANTS
  reencrypt = reencrypt  purge = purge  report = report  keyset = keyset
  w1 = w1  w2 = w2  NoRunner = NoRunner
  Tasks = {reencrypt, report}
  ResourceNames = {keyset}
  Resources <- ResourcesOf
  Mutating = {reencrypt}
  Resumable = {reencrypt}
  Idempotent = {}
  Runners = {w1, w2}
  Admins = {a1}
  MaxRuns = 2
  Batches = 1
  MaxClaimAttempts = 1
  FinishRetries = 1
  Troubles = {"crash", "cancel", "stop", "db", "bad request"}
  MaxTrouble = 2
  SlowRunners = TRUE
SPECIFICATION Spec
SYMMETRY Symmetry
INVARIANTS TypeOK ExclusiveLeases NoOrphanLocks EndedOnce CancelledBeforeStart SucceededIsComplete RunnerInv
PROPERTIES KeepsLife
CHECK_DEADLOCK FALSE
