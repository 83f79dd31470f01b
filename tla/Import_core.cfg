\* One import of two batches, two workers, a retry, every kind of trouble but a
\* failing delete of the upload, three troubles in all.
CONSTANTS
  i1 = i1  i2 = i2  w1 = w1  w2 = w2  NoImport = NoImport
  Imports = {i1}
  Workers = {w1, w2}
  RowCount = 2
  BatchSize = 1
  MaxAttempts = 2
  Troubles <- TroublesOf
  MaxTrouble = 3
SPECIFICATION FairSpec
INVARIANTS TypeOK CompletedIsComplete FailedLeavesNothing FileWaits
PROPERTIES KeepsPromise UploadEnds 
ACTION_CONSTRAINT FirstFree
CHECK_DEADLOCK FALSE
