\* The delete of the upload fails once, after the end was committed.
CONSTANTS
  i1 = i1  i2 = i2  w1 = w1  w2 = w2  NoImport = NoImport
  Imports = {i1}
  Workers = {w1, w2}
  RowCount = 2
  BatchSize = 1
  MaxAttempts = 2
  Troubles <- FileTrouble
  MaxTrouble = 1
SPECIFICATION Spec
INVARIANTS CompletedIsComplete
CHECK_DEADLOCK FALSE
