SPECIFICATION Spec
CONSTANTS
  Task = {t1}
  File = {f1}
  MaxBatch = 2
  MaxEvents = 6
INVARIANTS
  LogIsLegalRun
  StampsMatchLog
  SettledUntilRetried
CHECK_DEADLOCK FALSE
