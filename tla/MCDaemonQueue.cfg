CONSTANTS
  w1 = w1
  w2 = w2
  t1 = t1
  t2 = t2
  NoTask = NoTask
  Worker = { w1, w2 }
  Task = { t1, t2 }
  Legacy = 1
  MaxQueue = 2
  MaxPauses = 1
  Faults = TRUE
SPECIFICATION Spec
CHECK_DEADLOCK FALSE
INVARIANTS OneChildPerItem RunsAgainOnlyIfPaused
