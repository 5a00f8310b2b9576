CONSTANTS
  p = p
  q = q
  r1 = r1
  r2 = r2
  a = a
  b = b
  Run = { r1, r2 }
  Job = { a, b }
  Executor = { p, q }
  Judged = { r1 }
  Restarts = FALSE
  MaxRecords = 3
SPECIFICATION Spec
CHECK_DEADLOCK FALSE
PROPERTIES ResumeRetainsWork
