CONSTANTS
  p = p
  q = q
  r1 = r1
  r2 = r2
  a = a
  s1 = s1
  s2 = s2
  Broker = { p, q }
  Request = { r1, r2 }
  Action = { a }
  Session = { s1, s2 }
SPECIFICATION Spec
CHECK_DEADLOCK FALSE
SYMMETRY Symmetry
INVARIANTS NothingUnapproved GrantsAreSound
PROPERTIES DecidedOnce
