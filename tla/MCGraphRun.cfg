CONSTANTS
  a = a
  b = b
  c = c
  d = d
  Node = { a, b, c }
  Main = Main
  NoGroup = NoGroup
  NoNode = NoNode
  Documents <- MCDocuments
  UserMoves = { "waiting", "running", "cancelled" }
  Interrupts = TRUE
SPECIFICATION FairSpec
INVARIANTS LedgerTracksStatus JobsWithinLimits UndoneIffFailed
PROPERTIES KeepsPromise RunEnds CancelStops
