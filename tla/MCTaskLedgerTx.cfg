CONSTANTS
  Task = { t1 }
  File = { f1 }
  MaxBatch = 2
  MaxEvents = 2
  Client = { c1, c2 }
  NoClient = NoClient
SPECIFICATION FairSpec
PROPERTIES ImplementsLedger CallsReturn
