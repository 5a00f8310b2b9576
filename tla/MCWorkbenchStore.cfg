CONSTANTS
  p = p
  q = q
  k1 = k1
  NoClient = NoClient
  Client = { p, q }
  Key = { k1 }
  MaxItems = 2
  MaxStamp = 2
  Kinds = { "append", "update", "rewrite", "list" }
  StartStates = { "absent", "corrupt" }
SPECIFICATION FairSpec
PROPERTIES CallsReturn
