CONSTANTS
  p = p
  q = q
  k1 = k1
  k2 = k2
  NoClient = NoClient
  Client = { p, q }
  Key = { k1 }
  MaxItems = 2
  MaxStamp = 1
  Kinds = { "append", "rewrite" }
  StartStates = { "absent" }
SPECIFICATION Spec
PROPERTIES ItemsAreKept
