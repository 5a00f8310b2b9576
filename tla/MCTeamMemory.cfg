CONSTANTS
  ann = ann
  bob = bob
  p1 = p1
  p2 = p2
  a1 = a1
  a2 = a2
  b1 = b1
  Users = { ann, bob }
  Proposals = { p1, p2 }
  Actors = { a1, a2, b1 }
  Author <- MCAuthor
  UserOf <- MCUserOf
  Clash <- NoClash
  MaxCalls = 1
SPECIFICATION Spec
INVARIANTS MainIsReviewed
