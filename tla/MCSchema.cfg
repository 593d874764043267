CONSTANTS
  p = p
  q = q
  p1 = p1
  p2 = p2
  q1 = q1
  NoCall = NoCall
  Processes = {p, q}
  Calls = {p1, p2, q1}
  Home <- MCHome
  NumAdded = 2
  MaxFaults = 2
SPECIFICATION FairSpec
INVARIANT ServedOnCompleteTable
INVARIANT MigratorsDoNotCollide
PROPERTY LockIsObtained
