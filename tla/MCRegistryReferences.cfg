\* One client, one location, two requests, no fault.
SPECIFICATION Spec
CONSTANTS
  c1 = c1
  c2 = c2
  l1 = l1
  l2 = l2
  r1 = r1
  r2 = r2
  Clients <- OneClient
  Locations <- OneLocation
  ClientOf <- OnlyOne
  Requests <- TwoRequests
  None = None
  MaxKeys = 2
  MaxArchives = 1
  MaxFaults = 0
SYMMETRY Symmetry
INVARIANTS
  ReferencesHold
