\* What the stack's test of a cut location expects; three states, no fault.
SPECIFICATION Spec
CONSTANTS
  d1 = d1
  slow = slow
  l1 = l1
  l2 = l2
  Locations <- TwoLocations
  Subnet <- OwnSubnets
  States <- SomeStates
  Dns <- OneDns
  Speeds <- OneSpeed
  NoLimit = NoLimit
  None = None
  MaxFaults = 0
INVARIANTS
  CutComesThrough
