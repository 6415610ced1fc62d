\* Two locations with one subnet, three states, two faults.
SPECIFICATION Spec
CONSTANTS
  d1 = d1
  slow = slow
  l1 = l1
  l2 = l2
  Locations <- TwoLocations
  Subnet <- OneSubnet
  States <- SomeStates
  Dns <- OneDns
  Speeds <- OneSpeed
  NoLimit = NoLimit
  None = None
  MaxFaults = 2
INVARIANTS
  NetstackTypeOK
  EnsuredIsReal
  StoppedLeavesNothing
  EnsureComesThrough
