\* One client, two locations, two bytes, both modes of the quota lock.
SPECIFICATION FairSpec
CONSTANTS
  c1 = c1
  l1 = l1
  l2 = l2
  Clients <- OneClient
  Locations <- TwoLocations
  ClientOf <- BothOfOne
  CreatedRank <- OldAndNew
  Quotas <- NoneOrTwo
  NoQuota = NoQuota
  None = None
  MaxSent = 2
  MaxChanges = 1
  MaxFaults = 1
INVARIANTS
  SamplerTypeOK
  NeverOvercharged
  ChargedExactly
PROPERTIES
  CrossingStops
