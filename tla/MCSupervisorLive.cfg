\* Liveness and refinement: no symmetry, one location, two configurations.
SPECIFICATION FairSpec
CONSTANTS
  l1 = l1
  l2 = l2
  Locations = {l1}
  Configs = {c1, c2}
  Procs = {p1, p2}
  Callers = {http, sampler}
  None = None
  Absent = Absent
  Inactive = Inactive
  CreatedRank <- TwoCreatedRank
  IdRank <- TwoIdRank
  Subnet <- OwnSubnets
  MaxFaults = 1
  MaxWrites = 1
PROPERTIES
  ImplementsTunnels
  ReloadReturns
  DeathIsReported
