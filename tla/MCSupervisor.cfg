\* Two callers race; two locations with their own subnets.
SPECIFICATION Spec
CONSTANTS
  l1 = l1
  l2 = l2
  Locations <- TwoLocations
  Configs = {c1, c2}
  Procs = {p1, p2}
  Callers = {http, sampler}
  None = None
  Absent = Absent
  Inactive = Inactive
  CreatedRank <- TwoCreatedRank
  IdRank <- TwoIdRank
  Subnet <- OwnSubnets
  MaxFaults = 1
  MaxWrites = 1
SYMMETRY Symmetry

INVARIANTS
  SupTypeOK
  AccountedFor
  StartFindsNoProcess
  ReloadEstablishes
  UnchangedIsNotKilled
