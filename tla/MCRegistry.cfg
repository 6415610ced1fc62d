\* One client, one location, two requests, one fault.
SPECIFICATION Spec
CONSTANTS
  c1 = c1
  c2 = c2
  l1 = l1
  l2 = l2
  r1 = r1
  r2 = r2
  Clients <- OneClient
  Locations <- OneLocation
  ClientOf <- OnlyOne
  Requests <- TwoRequests
  None = None
  MaxKeys = 2
  MaxArchives = 1
  MaxFaults = 1
SYMMETRY Symmetry
INVARIANTS
  RegistryTypeOK
  ForeignKeysComeBack
  DanglingIsLoose
  RestoreEstablishes
