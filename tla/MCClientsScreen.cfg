\* Two clients, one request at a time, two writes.
SPECIFICATION Spec
CONSTANTS
  None = None
  Refused = Refused
  List = List
  c1 = c1
  c2 = c2
  Clients <- TwoClients
  Rank <- TwoRank
  Filters <- TwoFilters
  Slots = {k1}
  MaxWrites = 2
  MaxMoves = 2
INVARIANTS
  ScreenTypeOK
  AcknowledgedIsShown
  DeletesAsked
  RotatesWhatIsTicked
CHECK_DEADLOCK FALSE
