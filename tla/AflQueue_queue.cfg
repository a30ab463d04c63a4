SPECIFICATION FairSpec
CONSTANTS
  SeedCount = 2
  MaxItems = 3
  MapSize = 2
  Lens = {3, 5}
  Times = {1}
  CalChances = 2
  LongQueue = 2
  Refused = {1}
  MayTrim = TRUE
  NewCounts = FALSE
INVARIANTS
  TypeOK
  RefsExact
  CountersExact
  SplicePartner
  TableComplete
  FavoredCover
PROPERTIES
  TakenUp
