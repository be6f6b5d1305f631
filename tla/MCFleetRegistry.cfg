SPECIFICATION FairSpec
CONSTANTS
  Devices = {site1}
  HoldoutSize = 20
  Rates = {0, 1, 4}
  TiesUp <- TwentyImageTies
  None = None
  Raises = Raises
  NoRow = NoRow
  MaxInFlight = 2
INVARIANTS
  TypeOK
  DriftFlagFresh
  BaselineIsFirst
PROPERTIES
  RowCatchesUp
