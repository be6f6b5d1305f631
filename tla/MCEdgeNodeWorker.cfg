SPECIFICATION Spec
CONSTANTS
  part1 = part1
  part2 = part2
  None = None
  good = good
  worse = worse
  h1 = h1
  h2 = h2
  Versions = {good, worse}
  Initial = good
  Shipped = {good}
  Bundled = {worse}
  Requests = {part1, part2}
  Undecodable = {}
  MaxScore = 1
  DefaultThreshold = 1
  Holdout = {h1, h2}
  HoldoutScore <- MCHoldoutScore
  CeilingPct = 5
  WorkerCount = 1
  InferenceModes = {"worker", "inline"}
  MaxHistory = 1
INVARIANTS
  TypeOK
  RollbackTarget
  QueueHoldsEachOnce
  ServedWasReleased
  CountersAgree
PROPERTIES
  SwapLooksAtomic
SYMMETRY Symmetry
