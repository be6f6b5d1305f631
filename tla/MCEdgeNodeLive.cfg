SPECIFICATION LiveSpec
CONSTANTS
  part1 = part1
  part2 = part2
  None = None
  good = good
  worse = worse
  h1 = h1
  h2 = h2
  Versions = {good, worse}
  Initial = good
  Shipped = {good}
  Bundled = {worse}
  Requests = {part1, part2}
  Undecodable = {part2}
  MaxScore = 1
  DefaultThreshold = 1
  Holdout = {h1}
  HoldoutScore <- MCHoldoutScore
  CeilingPct = 5
  WorkerCount = 1
  InferenceModes = {"worker"}
  MaxHistory = 1
PROPERTIES
  InspectionAnswered
  SwapDropsNoWork
