SPECIFICATION FairSpec
CONSTANTS
  d1 = d1
  d2 = d2
  r1 = r1
  r2 = r2
  old = old
  new = new
  None = None
  Devices = {d1, d2}
  Versions = {old, new}
  Initial = old
  Rollouts = {r1, r2}
  Stages <- MCStages
  Target <- MCTarget
  OperatorVersions = {old}
INVARIANTS TypeOK CompleteMeansPromoted
PROPERTIES GateHolds RolloutSettles
CHECK_DEADLOCK FALSE
