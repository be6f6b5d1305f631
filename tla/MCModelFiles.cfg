SPECIFICATION Spec
CONSTANTS
  v1 = v1
  v2 = v2
  b1 = b1
  b2 = b2
  b3 = b3
  legacy = legacy
  w1 = w1
  Main = Main
  Missing = Missing
  Torn = Torn
  None = None
  Labels = {v1, v2}
  Builds = {b1, b2, b3}
  Workers = {w1}
  Initial = v1
  Legacy = legacy
  Shipped <- ShippedAndLegacy
  Packed <- PackedOnce
  Named = {v2}
  Trainings <- TrainedAgain
INVARIANTS TypeOK SessionsCurrent PairsMatch ServedWasGated OnlyVerified
CHECK_DEADLOCK FALSE
