SPECIFICATION MCSpec
CONSTANTS
  MaxHistory = 2
  Loads = {l1, l2}
  Clicks = {c1}
  MaxRejects = 4
  MaxRestarts = 1
INVARIANTS TypeOK KeepsNewest CountedOnce DoneCardsAreCounted
PROPERTIES PageCatchesUp
CHECK_DEADLOCK FALSE
