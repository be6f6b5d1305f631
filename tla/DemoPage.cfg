SPECIFICATION DemoSpec
CONSTANTS
  None = None
  Files = {part1, part2}
  MaxPicks = 3
INVARIANTS ShowsTheNewest
PROPERTIES NeverStuck
CHECK_DEADLOCK FALSE
