SPECIFICATION ActivationSpec
CONSTANTS
  None = None
  Images = {1, 2}
  Test = {1, 2}
  CeilingNum = 1
  CeilingDen = 2
  HoursPerDay = 2
  MinutesPerHour = 2
  TicksPerMinute = 2
  Always = Always
INVARIANTS TypeOK QuietVerdictIsRight WindowIsStretch
PROPERTIES OpensAndCloses OpensEveryDay
