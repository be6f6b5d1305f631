SPECIFICATION LineSpec
CONSTANTS
  Concurrency = 2
  MaxTasks = 4
  MaxSamples = 3
  Percents = {50, 70, 95, 99}
  MaxLatency = 3
INVARIANTS LineTypeOK PlacesAccounted ReportIsComplete PercentileIsRank
PROPERTIES FeederReturns
CHECK_DEADLOCK FALSE
