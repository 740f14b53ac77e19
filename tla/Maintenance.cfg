SPECIFICATION Spec
CONSTANTS
  MaxRuns = 3
  MaxEntries = 6
  MaxEvents = 1
  MaxManual = 1
  MaxCompactions = 2
  MaxInput = 6
  Soft = 5
  Early = 4
INVARIANTS
  RecordsAreValid
  CompactionNeverStopsServer
  PrefixIsSentOnce
CHECK_DEADLOCK FALSE
