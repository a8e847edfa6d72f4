SPECIFICATION FairSpec
CONSTANTS
  Chunks = 1
  TimeoutLimit = 2
  CounterMod = 4
  MaxFaults = 1
  MaxReports = 0
  MaxOthers = 0
  None = None
PROPERTIES InitRecovers
CHECK_DEADLOCK FALSE
