SPECIFICATION FairSpec
CONSTANTS
  Chunks = 2
  TimeoutLimit = 2
  CounterMod = 4
  MaxFaults = 2
  MaxReports = 2
  MaxOthers = 1
  None = None
INVARIANTS InitIsTrue
PROPERTIES InitRecoversOrHangs SilenceIsNoticed RestartsEnd
CHECK_DEADLOCK FALSE
