SPECIFICATION Spec
CONSTANTS
  Searches = {s1, s2}
  Stops = {d1}
  Threads = {t1, t2}
  MaxReports = 2
  MaxQuiet = 1
  MaxStray = 1
INVARIANTS
  RunningHasSearcher
  ReportsAreKept
  SuccessIsEarned
PROPERTY
  EndIsNoticed
CHECK_DEADLOCK FALSE
