SPECIFICATION FairSpec
CONSTANTS
  Apps = {p}
  Addrs = {a}
  Types = {t, u}
  ChunkSize = 1
  MaxBody = 1
  MaxOps = 3
  MaxFaults = 0
  MaxCrashes = 1
  NoType = NoType
  None = None
PROPERTIES InitCompletes
CHECK_DEADLOCK FALSE
