SPECIFICATION Spec
CONSTANTS
  Apps = {p, q}
  Addrs = {a, b, c}
  Types = {t, u}
  ChunkSize = 2
  MaxBody = 3
  MaxOps = 3
  MaxFaults = 1
  MaxCrashes = 1
  NoType = NoType
  None = None
SYMMETRY Symmetry
INVARIANTS GlobalIsUnion ModuleInStep AckedAreSaved
CHECK_DEADLOCK FALSE
