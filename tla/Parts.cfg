\* Each input is read, each machine ends: the system may stop.
SPECIFICATION Spec
CONSTANTS
  Bytes <- TheBytes
  Names = {"n"}
  Boundary <- TheBoundary
  MaxFiles = 2
  RangeMax = 5
  IntMax = 6
  Hex = {"0", "2", "3", "5", "6", "B", "D"}
  Byte <- TheByte
  Unicode = "none"
  Safe = {"2", "6"}
  MaxAddresses = 3
  Objects = {o1, o2, o3}
  Libraries = {"engine", "other"}
  Symbols <- TheSymbols
  MaxRefs = 2
  Threads = {t1, t2}
  MaxRedirects = 2
  MaxSockets = 4
  Poppers = {c1, c2}
  MaxResults = 4
  BufferSize = 4
  FileSizes = {0, 1}
CHECK_DEADLOCK FALSE
INVARIANTS
  FormsArrive
  RangesServed
  QueriesSurvive
  PathsAgree
  ResourcesBalanced
  ClientKeepsItsSocket
  NoResultIsSleptThrough
