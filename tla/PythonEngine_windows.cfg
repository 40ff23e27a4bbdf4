\* The _WIN32 build with paths that hold no blank.
SPECIFICATION Spec
CONSTANTS
  Requests = {r1, r2}
  Pids = {p1, p2}
  Null = Null
  Words <- TheWords
  Flag <- TheFlag
  Bodies <- PlainBodies
  Windows = TRUE
  ExePath <- PlainExe
  Beyond <- JustNull
  Ending = {}
  MaxInterrupts = 1
SYMMETRY Calls
INVARIANTS
  SuccessMeansEnded
  ChildGetsItsRequest
CHECK_DEADLOCK FALSE
