\* The _WIN32 build with a blank in a path.
SPECIFICATION Spec
CONSTANTS
  Requests = {r1, r2}
  Pids = {p1, p2}
  Null = Null
  Words <- TheWords
  Flag <- TheFlag
  Bodies <- SpacedBodies
  Windows = TRUE
  ExePath <- PlainExe
  Beyond <- JustNull
  Ending = {}
  MaxInterrupts = 1
INVARIANT
  ChildGetsItsRequest
CHECK_DEADLOCK FALSE
