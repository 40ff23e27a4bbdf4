\* The _WIN32 build when CreateProcessW fails.
SPECIFICATION Spec
CONSTANTS
  Requests = {r1, r2}
  Pids = {p1, p2}
  Null = Null
  Words <- TheWords
  Flag <- TheFlag
  Bodies <- PlainBodies
  Windows = TRUE
  ExePath <- PlainExe
  Beyond <- JustNull
  Ending = {}
  MaxInterrupts = 1
INVARIANT
  FailureHasErrorStatus
CHECK_DEADLOCK FALSE
