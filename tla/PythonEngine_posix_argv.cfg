\* The POSIX build, the memory after the argument vector not being null.
SPECIFICATION Spec
CONSTANTS
  Requests = {r1, r2}
  Pids = {p1, p2}
  Null = Null
  Words <- TheWords
  Flag <- TheFlag
  Bodies <- PlainBodies
  Windows = FALSE
  ExePath <- PlainExe
  Beyond <- NullOrStale
  Ending = {}
  MaxInterrupts = 1
INVARIANT
  DefaultLibraryWhenNoneNamed
CHECK_DEADLOCK FALSE
