\* Three calls, two pids: the process table can run full, a pid is reused. One
\* script may hang.
SPECIFICATION FairSpec
CONSTANTS
  Requests = {r1, r2, r3}
  Pids = {p1, p2}
  Null = Null
  Words <- TheWords
  Flag <- TheFlag
  Bodies <- MixedBodies
  Windows = FALSE
  ExePath <- PlainExe
  Beyond <- NullOrStale
  Ending = {r1, r2}
  MaxInterrupts = 2
INVARIANTS
  OkMeansReaped
  WaitsForOwnChild
  LeaksOnlyByInterrupt
  NamedArgumentsArrive
PROPERTIES
  ReapedByItsCall
  ImplementsService
  EndingCallReturns
CHECK_DEADLOCK FALSE
