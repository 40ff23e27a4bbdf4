\* A message of each kind before or after another, two requests kept alive.
SPECIFICATION FairSpec
CONSTANTS
  Scripts <- AllScripts
  KeepAliveMax = 2
  PayloadMax = 1
  ExpectAnswers <- Expectations
INVARIANTS
  InStep
  WholeContent
  CloseIsLast
  NextIsFound
PROPERTIES
  ServesConnection
  ConnectionEnds
CHECK_DEADLOCK FALSE
