\* Three connections for two workers, two requests on each, two signals; one
\* connection's requests may hang for ever.
SPECIFICATION FairSpec
CONSTANTS
  Conns = {c1, c2, c3}
  PoolSize = 2
  KeepAliveMax = 2
  MaxSignals = 2
  Ending = {c1, c2}
INVARIANTS
  CleanExitIsDrained
  AtMostOneLateRequest
  SecondCloseNeedsFailure
PROPERTIES
  ServesConnections
  StopClosesRunningListener
  SignalStopsReadyServer
  AcceptedIsWorkedOff
CHECK_DEADLOCK FALSE
