SPECIFICATION LifespanSpec
CONSTANTS
  Handlers = {r1, r2}
  MaxCycles = 2
INVARIANTS
  RequestsHoldLiveClients
  DependenciesOutlive
  LeaksExplained
PROPERTY
  ShutdownEnds
CHECK_DEADLOCK FALSE
