\* One request and one connection, which the other handlers also take; three
\* changes let one service fail, recover and fail, or all three fail.
SPECIFICATION Spec
CONSTANTS
  Requests = {r1}
  Capacity = 1
  Timeout = 2
  Cleanup = 1
  MaxFlips = 3
INVARIANTS
  HealthyEarned
  ErrorsExplained
  LatencyBound
PROPERTY
  AlwaysAnswers
CHECK_DEADLOCK FALSE
