\* Two sessions over a single connection and a database that crashes: every
\* await of a session meets a broken connection and a crash, before and after a
\* recovery, and its COMMIT takes effect before or after it has ended.
SPECIFICATION Spec
CONSTANTS
  Sessions = {s1, s2}
  Connections = {c1, c2}
  PoolSize = 1
  MaxOverflow = 0
  MaxCrashes = 1
  NoConn = NoConn
INVARIANTS
  FailedWorkNotDurable
  DisconnectsExplained
PROPERTIES
  ImplementsTransactions
  SessionsEnd
CHECK_DEADLOCK FALSE
