\* Three sessions over two connections, one of them overflow: sessions wait and
\* connections are discarded, break and are replaced; a third connection name
\* leaves the capacity something to be exceeded by.  The database stays up.
SPECIFICATION Spec
CONSTANTS
  Sessions = {s1, s2, s3}
  Connections = {c1, c2, c3}
  PoolSize = 1
  MaxOverflow = 1
  MaxCrashes = 0
  NoConn = NoConn
SYMMETRY Symmetry
INVARIANTS
  ConnectionsExclusive
  PoolBounds
  NoForeignWork
CHECK_DEADLOCK FALSE
