\* Three calls, so that a read can follow a write that follows another, over two
\* threads: the third waits while two run, possibly for callers that have gone.
\* Two attempts are the fewest in which the storage executes a request twice.
SPECIFICATION Spec
CONSTANTS
  Calls = {c1, c2, c3}
  Threads = 2
  MaxAttempts = 2
  Absent = Absent
SYMMETRY Symmetry
INVARIANTS
  TypeOK
  OverwrittenStaysOverwritten
  DownloadsNotStale
  AbsenceExplained
PROPERTY
  ImplementsBlobStore
CHECK_DEADLOCK FALSE
