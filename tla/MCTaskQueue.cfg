\* An indexing task that may hang, and two tasks of the analysis pool, which
\* has two workers: one container dies, one process is killed, one run of a
\* task outlives the visibility timeout.
SPECIFICATION Spec
CONSTANTS
  index = index
  analyse = analyse
  clean = clean
  ix = ix
  an1 = an1
  an2 = an2
  p1 = p1
  p2 = p2
  p3 = p3
  NoTask = NoTask
  Tasks = {index, analyse, clean}
  Workers = {ix, an1, an2}
  Processes = {p1, p2, p3}
  Hanging = {index}
  ModuleOf <- MCModuleOf
  ServiceOf <- MCServiceOf
  HomeOf <- MCHomeOf
  MaxKills = 1
  MaxDeaths = 1
  MaxOverruns = 1
INVARIANTS
  DuplicatesExplained
  OverlapsExplained
  OneTaskPerProcess
  SettledHasResult
PROPERTIES
  ImplementsAtLeastOnce
  IndexingDelaysNobody
CHECK_DEADLOCK FALSE
