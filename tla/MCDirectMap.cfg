CONSTANTS
  t1 = t1  t2 = t2
  Threads = {t1, t2}
  Limit = 3
  Cap = 3
  Requests <- MCRequests
  Stale = {2}
  VPages = 3
  Prots = {0}
  NoPhys = 99
  Mappings <- MCMappings
  Batches <- MCBatches
SPECIFICATION MapSpec
SYMMETRY Symmetry
INVARIANTS PoolIsPartitioned CounterIsExact
PROPERTIES NoMemoryIsTrue ImplementsPool ReleaseMends MappingIsExact BatchIsExact
