CONSTANTS
  t1 = t1  t2 = t2
  Threads = {t1, t2}
  Limit = 4
  Cap = 3
  Requests <- MCRequests
  Stale = {}
  VPages = 3
  Prots = {0}
  NoPhys = 99
  Mappings <- MCMappings
  Batches <- MCBatches
SPECIFICATION MapSpec
PROPERTY LeftoverStaysFree
