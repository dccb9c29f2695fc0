CONSTANTS
  t1 = t1  t2 = t2
  f1 = f1  f2 = f2
  Threads = {t1, t2}
  Fibers = {f1, f2}
  None = None
  Gone = Gone
SPECIFICATION FairSpec
INVARIANTS CurrentIsRunning OneThreadPerContext NobodyIsLost
 
CHECK_DEADLOCK FALSE
