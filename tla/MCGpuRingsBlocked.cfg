CONSTANTS
  t1 = t1  t2 = t2
  Gfx = Gfx
  c1 = c1
  Threads = {t1, t2}
  Compute = {c1}
  None = None
  Disciplined = FALSE
  MaxBatches = 2
  MaxStops = 1
SPECIFICATION FairSpec
PROPERTY SubmitReturns
CHECK_DEADLOCK FALSE
