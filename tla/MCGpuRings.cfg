CONSTANTS
  t1 = t1  t2 = t2
  Gfx = Gfx
  c1 = c1
  Threads = {t1, t2}
  Compute = {c1}
  None = None
  Disciplined = TRUE
  MaxBatches = 3
  MaxStops = 2
SPECIFICATION FairSpec
INVARIANTS PausedIsQuiet IdleIsTrue
PROPERTY CallsReturn
CHECK_DEADLOCK FALSE
