CONSTANTS
  t1 = t1  t2 = t2  t3 = t3
  g1 = g1  g2 = g2
  Threads = {t1, t2, t3}
  Guards = {g1, g2}
  None = None
  MaxNest = 2
  Reentrant = FALSE
  CapExpires = TRUE
SPECIFICATION FairSpec
INVARIANTS OneBuilder SkippedIsBuilt NoLostWakeup
PROPERTY OnlyCirclesWait
