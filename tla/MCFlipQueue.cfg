CONSTANTS
  t1 = t1  t2 = t2
  h1 = h1
  Threads = {t1, t2}
  Handles = {h1}
  Buffers = {0}
  None = None
  Capacity = 3
  Rates = {0, 1}
  Period = 2
  CpuBudget = 3
  MaxFlips = 5
  MaxRing = 2
SPECIFICATION FairSpec
INVARIANTS WithinCapacity PresenterOwnsFront PrepareFindsRequest
PROPERTIES ImplementsFifo EveryFlipIsShown RingGoesOn
CHECK_DEADLOCK FALSE
