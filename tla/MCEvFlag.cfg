CONSTANTS
  t1 = t1  t2 = t2  t3 = t3
  b1 = b1  b2 = b2
  Threads = {t1, t2, t3}
  Bits = {b1, b2}
  Requests <- MCRequests
  CapExpires = TRUE
SPECIFICATION FairSpec
INVARIANTS NoLostWakeup CancelIsOneShot
PROPERTIES AnswersAreTrue DueIsAnswered
