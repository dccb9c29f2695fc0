CONSTANTS
  g1 = g1
  g2 = g2
  win = win
  label = label
  None = None
  Guests <- MCGuests
  Emulator <- MCEmulator
  Window = win
  LabelThread = label
  Nums = {2}
  MaxCalls = 4
  MaxTriggers = 2
SPECIFICATION Spec
INVARIANTS NothingLost RegistrationsAreLive
PROPERTY OnlyTheCycleBlocks
CHECK_DEADLOCK FALSE
