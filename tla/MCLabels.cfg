SPECIFICATION Spec
CONSTANTS
  gfx = gfx
  compute = compute
  a = a
  CPs <- MCCPs
  None = None
  NumSlots = 2
  Images = {a}
  MaxBatches = 2
  MaxCommands = 2
  MaxFlushes = 1
  MaxFaults = 1
INVARIANTS
  UsedIsAlive
  SetUpInThisRecording
  SubmitsWhatRecords
PROPERTIES
  OvertakenInScan
CHECK_DEADLOCK FALSE
