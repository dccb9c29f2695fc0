SPECIFICATION Spec
CONSTANTS
  MaxPools = 3
  Default <- MCDefault
  Arenas <- MCArenas
  Caps = {3, 7}
  Sizes = {1, 3}
  Aligns = {1, 4}
  Fine = 2
  Coarse = 4
  FineLimit = 2
INVARIANTS
  LiveApart
  ListsAreHome
  NothingLeaks
CHECK_DEADLOCK FALSE
