\* Late wake-ups, forks and restarts.
SPECIFICATION MCSpec
CONSTANTS
  na = na
  nb = nb
  nc = nc
  ma = ma
  mb = mb
  mc = mc
  Nodes <- MCNodes
  Order <- MCOrder
  MinersOf <- MCMinersOf
  Stale <- MCStale
  Late <- MCLate
  Interval = 2
  GenesisTime = 2
  MaxDelay = 3
  MaxTime = 14
  MaxRestarts = 1
CHECK_DEADLOCK FALSE
INVARIANTS
  SignsOnce
  SlotsFilled
  
