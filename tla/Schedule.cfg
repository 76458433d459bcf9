\* Blocks on time and late, maintenance, changes of miners and parameters.
SPECIFICATION Spec
CONSTANTS
  m1 = m1
  m2 = m2
  m3 = m3
  m4 = m4
  Miners <- MCMiners
  ActiveSets <- MCActiveSets
  Parameters <- MCParameters
  NoParameters = NoParameters
  GenesisTime = 6
  Window = 3
  MaxUndoHistory = 6
  MaxTime = 18
  MaxBlocks = 6
SYMMETRY MCSymmetry
CHECK_DEADLOCK FALSE
INVARIANTS
  SlotsInverted
  MissedAccounted
  WindowEndsBeforeHead
  LastSlotsExact
  MaintenanceAhead
  ScheduleFollowsActive
PROPERTIES
  IrreversibleIsConfirmed
