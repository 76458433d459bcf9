\* Every order of changes, sessions, pops and switches on one index.
SPECIFICATION Spec
CONSTANTS
  Types = {t1}
  Values = {v1, v2}
  MaxInstance = 2
  MaxSessions = 2
  UndoSizes = {1, 2}
SYMMETRY Symmetry
INVARIANTS
  SessionsBacked
  UndoRestores
  MergeFollowsTable
PROPERTY
  ImplementsSnapshots
