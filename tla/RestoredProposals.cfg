\* A proposal that was removed comes back with a popped block.
SPECIFICATION Spec
CONSTANTS
  x = x
  y = y
  z = z
  k = k
  transfer = transfer
  account_update = account_update
  Accounts <- MCAccounts
  Keys = {k}
  Operations = {transfer, account_update}
  Required <- MCRequired
  Changes <- MCChanges
  GenesisAuthority <- MCGenesisAuthority
  MaxDepth = 1
  MaxUntilExpiration = 1
  MaxLifetime = 3
  Terms <- MCTerms
  Approvers = {y, z}
  MaxUndo = 2
  MaxTime = 4
  MaxProposals = 2
  MaxTransactions = 3
CHECK_DEADLOCK FALSE
INVARIANTS
  AllTracked
