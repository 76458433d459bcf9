\* Approvals, reviews, expiration, popped blocks and restarts.
SPECIFICATION Spec
CONSTANTS
  x = x
  y = y
  z = z
  k = k
  transfer = transfer
  account_update = account_update
  Accounts <- MCAccounts
  Keys = {k}
  Operations = {transfer, account_update}
  Required <- MCRequired
  Changes <- MCChanges
  GenesisAuthority <- MCGenesisAuthority
  MaxDepth = 1
  MaxUntilExpiration = 1
  MaxLifetime = 3
  Terms <- MCTerms
  Approvers = {y, z}
  MaxUndo = 3
  MaxTime = 4
  MaxProposals = 2
  MaxTransactions = 4
CHECK_DEADLOCK FALSE
INVARIANTS
  AppliedOnce
  ExecutedApproved
  IndexesFollow
