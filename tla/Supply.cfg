\* Balances, fees, pay and votes, in three parts.
SPECIFICATION MCSpec
CONSTANTS
  a = a
  b = b
  temp = temp
  TempAccount = temp
  NoParameters = NoParameters
  Accounts <- MCAccounts
  Balances <- MCBalances
  Miners = {1, 2}
  MinerAccount <- MCMinerAccount
  Parameters <- MCAllParameters
  Rewards <- MCRewards
  Splits <- MCSplits
  VoteRewardFork = 1
  VoteRewardCheck = 1
  GenesisTime = 1
  Times = {2, 3, 4, 5, 6, 7, 8}
  Word = 16
  Amounts = {1, 2}
  Values <- MCValues
  Payments <- MCPayments
  Fees = {1}
  Policies <- MCPolicies
  Options <- MCOptions
  Commitments = {c1, c2}
  MaxTime = 9
  MaxBalance = 16
  MaxBlocks = 5
  MaxVestings = 1
  MaxTransactions = 3
SYMMETRY MCSymmetry
CHECK_DEADLOCK FALSE
INVARIANTS
  SupplyAccounted
  ConfidentialBacked
  FeesCoverPay
  VotersWithinReward
  VestingKept
PROPERTIES
  VestingPromise
