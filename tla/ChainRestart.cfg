\* The node is shut down, killed and started again at any time, with forks.
SPECIFICATION RestartSpec
CONSTANTS
  a1 = a1
  a2 = a2
  a3 = a3
  a4 = a4
  a5 = a5
  b3 = b3
  b4 = b4
  m1 = m1
  m2 = m2
  NoBlock = NoBlock
  NoFiles = NoFiles
  Mixed = Mixed
  Blocks <- MCBlocks
  Parent <- MCParent
  Miner <- MCMiner
  Miners = {m1, m2}
  Coin <- MCCoin
  Txs <- MCTxs
  Transactions = {}
  MaxBlockTxs = 2
  Bad = {}
  Executing = {}
  SizeMayGrow = FALSE
  MaxPending = 3
  Tearing = TRUE
  Losing = TRUE
INVARIANTS
  StartSucceeds
  IrreversibleSurvives
  RestartConsistent
