\* Two blocks never apply, and a generated block may turn out too big.
SPECIFICATION Spec
CONSTANTS
  a1 = a1
  a2 = a2
  a3 = a3
  a4 = a4
  a5 = a5
  a6 = a6
  b2 = b2
  b3 = b3
  b4 = b4
  c3 = c3
  c4 = c4
  t1 = t1
  t2 = t2
  t3 = t3
  m1 = m1
  m2 = m2
  NoBlock = NoBlock
  Blocks <- MCBlocks
  Parent <- MCParent
  Miner <- MCMiner
  Miners = {m1, m2}
  Coin <- MCCoin
  Txs <- MCTxs
  Transactions = {t1, t2, t3}
  MaxBlockTxs = 2
  Bad = {a4, c3}
  Executing = {}
  SizeMayGrow = TRUE
  MaxPending = 3
INVARIANTS
  FailedPushUnwound
  HeadOnlyRises
  UndoFollowsChain
PROPERTY
  NothingLost
