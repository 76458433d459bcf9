\* Two peers with the same two blocks, which do not ask us, no breakdown, no new block.
SPECIFICATION FairSpec
CONSTANTS
  n1 = n1
  n2 = n2
  a1 = a1
  a2 = a2
  a3 = a3
  a4 = a4
  b2 = b2
  b3 = b3
  NoBlock = NoBlock
  Blocks <- PairBlocks
  Parent <- PairParent
  Tips <- PairTips
  Peers = {n1, n2}
  Bad = {}
  MayGrow = FALSE
  MayBeMissing = FALSE
  Lying = {}
  Asking = {}
  MaxIds = 2
  MinPrefetch = 3
  MaxPerPeer = 1
  MaxHandled = 2
  MaxReceived = 2
  MaxFaults = 0
PROPERTY SyncEnds
\* When nothing is left to do the node waits.
CHECK_DEADLOCK FALSE
