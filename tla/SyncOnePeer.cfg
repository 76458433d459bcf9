\* One peer, no breakdown, no new block: the synchronisation completes.
SPECIFICATION FairSpec
CONSTANTS
  n1 = n1
  n2 = n2
  a1 = a1
  a2 = a2
  a3 = a3
  a4 = a4
  b2 = b2
  b3 = b3
  NoBlock = NoBlock
  Blocks <- LongBlocks
  Parent <- LongParent
  Tips <- LongTips
  Peers = {n1}
  Bad = {}
  MayGrow = FALSE
  MayBeMissing = FALSE
  Lying = {}
  Asking = {n1}
  MaxIds = 2
  MinPrefetch = 3
  MaxPerPeer = 2
  MaxHandled = 2
  MaxReceived = 2
  MaxFaults = 0
PROPERTIES
  CatchesUp
  SyncEnds
