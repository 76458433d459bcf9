\* Two peers, one with an invalid block, the other growing; one thing may go wrong.
SPECIFICATION Spec
CONSTANTS
  n1 = n1
  n2 = n2
  a1 = a1
  a2 = a2
  a3 = a3
  a4 = a4
  b2 = b2
  b3 = b3
  NoBlock = NoBlock
  Blocks <- BadBlocks
  Parent <- BadParent
  Tips <- BadTips
  Peers = {n1, n2}
  Bad = {b2}
  MayGrow = TRUE
  MayBeMissing = TRUE
  Lying = {n2}
  Asking = {n1}
  MaxIds = 3
  MinPrefetch = 3
  MaxPerPeer = 2
  MaxHandled = 2
  MaxReceived = 2
  MaxFaults = 1
INVARIANTS
  RequestsPending
  AskedOnce
  OnlyLiarsBlamed
PROPERTIES
  InOrder
