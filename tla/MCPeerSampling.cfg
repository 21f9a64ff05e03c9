SPECIFICATION FairSpec
CONSTANTS
  Peers <- FivePeers
  Hosts <- ThreeHosts
  Worlds <- AllWorlds
  Asking <- OnlyFirst
  Stoppable <- OnlyFirst
  MaxWaiting = 1
  MaxLosses = 1
INVARIANTS
  TypeOK
PROPERTIES
  HealingForgets
  QueuedIsHandedOut
  EveryoneKnown
CHECK_DEADLOCK FALSE
