SPECIFICATION FairSpec
CONSTANTS
  n1 = n1
  n2 = n2
  n3 = n3
  u1 = u1
  u2 = u2
  Nodes <- TwoNodes
  Updates <- TwoUpdates
  Configs <- EveryConfig
  Stoppable <- OnlyFirst
  MaxRemoved = 1
  Forget = 1
  MaxWaiting = 0
  MaxSubmits = 2
  MaxLosses = 1
INVARIANTS
  TypeOK
  ActiveOrExpired
  DeliveredOnce
PROPERTIES
  NewestStay
  NodesAgree
