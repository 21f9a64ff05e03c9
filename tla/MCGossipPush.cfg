SPECIFICATION FairSpec
CONSTANTS
  n1 = n1
  n2 = n2
  n3 = n3
  u1 = u1
  u2 = u2
  Nodes <- TwoNodes
  Updates <- TwoUpdates
  Configs <- PushOnce
  Stoppable <- Nobody
  MaxRemoved = 1
  Forget = 1
  MaxWaiting = 0
  MaxSubmits = 1
  MaxLosses = 0
PROPERTIES
  SubmittedIsBroadcast
