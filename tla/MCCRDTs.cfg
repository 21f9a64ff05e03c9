SPECIFICATION Spec
CONSTANTS
  m1 = m1
  m2 = m2
  v1 = v1
  v2 = v2
  k1 = k1
  k2 = k2
  Actors <- ThreeActors
  Members <- TwoMembers
  Values <- TwoValues
  Steps <- OneOrTwo
  MapKeys <- OneKey
  Unit = 16
  ListValues <- OneOrTwo
  Kinds <- AllKinds
  OpKinds <- ByOperations
  CausalKinds <- Lists
  StateKinds <- ByStates
  MaxOps = 3
INVARIANTS
  TypeOK
  Convergence
  ReadsItsMeaning
