SPECIFICATION Spec
CONSTANTS
  m1 = m1
  m2 = m2
  v1 = v1
  v2 = v2
  k1 = k1
  k2 = k2
  Actors <- TwoActors
  Members <- TwoMembers
  Values <- TwoValues
  Steps <- OneOrTwo
  MapKeys <- TwoKeys
  Unit = 16
  ListValues <- OneOrTwo
  Kinds <- OnlyMVReg
  OpKinds <- OnlyMVReg
  CausalKinds <- NoKinds
  StateKinds <- NoKinds
  MaxOps = 3
INVARIANTS
  Convergence
