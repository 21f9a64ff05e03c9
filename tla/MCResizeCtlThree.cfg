SPECIFICATION Spec
CONSTANTS
  t1 = t1
  t2 = t2
  t3 = t3
  Threads <- ThreeThreads
  Caps <- TwoDoublings
  InitCap = 1
  MaxCap = 4
  Stride = 4
  MaxResizers = 8
  CountRange <- OneElement
SYMMETRY Symmetry
INVARIANTS
  NextTableFree
