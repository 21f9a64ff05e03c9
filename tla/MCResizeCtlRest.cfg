SPECIFICATION Spec
CONSTANTS
  t1 = t1
  t2 = t2
  t3 = t3
  Threads <- TwoThreads
  Caps <- TwoDoublings
  InitCap = 1
  MaxCap = 4
  Stride = 1
  MaxResizers = 8
  CountRange <- FewElements
SYMMETRY Symmetry
INVARIANTS
  NothingOpenAtRest
