SPECIFICATION FairMapSpec
CONSTANTS
  t1 = t1
  t2 = t2
  k1 = k1
  k2 = k2
  v1 = v1
  v2 = v2
  None = None
  Threads <- TwoThreads
  Keys <- TwoKeys
  Values <- OneValue
  Hash <- SplitOfTwo
  Caps <- WideDoubling
  InitCap = 2
  MaxCap = 4
  Stride = 1
  MaxResizers = 8
  CountRange <- Counts
  TreeifyThreshold = 2
  Explored <- InsertsGetRemove
  MaxCalls = 3
  MaxNodes = 4
PROPERTIES
  CallsReturn
