SPECIFICATION Spec
CONSTANTS
  v1 = v1
  v2 = v2
  Absent = Absent
  Done = Done
  Refused = Refused
  NotYet = NotYet
  Keys <- ThreeKeys
  Values <- TwoValues
  Expiring <- OneKey
  Hash <- SomeShare
  InitialSize = 1
  MaxTime = 1
  TreeKeys <- EightKeys
  TreeHash <- SomeCollide
  TreeifyAt = 4
  UntreeifyAt = 3
  ByteBase = 4
  Widths <- SmallWidths
  IntValuesUsed <- EveryWidth
  ListElements <- FourElements
  Score <- TiedScores
  MaxLevel = 3
  WordSize = 8
  Words <- LastKey
  Items <- ThreeItems
  BytesOf <- ItemBytes
  Large = 5
  UpgradeLen = 3
  UpgradeSize = 8
  NoItem = NoItem
  MaxItems = 4
SYMMETRY ValuesAlike
INVARIANTS
  TypeOK
  RehashKeepsUp
  SearchesFind
  ContainerSound
PROPERTIES
  IsKeySpace
  IsSortedSet
  IsList
