SPECIFICATION FairSpec
CONSTANTS
  r1 = r1
  r2 = r2
  w1 = w1
  k1 = k1
  k2 = k2
  Nobody = Nobody
  Readers <- TwoReaders
  Writers <- OneWriter
  Keys <- TwoKeys
  FirstKeys <- TwoFirst
  MaxNodes = 3
INVARIANTS
  TypeOK
  WriterAlone
  WaiterSlotFree
  SleeperHasWaker
  FindRegular
  ListIsTree
PROPERTIES
  WaiterServed
