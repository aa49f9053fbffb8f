SPECIFICATION FairSpec
CONSTANTS
  r1 = r1
  r2 = r2
  w1 = w1
  w2 = w2
  Readers <- TwoReaders
  Writers <- TwoWriters
  MaxCount = 2
  MaxMade = 3
  Calls <- AllCalls
INVARIANTS
  TypeOK
  OneFateInOrder
PROPERTIES
  ImplementsFifo
  WaitsEnd
CHECK_DEADLOCK FALSE
