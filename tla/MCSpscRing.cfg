SPECIFICATION FairSpec
CONSTANTS
  Capacity = 4
  Words <- MCWords
  MaxPush = 9
INVARIANTS
  TypeOK
  NoDataRace
  DropAccounting
PROPERTIES
  InOrder
  PushReturns
  ImplementsLossyQueue
CHECK_DEADLOCK FALSE
