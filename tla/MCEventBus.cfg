SPECIFICATION FairSpec
CONSTANTS
  Pub = {p1, p2}
  Sub = {s1, s2}
  Buffer = {0, 1}
  MaxEvents = 2
INVARIANTS
  TypeOK
  NoPanic
  DeliveredOnceInOrder
PROPERTIES
  EveryChannelCloses
  PublishReturns
CHECK_DEADLOCK FALSE
