SPECIFICATION FairSpec
CONSTANTS
  RingSize = 3
  Numbers = 6
  MaxRequest = 3
  MaxTries = 1
INVARIANTS
  FinishedMeansSent
PROPERTIES
  TransmitsInOrder
  ReceivesInOrder
  EveryByteIsSent
