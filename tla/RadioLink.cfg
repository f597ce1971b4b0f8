SPECIFICATION Spec
CONSTANTS
  RxFifoDepth = 3
  Addresses = {100, 90}
  HomeAddress = 100
  MaxWrites <- MCMaxWrites
INVARIANTS
  ReadyMeansPayload
  AckedWasStored
  InOrderOnce
PROPERTIES
  EveryReadReturns
  LinkIsLossy
