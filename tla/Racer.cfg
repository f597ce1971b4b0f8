SPECIFICATION FairSpec
CONSTANTS
  RxFifoDepth = 2
  BUMPER_TIMER_TICKS = 3
  BUMPER_HOLDOFF_TIMER_TICKS = 2
  MOTOR_TIMEOUT = 2
  CounterMax = 3
  Addresses = {100, 90}
  HatAddress = 100
  Keys <- MCKeys
  Commands <- MCCommands
  Positions = {0}
INVARIANTS
  TypeOK
  StoppedWhileWaiting
  StoppedAfterTimeout
  CommandIsWhole
PROPERTIES
  OnlyKeyedPacketsDrive
  ImplementsGuard
  SilenceStops
  BumpPasses
  RetunedByBumps
