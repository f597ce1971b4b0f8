SPECIFICATION PollingSpec
CONSTANTS
  RxFifoDepth = 1
  BUMPER_TIMER_TICKS = 1
  BUMPER_HOLDOFF_TIMER_TICKS = 1
  MOTOR_TIMEOUT = 1
  CounterMax = 1
  Addresses = {100}
  HatAddress = 100
  Commands <- MCCommands
  Positions = {0}
  MaxKeys = 2
  Bump = bump
PROPERTY
  BumpPlaysSound
