SPECIFICATION Spec
CONSTANTS
  Period = 3
  ClockSize = 13
  MaxLag = 5
  Lockout = 3
  Holdoff = 2
  Timeout = 2
  AgeMax = 2
INVARIANTS
  OnSchedule
  TimeoutInTime
PROPERTIES
  LockoutInTime
