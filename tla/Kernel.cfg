SPECIFICATION Spec
CONSTANTS
  N = 3
  Period <- MCPeriod
  WorstCase <- MCWorstCase
  Switch = 1
  First = 2
  Second = 3
  ClockSize = 11
  MaxWait = 7
INVARIANTS
  TypeOK
  NoStarvation
PROPERTIES
  NeverEarly
  PriorityRespected
