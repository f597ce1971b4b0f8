SPECIFICATION KeySpec
INVARIANTS
  NeverZero
  FullPeriod
