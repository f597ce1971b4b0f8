SPECIFICATION Spec
CONSTANTS
  AccelX <- MCAccelX
  AccelY <- MCAccelY
  StickX <- MCStickX
  StickY <- MCStickY
INVARIANTS
  TypeOK
  SpeedsAsWanted
  CurvesAreLines
  StickEnds
PROPERTIES
  SteersAsTilted
