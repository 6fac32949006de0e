\* No packet need ever come again.
CONSTANTS
  Advances <- MCAdvances
  DefaultAdvance = 4
  Costs <- MCCosts
  MaxRounds = 3
  MayFail = FALSE
SPECIFICATION VTFairSpec
PROPERTY StopEndsProgram
CHECK_DEADLOCK FALSE
