CONSTANTS
  Advances <- MCAdvances
  DefaultAdvance = 3
  Costs <- MCCosts
  MaxRounds = 6
  MayFail = FALSE
  FuncTimes <- MCFuncTimes
  MaxExtras = 0
  MayLose = FALSE
SPECIFICATION ClientSpec
PROPERTY RequestPaid
CHECK_DEADLOCK FALSE
