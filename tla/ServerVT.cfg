CONSTANTS
  Advances <- MCAdvances
  DefaultAdvance = 3
  Costs <- MCCosts
  MaxRounds = 6
  MayFail = FALSE
  FuncTimes <- MCFuncTimes
  MaxExtras = 2
  MayLose = TRUE
SPECIFICATION ServerFairSpec
INVARIANT BacklogBounded
PROPERTIES RoundAnswered ProtocolRefined PlainServer
\* A server sent no further request sleeps for ever, and so does its main at the join.
CHECK_DEADLOCK FALSE
