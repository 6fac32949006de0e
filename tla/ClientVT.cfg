CONSTANTS
  Advances <- MCAdvances
  DefaultAdvance = 3
  Costs <- MCCosts
  MaxRounds = 6
  MayFail = FALSE
  FuncTimes <- MCFuncTimes
  MaxExtras = 2
  MayLose = TRUE
SPECIFICATION ClientFairSpec
INVARIANTS BacklogBounded ReplyAnswersRequest
PROPERTIES RoundAnswered ProtocolRefined PlainClient
\* A client whose reply is lost sleeps for ever, and so does its main at the join.
CHECK_DEADLOCK FALSE
