\* Every fault the worker can meet, and rounds of no length.
CONSTANTS
  Advances <- MCAdvances
  DefaultAdvance = 5
  Costs <- MCCosts
  MaxRounds = 4
  MayFail = TRUE
  Pids <- MCPids
  Numerals <- MCNumerals
  Tails <- MCTails
  MaxTuples = 2
  IntLimit = 32
  Scale = 10
SPECIFICATION CommandSpec
INVARIANTS TypeOK TurnInv OneMessage GrantFindsReader ClockAccounted NoCallAfterStop TuplesInOrder Understood
PROPERTY ClockRefined
\* A worker that failed, or took a round of no length for a stop, leaves main waiting.
CHECK_DEADLOCK FALSE
