\* TimeKeeper sends n_insns below 1000: the round lasts no time.
CONSTANTS
  Advances <- MCAdvancesWithZero
  DefaultAdvance = 3
  Costs <- MCCosts
  MaxRounds = 3
  MayFail = FALSE
SPECIFICATION VTSpec
INVARIANT ExitOnlyOnStop
CHECK_DEADLOCK FALSE
