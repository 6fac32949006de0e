CONSTANTS
  Advances <- MCShortAdvances
  DefaultAdvance = 5
  Costs <- MCCosts
  MaxRounds = 4
  MayFail = FALSE
  Routes <- MCRoutes
  intf_names <- MCIntfNames
  FuncTimes <- MCFuncTimes
  Destinations = {"h1", "unknown"}
  MaxPackets = 2
SPECIFICATION RouterFairSpec
INVARIANT ExitOnlyOnStop
PROPERTY StopEndsWithTraffic
\* A stopped router may sleep on.
CHECK_DEADLOCK FALSE
