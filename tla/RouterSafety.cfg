CONSTANTS
  Advances <- MCAdvances
  DefaultAdvance = 5
  Costs <- MCCosts
  MaxRounds = 4
  MayFail = TRUE
  Routes <- MCRoutes
  intf_names <- MCIntfNames
  FuncTimes <- MCFuncTimes
  Destinations = {"h1", "h2", "unknown"}
  MaxPackets = 2
SPECIFICATION RouterFairSpec
INVARIANTS RouterTypeOK RecvNeverBlocks SentOnce ForwardingPaid
PROPERTIES ForwarderRefined ProtocolRefined RoundAnswered
\* A worker whose sockets fail leaves main waiting, and a stopped one may sleep on.
CHECK_DEADLOCK FALSE
