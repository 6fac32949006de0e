CONSTANTS
  Links <- MCLinks
  RoutesFiles <- MCRoutesFiles
  Flows <- MCFlows
  MaxPackets = 2
SPECIFICATION NetSpec
INVARIANTS RoutesLead OnPath
PROPERTIES InOrder Delivered
\* In the end everything has been sent and dealt with.
CHECK_DEADLOCK FALSE
