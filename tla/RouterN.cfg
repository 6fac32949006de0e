CONSTANTS
  Routes <- MCRoutes
  intf_names <- MCIntfNames
  Destinations = {"h1", "unknown"}
  Noisy = {2}
  RcvQueue = 2
  MayFail = TRUE
SPECIFICATION Spec
INVARIANT RecvNeverBlocks
PROPERTY ServedUpToNoise
\* A failing poll ends the router.
CHECK_DEADLOCK FALSE
