CONSTANTS
  HostNames <- MCHosts
  SwitchNames <- MCSwitches
  Modes <- MCModes
SPECIFICATION ExperimentSpec
PROPERTIES ProgressComplete Ends
