SPECIFICATION FairSpec
CONSTANTS
  Procs <- MCProcs
  MaxFailures = 1
  MaxStops = 1
  MaxDeaths = 0
  MaxMishaps = 2
  None = None
PROPERTIES ShuttingDownEnds
CHECK_DEADLOCK FALSE
