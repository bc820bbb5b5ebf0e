SPECIFICATION Spec
CONSTANTS
  Procs <- MCProcs
  MaxFailures = 0
  MaxStops = 0
  MaxDeaths = 0
  MaxMishaps = 0
  None = None
INVARIANTS LockExcludes
CHECK_DEADLOCK FALSE
