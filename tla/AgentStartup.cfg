SPECIFICATION StartupSpec
CONSTANTS
  Procs <- MCProcs
  Clients <- MCClients
  MaxFailures = 1
  MaxStops = 1
  MaxDeaths = 1
  MaxMishaps = 1
  None = None
INVARIANTS OneDatabase RaceElectsOne
PROPERTIES AloneFailsOnlyAtBoot RaceIsWon StopEnds ServingIsUsable PreparationEnds
CHECK_DEADLOCK FALSE
