SPECIFICATION FairSpec
CONSTANTS
  Requests <- MCRequests
  MaxSockets = 5
  MaxRefreshes = 2
  MaxFailures = 2
  AckFirst = FALSE
  MaxStops = 2
INVARIANTS SingleLink NoForgottenSocket
PROPERTIES StoppingIsQuiet SearchSettles StaysConnected
CHECK_DEADLOCK FALSE
