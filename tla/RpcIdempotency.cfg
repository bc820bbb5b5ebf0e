SPECIFICATION FairSpec
CONSTANTS
  Startups = {s1, s2}
  Registrars = {}
  Unbinders = {u1}
  Cleaners = {c1}
  w = w
  Workspaces = {w}
  WorkspaceOf <- SameWorkspace
  Branches = {b1, b2}
  MaxFailures = 1
  MaxTimeouts = 1
  MaxCrashes = 1
  MaxExpiries = 1
  None = None
INVARIANTS OneExecution ReadyIsRegistered
PROPERTIES AnswersOnce CallsEnd
CHECK_DEADLOCK FALSE
