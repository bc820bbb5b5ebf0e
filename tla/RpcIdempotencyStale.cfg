SPECIFICATION Spec
CONSTANTS
  Startups = {s1, s2}
  Registrars = {}
  Unbinders = {}
  Cleaners = {c1}
  w = w
  Workspaces = {w}
  WorkspaceOf <- SameWorkspace
  Branches = {b1, b2}
  MaxFailures = 0
  MaxTimeouts = 0
  MaxCrashes = 0
  MaxExpiries = 0
  None = None
PROPERTIES StartupIsRegistered
CHECK_DEADLOCK FALSE
