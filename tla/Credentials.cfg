SPECIFICATION FairSpec
CONSTANTS
  Requests <- MCRequests
  Refreshers <- MCRefreshers
  MaxLogins = 2
  MaxEvents = 1
  None = None
INVARIANTS CredentialIsCurrent ConfigNamesLogin
PROPERTIES TasksEnd
CHECK_DEADLOCK FALSE
