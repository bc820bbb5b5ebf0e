SPECIFICATION FairSpec
CONSTANTS
  LastAttachment = 3
  Revisions = {"r1", "r2"}
  Files = {"f1", "f2"}
  Targets = {"code"}
  Branches = {"main", "feature"}
  RevisionOf <- MCRevisionOf
  BranchOf <- MCBranchOf
  FilesOf <- MCFilesOf
  TargetOf <- MCTargetOf
  MaxVersion = 2
  MaxFailures = 2
  MaxCrashes = 1
  MaxCleans = 1
  MaxMishaps = 2
  None = None
INVARIANTS NothingLost SyncedPayloadIsWhole ReadyIsBacked LossIsBounded
PROPERTIES ForgetsOnlyStale EventuallyCaughtUp
