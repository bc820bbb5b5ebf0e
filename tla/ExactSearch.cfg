SPECIFICATION FairExactSpec
CONSTANTS
  Files <- MCFiles
  WideFiles = {"g"}
  Garbled = "garbled"
  Outputs <- MCOutputs
  Responses <- MCResponses
  MaxMatches = 2
  OutputLimit = 8
  Limit = 2
  ContextLines = 2
INVARIANTS PartialIsSaid EvidenceIsShown
PROPERTIES SearchEnds
CHECK_DEADLOCK FALSE
