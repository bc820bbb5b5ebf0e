SPECIFICATION FairSpec
CONSTANTS
  Trees <- MCTrees
  FirstTree <- MCFirstTree
  Searches = {s1}
  MaxEvents = 2
  None = None
  Requests <- MCRequests
  Linked <- MCLinked
  MaxCallers = 1
INVARIANTS AttachStateIsTrue ChangedMeansMoved ServedUnderItsEpoch
PROPERTIES HeadGetsSearchable SearchesEnd
