SPECIFICATION Spec
CONSTANTS
  hostA = hostA
  hostB = hostB
  Hosts = {hostA, hostB}
  DefaultHost = hostA
  JsonAgents = {"claude"}
  Invocations <- MCInvocations
  ProjectFiles <- MCProjectFiles
  JsonFiles <- MCJsonFiles
  CodexFiles <- MCCodexFiles
  AgentDirs = {}
  Links <- MCLinks
  Words = {"none", "edited", "r", "bad", "o", "p", "n"}
  MaxRuns = 2
  MaxEdits = 1
  None = None
  Invalid = Invalid
INVARIANTS ConfiguredIsServed
PROPERTIES UnrelatedKept ConsentedReplacement RerunIsQuiet
CHECK_DEADLOCK FALSE
