SPECIFICATION ToolSpec
CONSTANTS
  Artifacts = {vault, exchange}
  MaxTasks = 3
  MaxKills = 1
  Forests <- MCForests
INVARIANTS
  HandlesLive
  NoLeftovers
  StackMatchesSuites
  ArtifactsRestored
PROPERTIES
  TestsIsolated
CHECK_DEADLOCK FALSE
