SPECIFICATION MCFairSpec
CONSTANTS
  Tabs = {a, b}  NoTab = NoTab  MaxGrants = 4  MaxTroubles = 1  Now = Now  None = None
  MaxRevisions = 3  MaxVersions = 2  MaxPosts = 2  MaxActionTroubles = 1
  PanelJobs = {"a", "b"}  Needs <- MCNeeds  PageSize = 1  MaxPages = 2  NoneTries = 1  FlatTries = 2
  MaxRuns = 1  MaxTasks = 3  MaxScans = 1  MaxLost = 1
  JobInterval = 1  ArtifactsTTL = 2  LastVersion = 2  MaxHides = 1  MaxLosses = 1
  Words = {"a", "b"}  MaxDepth = 5  MaxMissing = 1
  Repositories = {"priv", "pub"}  Private = {"priv"}  Packages = {"workflows", "agents"}
  FirstFacts <- MCFacts  LaterFacts <- MCLater  MaxChanges = 1  MaxInventoryTroubles = 1
INVARIANTS TypesOK TokenOnce PageIsRight RowsNewest
PROPERTIES BoardIsRight AllSettle
CHECK_DEADLOCK FALSE
