SPECIFICATION MCFairSpec
CONSTANTS
  LastRelease = 3  AssetsOf <- MCAssetsOf  Broken = {1}  Kinds = {"draft", "pre", "stable"}
  CopyBudget = 1  None = None
  MaxEdits = 3  MaxFailures = 1  MaxLeaks = 1
  Docs = {"adr"}  Decisions = {"adr"}  Threads = {"issue"}  People = {"ann"}
  ForgeVersions = {"two", "other"}  ForgeTexts = {"a", "b", "c"}  ForgeChunksOf <- MCForgeChunksOf
  NoVersion = "none"
  ForgeFileRows = 2  ForgeHealRows = 1
  MaxForgeEdits = 1  MaxForgeFaults = 1  MaxForgeLinks = 0
  Pods = {a, b}  LastValue = 2  LastSecond = 2  MaxBridgeTroubles = 1
INVARIANTS TypesOK NeverCreatesTag CurrentIsRight
PROPERTIES ImplementsShelf AllSettle
CHECK_DEADLOCK FALSE
