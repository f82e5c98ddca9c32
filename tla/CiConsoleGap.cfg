SPECIFICATION FairSpec
CONSTANTS
  LastRun = 3  FirstRuns = 3  Old = {}
  HotPage = 1  FullPage = 2  MaxPages = 2  MaxWatched = 2  KeepPerRepo = 3
  VersionCycle = 5  None = None
  MaxReruns = 0  MaxChanges = 1  MaxFailures = 1  MaxRestarts = 0  MaxTroubles = 1
INVARIANTS WindowCovered
