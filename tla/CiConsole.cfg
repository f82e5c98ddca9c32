SPECIFICATION FairSpec
CONSTANTS
  LastRun = 4  FirstRuns = 3  Old = {1}
  HotPage = 1  FullPage = 2  MaxPages = 2  MaxWatched = 2  KeepPerRepo = 3
  VersionCycle = 3  None = None
  MaxReruns = 1  MaxChanges = 1  MaxFailures = 1  MaxRestarts = 1  MaxTroubles = 1
INVARIANTS TypeOK CoveredUnlessFailed
PROPERTIES AllConverge
