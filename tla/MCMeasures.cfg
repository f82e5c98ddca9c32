SPECIFICATION MCFairSpec
CONSTANTS
  Pods = {"a", "b"}  Attempts = 2  MaxRuns = 2  MaxTroubles = 2
  Profiles <- MCProfiles  Rest = {"rest"}  LastCase = 2  Known <- MCKnown
  Jobs = 2  GradedFiles = 1  MaxTurns = 1  JudgeAttempts = 2  Backoffs = 1  LimitedAttempts = 2
  LoseOneIn = 2  Cap = 3  JobWindow = 2  RequestsPerWindow = 3  TokensPerWindow = 3
  Costs = {0, 2}  Tokens = {0, 2}  Redacted = TRUE  MaxJobs = 1  MaxJobTroubles = 1
  Paths = {"tests", "tests2", "gate", "ci"}  TestPaths = {"tests", "tests2"}  GatePaths = {"gate"}
  JudgePaths = {"ci"}  ProtectedPaths = {"ci"}  Lockfiles = {}  Manifests = {"gate"}  Migrations = {}
  Asserting = {"assert"}  Weakening = {"skip"}  Softening = {"x"}  Markers = {"m"}
  Contents <- MCContents  FirstTree <- MCFirstTree  CommitKinds <- MCCommitKinds  Options <- MCOptions
  MaxLines = 3  MaxFiles = 2  MaxCommits = 2  MaxLanded = 1
INVARIANTS TypesOK PushedWhenPrivate ReportedIsStored ReportsSound SpendCapped GatesHold MeasuresTrue
PROPERTIES ResultsStay JobsEnd
CHECK_DEADLOCK FALSE
