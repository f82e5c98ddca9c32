SPECIFICATION MCSpec
CONSTANTS
  n1 = n1  n2 = n2  agent = agent
  two = two  other = other  stub = stub
  Notes <- MCNotes  Foreign <- MCForeign  Versions <- MCVersions
  Texts <- MCTexts  Digests <- MCDigests
  ChunksOf <- MCChunksOf  DigestOf <- MCDigestOf
  None = None  FirstVaults <- MCGrowing
  NotesChunkedPerRun = 2  HealRowsPerRun = 3  FileRows = 2
  MaxEdits = 1  MaxFaults = 1  MaxAgentWrites = 1  MaxTroubles = 1
  Docs = {"adr"}  Decisions = {"adr"}  Threads = {"issue"}  People = {"ann"}
  ForgeVersions <- MCForgeVersions  ForgeTexts <- MCTexts  ForgeChunksOf <- MCForgeChunksOf
  NoVersion = None
  ForgeFileRows = 2  ForgeHealRows = 2
  MaxForgeEdits = 1  MaxForgeFaults = 1  MaxForgeLinks = 2
SYMMETRY Symmetry
INVARIANTS TypeOK CompleteRunMirrors OwnFilesAccepted HealKeepsText KeepsForeignLinks ForgeRight
PROPERTIES DeletesOnlyGone
