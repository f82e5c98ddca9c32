SPECIFICATION VaultSpec
CONSTANTS
  n1 = n1  n2 = n2  agent = agent
  two = two  other = other  stub = stub
  Notes <- MCNotes  Foreign <- MCForeign  Versions <- MCShort
  Texts <- MCTexts  Digests <- MCDigests
  ChunksOf <- MCChunksOf  DigestOf <- MCDigestOf
  None = None  FirstVaults <- MCVaults
  NotesChunkedPerRun = 2  HealRowsPerRun = 2  FileRows = 2
  MaxEdits = 1  MaxFaults = 1  MaxAgentWrites = 1  MaxTroubles = 2
  Docs = {"adr"}  Decisions = {"adr"}  Threads = {"issue"}  People = {"ann"}
  ForgeVersions <- MCForgeVersions  ForgeTexts <- MCTexts  ForgeChunksOf <- MCForgeChunksOf
  NoVersion = None
  ForgeFileRows = 2  ForgeHealRows = 2
  MaxForgeEdits = 1  MaxForgeFaults = 1  MaxForgeLinks = 2
PROPERTIES ForeignLinksComeBack
