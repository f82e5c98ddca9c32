SPECIFICATION DistillerSpec
CONSTANTS
  Docs = {1, 2, 3}  Names = {1, 2, 3}  MaxVersion = 2  FirstDocs <- MCFirstDocs
  Mentions <- MCMentions  Answers <- MCAnswers  Concept <- MCConcept
  MaxDocuments = 3  MaxSpend = 1  MaxCallCost = 2  Workers = 2  RelatedMin = 2  MaxAliases = 1
  MaxQuestionCost = 1  MergeCandidates = 1  MaxAliasQuestions = 1
  MaxEdits = 1  MaxTroubles = 1  MaxAgentLinks = 1  MaxKeySpent = 1  MaxTogether = 2
  Repos = {"r1", "r2"}  Projects = {"p1", "p2"}  Artifacts = {"a"}  Records = {"k"}
  VaultNotes = {"n"}  CompanyTopics = {"t"}  Nobody = "nobody"
  HomeOf <- MCHomeOf  FirstTiers <- MCFirstTiers  FirstAbout <- MCFirstAbout
  MaxCompanyChanges = 1  MaxCompanyFaults = 1
  Requests = {"q", "r"}  Questions <- MCQuestions  SchemaOk = TRUE  LastCommit = 2
  There <- MCThere  Bots <- MCBots  DocOf <- MCDocOf  TextOf <- MCTextOf  DateOf <- MCDateOf  Short = {5}
  Legs = {"vec", "kw"}  Meaning = {"vec"}  Recall <- MCRecall  Ranked <- MCRanked
  Weight <- MCWeight  Relevance <- MCRelevance  MaxChunks = 1  Candidates = 2  Limit = 2
  PinnedEntries = 1  MaxToolTroubles = 1
  ShadowedNotes = {"n1", "n2", "n3"}  Foreign = {"agent"}  NoteVersions = {"two", "stub"}
  NoteTexts = {"a", "b"}  NoteDigests = {"two", "stub"}  NoteChunks <- MCNoteChunks  NoteDigest <- MCNoteDigest
  NoNote = "none"  FirstVaults <- MCFirstVaults
  NotesChunkedPerRun = 1  NoteHealRows = 1  NoteFileRows = 2
  MaxVaultEdits = 1  MaxVaultFaults = 1  MaxNoteWrites = 1  MaxVaultTroubles = 1
INVARIANTS RecordedLinked
CHECK_DEADLOCK FALSE
