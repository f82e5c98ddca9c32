----------------------------- MODULE BrainGraph -----------------------------
(***************************************************************************)
(* The users of the brain graph: the distiller, the company view, which    *)
(* makes a second graph of it, the tools server, which answers from it,    *)
(* and the vault importer.  They meet in the graph only, where each model  *)
(* lets the others write whatever they can; so one of them moves in a      *)
(* behaviour, `user`, and the others stand at their start.                 *)
(***************************************************************************)
EXTENDS Distill

CONSTANTS
  Repos, Projects, Artifacts, Records, VaultNotes, CompanyTopics, HomeOf, Nobody, FirstTiers, FirstAbout,
  MaxCompanyChanges, MaxCompanyFaults,
  Requests, Questions, SchemaOk, LastCommit, There, Bots, DocOf, TextOf, DateOf, Short,
  Legs, Meaning, Recall, Ranked, Weight, Relevance, MaxChunks, Candidates, Limit, PinnedEntries, MaxToolTroubles,
  ShadowedNotes, Foreign, NoteVersions, NoteTexts, NoteDigests, NoteChunks, NoteDigest, NoNote, FirstVaults,
  NotesChunkedPerRun, NoteHealRows, NoteFileRows, MaxVaultEdits, MaxVaultFaults, MaxNoteWrites, MaxVaultTroubles

VARIABLES
  user,
  tiers, there, about, company, companyPhase, companyRead, companyPlan, steady, moments,
  changes, companyFaults,
  head, contractOk, headBots, loads, pinned, requests, toolTroubles,
  vault, notesBrain, vaultPhase, clone, vaultSnap, notePrunes, nodes, units, edges, noteHeals,
  noteVectors, deferred, asserted, vaultEdits, vaultFaults, noteWrites

companyVars == <<tiers, there, about, company, companyPhase, companyRead, companyPlan, steady,
                 moments, changes, companyFaults>>
toolVars    == <<head, contractOk, headBots, loads, pinned, requests, toolTroubles>>
vaultVars   == <<vault, notesBrain, vaultPhase, clone, vaultSnap, notePrunes, nodes, units, edges,
                 noteHeals, noteVectors, deferred, asserted, vaultEdits, vaultFaults, noteWrites>>
allVars     == <<user, vars, companyVars, toolVars, vaultVars>>

Company == INSTANCE CompanyViewProofs WITH
  Topics <- CompanyTopics, MaxChanges <- MaxCompanyChanges, MaxFaults <- MaxCompanyFaults,
  phase <- companyPhase, read <- companyRead, plan <- companyPlan, faults <- companyFaults

Tools == INSTANCE BrainTools WITH MaxTroubles <- MaxToolTroubles, troubles <- toolTroubles

Vault == INSTANCE VaultImportProofs WITH
  Notes <- ShadowedNotes, Versions <- NoteVersions, Texts <- NoteTexts, Digests <- NoteDigests,
  ChunksOf <- NoteChunks, DigestOf <- NoteDigest, None <- NoNote,
  HealRowsPerRun <- NoteHealRows, FileRows <- NoteFileRows,
  MaxEdits <- MaxVaultEdits, MaxFaults <- MaxVaultFaults, MaxAgentWrites <- MaxNoteWrites, MaxTroubles <- MaxVaultTroubles,
  brain <- notesBrain, phase <- vaultPhase, snap <- vaultSnap, prunes <- notePrunes,
  heals <- noteHeals, vectors <- noteVectors, edits <- vaultEdits, faults <- vaultFaults,
  agentWrites <- noteWrites

-----------------------------------------------------------------------------
BrainInit ==
  /\ user \in {"distiller", "company", "tools", "vault"}
  /\ Init /\ Company!Init /\ Tools!Init /\ Vault!Init

BrainNext ==
  \/ user = "distiller" /\ Next /\ UNCHANGED <<user, companyVars, toolVars, vaultVars>>
  \/ user = "company" /\ Company!Next /\ UNCHANGED <<user, vars, toolVars, vaultVars>>
  \/ user = "tools" /\ Tools!Next /\ UNCHANGED <<user, vars, companyVars, vaultVars>>
  \/ user = "vault" /\ Vault!Next /\ UNCHANGED <<user, vars, companyVars, toolVars>>

BrainSpec == BrainInit /\ [][BrainNext]_allVars

-----------------------------------------------------------------------------
(* Properties: those of the distiller keep their names. *)

\* Every variable of the four holds values of its kind.
TypesOK ==
  /\ user = "distiller" => TypeOK
  /\ user = "company" => Company!TypeOK
  /\ user = "tools" => Tools!TypeOK
  /\ user = "vault" => Vault!TypeOK

\* A run of the company view during which nothing changed leaves the company graph
\* equal to the view of the brain; and no topic is loaded that a document outside the
\* internal tier is about all the time from the start of the run to its plan.
CompanySound == user = "company" => Company!CompanySound

\* A load of edges does not look for what is there already: neither the vault importer
\* nor the company view loads one that the graph holds, or whose ends it does not.
EdgesLoadOnce ==
  /\ user = "vault" => Vault!NoLinkLoadedTwice
  /\ user = "company" => Company!EdgesLoadCleanly

\* Two searches of one commit that report the same give the same answer, if both have
\* got their bot index; and a request that ran into its deadline ends as a timeout, but for
\* a bot index that came after all.
AnswersAlike == user = "tools" => Tools!PinnedAlike /\ Tools!LateIsTimeout

\* A p1 search shows every text once, in its newest copy, at most MaxChunks passages of a
\* document, and nothing only when nothing was found; and every request comes to an end
\* although no upstream ever answers.
AnswersSound == user = "tools" => Tools!AnswerShape /\ Tools!NobodyStuck
=============================================================================
