------------------------------ MODULE ForgeRun ------------------------------
(***************************************************************************)
(* The forge importer as a part of a larger behaviour: its constants and   *)
(* variables under names of their own, and what a run of it promises.      *)
(***************************************************************************)
CONSTANTS
  Docs, Decisions, Threads, People, ForgeVersions, ForgeTexts, ForgeChunksOf, NoVersion,
  ForgeFileRows, ForgeHealRows, MaxForgeEdits, MaxForgeFaults, MaxForgeLinks

VARIABLES
  forge, visible, forgeBrain, forgePhase, forgeSnap, want, forgePrunes, loads, forgeHeals, forgeVectors,
  forgeEdits, forgeFaults, forgeAgentWrites

forgeVars == <<forge, visible, forgeBrain, forgePhase, forgeSnap, want, forgePrunes, loads, forgeHeals,
               forgeVectors, forgeEdits, forgeFaults, forgeAgentWrites>>

Forge == INSTANCE ForgeImportProofs WITH
  Versions <- ForgeVersions, Texts <- ForgeTexts, ChunksOf <- ForgeChunksOf, None <- NoVersion,
  FileRows <- ForgeFileRows, HealRowsPerRun <- ForgeHealRows,
  MaxEdits <- MaxForgeEdits, MaxFaults <- MaxForgeFaults, MaxAgentWrites <- MaxForgeLinks,
  brain <- forgeBrain, phase <- forgePhase, snap <- forgeSnap, prunes <- forgePrunes,
  heals <- forgeHeals, vectors <- forgeVectors, edits <- forgeEdits, faults <- forgeFaults,
  agentWrites <- forgeAgentWrites

-----------------------------------------------------------------------------
\* A run of the forge's importer that applied its files leaves the graph as the forge is,
\* the server takes every file it writes, its heals change no text, and nothing it does
\* takes an agent's link away.
ForgeRight == Forge!ForgeRight

\* It deletes only what is gone from the forge it read.
DeletesOnlyGone == Forge!DeletesOnlyGone
=============================================================================
