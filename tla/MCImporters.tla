---------------------------- MODULE MCImporters ----------------------------
(***************************************************************************)
(* The two importers of the brain graph.  Each owns the part of the graph  *)
(* under its own slugs and reads no more than that; so one of them moves   *)
(* in a behaviour, `importer`, and the other stands at its start.          *)
(***************************************************************************)
EXTENDS VaultImport, ForgeRun, TLC

CONSTANTS n1, n2, agent, two, other, stub

MCNotes    == {n1, n2}
MCForeign  == {agent}
MCVersions == {two, other}
MCShort    == {stub}

\* An edit from two to other changes the first chunk and removes the second; a
\* stub is shorter than MIN_CHUNKED_NOTE_CHARS.
MCChunksOf == [v \in Versions |-> 
  CASE v = two -> <<"a", "b">> [] v = other -> <<"c">> [] v = stub -> << >>]
MCTexts    == {"a", "b", "c"}
MCDigests  == {two, other, stub}
MCDigestOf == [v \in Versions |-> v]

MCVaults == {c \in Vaults : \A n \in Notes : c.ver[n] = None => c.target[n] = {}}

\* The second note, if there is one, can still grow, and only the first has a link.
MCGrowing == {c \in MCVaults : c.ver[n2] # two /\ c.target[n2] = {} /\ n1 \notin c.target[n1]}

Symmetry == Permutations(Notes)

VARIABLE importer

\* The forge has one decision record, and one issue with its author.
MCForgeVersions == {two, other}
MCForgeChunksOf == [v \in MCForgeVersions |-> IF v = two THEN <<"a", "b">> ELSE <<"c">>]

ASSUME ImportersAssumption == Forge!ForgeAssumption

-----------------------------------------------------------------------------
MCInit ==
  /\ importer \in {"vault", "forge"}
  /\ Init /\ Forge!Init
  /\ importer # "forge" => forge = Forge!NoForge
  /\ importer # "vault" => vault = NoVault

MCNext ==
  \/ importer = "vault" /\ Next /\ UNCHANGED <<importer, forgeVars>>
  \/ importer = "forge" /\ Forge!Next /\ UNCHANGED <<importer, vars>>

MCSpec == MCInit /\ [][MCNext]_<<importer, vars, forgeVars>>

\* The vault importer alone, whose pods go on.
VaultSpec == importer = "vault" /\ MCSpec /\ WF_<<importer, vars, forgeVars>>(importer = "vault" /\ PodStep /\ UNCHANGED <<importer, forgeVars>>)
=============================================================================
