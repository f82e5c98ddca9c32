-------------------------- MODULE VaultImportProofs --------------------------
(***************************************************************************)
(* Proofs about VaultImport for every vault, graph and bound.              *)
(*                                                                         *)
(*   TypeOK   the types, with what the chunk texts of a version are        *)
(*   HealInv  a row to heal holds the text the snapshot holds, unless the  *)
(*            run touches it                                               *)
(*   LinkInv  a link still to be loaded is not in the graph once the       *)
(*            notes' own links are gone                                    *)
(*   RunInv   a row the plan has not got to is as the snapshot has it, any *)
(*            other as the clone of the vault says; what is still to be    *)
(*            pruned or loaded finds the rows the graph server demands     *)
(***************************************************************************)
EXTENDS VaultImport, TLAPS

\* The indices of a version's chunks are indices of passages.
LEMMA ChunkIndices ==
  ASSUME NEW v \in Versions, NEW i \in DOMAIN ChunksOf[v]
  PROVE  i \in Indices /\ ChunksOf[v][i] \in Texts
<1>1. ChunksOf[v] \in Seq(Texts)
  BY DataAssumption
<1> QED
  BY <1>1 DEF Indices

\* The chunks a clone wants are passages with texts.
LEMMA WantedChunks ==
  ASSUME NEW c \in Vaults, NEW n \in Notes
  PROVE  /\ Wanted(c, n) \subseteq Pids
         /\ \A p \in Wanted(c, n) : p[1] = n /\ Chunks(c, n)[p[2]] \in Texts
<1>1. CASE n \in Present(c)
  <2>1. c.ver[n] \in Versions
    BY <1>1 DEF Present, Vaults
  <2>2. Wanted(c, n) = {<<n, i>> : i \in DOMAIN ChunksOf[c.ver[n]]}
    BY <1>1 DEF Wanted, Chunks
  <2>3. \A i \in DOMAIN ChunksOf[c.ver[n]] : i \in Indices /\ ChunksOf[c.ver[n]][i] \in Texts
    BY <2>1, ChunkIndices
  <2>4. Chunks(c, n) = ChunksOf[c.ver[n]]
    BY <1>1 DEF Chunks
  <2> QED
    BY <2>2, <2>3, <2>4 DEF Pids
<1>2. CASE n \notin Present(c)
  <2>1. Wanted(c, n) = {}
    BY <1>2 DEF Wanted, Chunks
  <2> QED
    BY <2>1
<1> QED
  BY <1>1, <1>2

\* The server's operations keep a graph a graph.
LEMMA DeleteType ==
  ASSUME NEW g \in Graphs, NEW S
  PROVE  Delete(g, S) \in Graphs
BY DEF Delete, Graphs

LEMMA MergeNotesType ==
  ASSUME NEW g \in Graphs, NEW N, NEW ver \in [Notes -> Versions \cup {None}], NEW vec,
         N \subseteq Notes
  PROVE  MergeNotes(g, N, ver, vec) \in Graphs
BY DEF MergeNotes, Graphs

LEMMA MergePassagesType ==
  ASSUME NEW g \in Graphs, NEW P, NEW text \in [Pids -> Texts \cup {None}], NEW vec,
         P \subseteq Pids
  PROVE  MergePassages(g, P, text, vec) \in Graphs
BY DEF MergePassages, Graphs

LEMMA LoadedNodesType ==
  ASSUME TypeOK, NEW F \in SUBSET nodes,
         \A n \in Notes : ArtifactRow(n) \in nodes => n \in Present(clone)
  PROVE  LoadedNodes(brain, F) \in Graphs
<1>1. brain \in Graphs /\ clone.ver \in [Notes -> Versions \cup {None}]
  BY DEF TypeOK, Vaults
<1> DEFINE g == MergeNotes(brain, NotesIn(F), clone.ver, NotesIn(vectors))
<1>2. g \in Graphs
  BY <1>1, MergeNotesType DEF NotesIn
<1> DEFINE sh == [n \in Notes |-> IF ArtifactRow(n) \in F THEN DigestOf[clone.ver[n]] ELSE brain.shadow[n]]
<1>3. sh \in [Notes -> Digests \cup {None}]
  <2> SUFFICES ASSUME NEW n \in Notes
               PROVE  (IF ArtifactRow(n) \in F THEN DigestOf[clone.ver[n]] ELSE brain.shadow[n])
                        \in Digests \cup {None}
    OBVIOUS
  <2>1. ArtifactRow(n) \in F => clone.ver[n] \in Versions
    BY <1>1 DEF Present
  <2>2. brain.shadow[n] \in Digests \cup {None}
    BY <1>1 DEF Graphs
  <2> QED
    BY <2>1, <2>2, DataAssumption
<1>4. LoadedNodes(brain, F) = [g EXCEPT !.shadow = sh]
  BY DEF LoadedNodes
<1> HIDE DEF g, sh
<1> QED
  BY <1>2, <1>3, <1>4 DEF Graphs

LEMMA LoadedUnitsType ==
  ASSUME TypeOK, NEW F \in SUBSET units
  PROVE  LoadedUnits(brain, F) \in Graphs
<1>1. brain \in Graphs /\ clone \in Vaults /\ F \subseteq Pids
  BY DEF TypeOK
<1>2. ChunkTexts \in [Pids -> Texts \cup {None}]
  BY <1>1, WantedChunks DEF ChunkTexts, Pids
<1> DEFINE g == MergePassages(brain, F, ChunkTexts, PassagesIn(vectors))
<1>3. g \in Graphs
  BY <1>1, <1>2, MergePassagesType
<1>4. brain.of \cup NewEdges(F) \in SUBSET Pids
  BY <1>1 DEF NewEdges, Graphs
<1>5. LoadedUnits(brain, F) = [g EXCEPT !.of = brain.of \cup NewEdges(F)]
  BY DEF LoadedUnits
<1> HIDE DEF g
<1> QED
  BY <1>3, <1>4, <1>5 DEF Graphs

LEMMA LoadedEdgesType ==
  ASSUME TypeOK, NEW F
  PROVE  LoadedEdges(brain, F) \in Graphs
BY DEF LoadedEdges, TypeOK, Graphs

LEMMA HealedType ==
  ASSUME TypeOK, NEW F
  PROVE  Healed(brain, F) \in Graphs
<1>1. brain \in Graphs /\ snap \in Graphs
  BY DEF TypeOK
<1> DEFINE g == MergeNotes(brain, NotesIn(F), snap.note, NotesIn(vectors))
<1>2. snap.note \in [Notes -> Versions \cup {None}] /\ snap.text \in [Pids -> Texts \cup {None}]
  BY <1>1 DEF Graphs
<1>3. g \in Graphs
  BY <1>1, <1>2, MergeNotesType DEF NotesIn
<1>4. Healed(brain, F) = MergePassages(g, PassagesIn(F), snap.text, PassagesIn(vectors))
  BY DEF Healed
<1> HIDE DEF g
<1> QED
  BY <1>2, <1>3, <1>4, MergePassagesType DEF PassagesIn

\* What the plan is made of: rows of its tables, and a shadow artifact only for
\* a note of the clone.
LEMMA PlanType ==
  ASSUME NEW c \in Vaults, NEW g \in Graphs, NEW B \in Batches(Work(c, g), g)
  PROVE  /\ PruneGroups(c, g, B) \subseteq SUBSET Statements
         /\ PlannedNodes(c, g, B) \subseteq NodeRows
         /\ \A n \in Notes : ArtifactRow(n) \in PlannedNodes(c, g, B) => n \in Present(c)
         /\ PlannedUnits(c, g, B) \subseteq Pids
         /\ PlannedEdges(c, g, B) \subseteq EdgeRows
         /\ HealCandidates(c, g, B) \subseteq HealRows
<1>1. B \subseteq Present(c) /\ Present(c) \subseteq Notes
  BY DEF Batches, Work, Chunked, Present
<1>2. \A n \in Notes : Stored(g, n) \subseteq Pids /\ Removed(c, g, n) \subseteq Pids
  BY DEF Stored, Removed
<1>3. \A n \in Notes : Changed(c, g, n) \subseteq Pids
  BY WantedChunks DEF Changed
<1>4. \A n \in Notes : Targets(g, n) \subseteq Notes \cup Foreign
  BY DEF Targets, Graphs
<1>5. PruneGroups(c, g, B) \subseteq SUBSET Statements
  <2>1. \A n \in Notes : RemovalGroup(g, n, Gone(c, g)) \subseteq Statements
    BY <1>2 DEF RemovalGroup, Statements, NodeRows
  <2>2. Gone(c, g) \cup Orphans(c, g) \cup Unchunked(c, g) \subseteq Notes
    BY <1>1 DEF Gone, Orphans, Unchunked
  <2>3. \A n \in Notes : {LinksOf(n)} \subseteq Statements
    BY DEF Statements
  <2>4. \A n \in Notes : {PassageRow(p) : p \in Removed(c, g, n)} \subseteq Statements
    BY <1>2 DEF Statements
  <2>5. Relinked(c, g) \subseteq Notes
    BY <1>1 DEF Relinked
  <2> QED
    BY <1>1, <2>1, <2>2, <2>3, <2>4, <2>5 DEF PruneGroups
<1>6. /\ PlannedNodes(c, g, B) \subseteq NodeRows
      /\ \A n \in Notes : ArtifactRow(n) \in PlannedNodes(c, g, B) => n \in Present(c)
  BY <1>1 DEF PlannedNodes, NodeRows, Rewritten, NoteRow, ArtifactRow
<1>7. PlannedUnits(c, g, B) \subseteq Pids
  BY <1>1, <1>3 DEF PlannedUnits
<1>8. PlannedEdges(c, g, B) \subseteq EdgeRows
  BY <1>1, <1>4 DEF PlannedEdges, EdgeRows, Relinked, LinkTargets
<1>9. HealCandidates(c, g, B) \subseteq HealRows
  BY <1>1 DEF HealCandidates, HealRows
<1> QED
  BY <1>5, <1>6, <1>7, <1>8, <1>9

LEMMA EmptyTypes == NoVault \in Vaults /\ EmptyGraph \in Graphs
BY DEF NoVault, Vaults, EmptyGraph, Graphs

-----------------------------------------------------------------------------
(* Types. *)

\* A shadow artifact is planned only for a note of the clone, and no plan
\* outlives its pod.
ShadowsOfNotes ==
  /\ \A n \in Notes : ArtifactRow(n) \in nodes => n \in Present(clone)
  /\ phase = "idle" => nodes = {}

Typed == TypeOK /\ ShadowsOfNotes

\* A pod that ends leaves nothing but well-typed empty state.
LEMMA ClearedType ==
  ASSUME Typed, ClearPod, UNCHANGED <<brain, envVars>>, faults' \in 0..MaxFaults
  PROVE  Typed'
<1>1. nodes' = {}
  BY DEF ClearPod
<1>2. TypeOK'
  BY EmptyTypes DEF Typed, TypeOK, ClearPod, envVars
<1> QED
  BY <1>1, <1>2 DEF Typed, ShadowsOfNotes

LEMMA InitTyped == Init => Typed
<1> SUFFICES ASSUME Init PROVE Typed
  OBVIOUS
<1>1. nodes = {}
  BY DEF Init, NoPlan
<1>2. 0 \in 0..MaxEdits /\ 0 \in 0..MaxFaults /\ 0 \in 0..MaxAgentWrites
  BY BoundAssumption
<1>3. /\ vault \in Vaults /\ clone \in Vaults
      /\ brain \in Graphs /\ snap \in Graphs
  BY EmptyTypes, FirstAssumption DEF Init
<1>4. /\ phase = "idle" /\ asserted = {} /\ edits = 0 /\ faults = 0 /\ agentWrites = 0
      /\ prunes = {} /\ nodes = {} /\ units = {} /\ edges = {} /\ heals = {}
      /\ vectors = {} /\ deferred = FALSE
  BY DEF Init, NoPlan
<1>5. TypeOK
  BY <1>2, <1>3, <1>4 DEF TypeOK
<1> QED
  BY <1>1, <1>5 DEF Typed, ShadowsOfNotes

LEMMA StepTyped == Typed /\ [Next]_vars => Typed'
<1> SUFFICES ASSUME Typed, [Next]_vars PROVE Typed'
  OBVIOUS
<1>0. TypeOK
  BY DEF Typed
<1>1. CASE CloneVault
  BY <1>0, <1>1 DEF CloneVault, Typed, TypeOK, ShadowsOfNotes, planVars, envVars
<1>2. CASE Snapshot
  BY <1>0, <1>2 DEF Snapshot, Typed, TypeOK, ShadowsOfNotes, planVars, envVars
<1>3. CASE RefuseEmptyVault
  BY <1>0, <1>3, ClearedType DEF RefuseEmptyVault, TypeOK
<1>4. CASE MakePlan
  <2>1. PICK B \in Batches(Work(clone, snap), snap) :
          /\ prunes' = PruneGroups(clone, snap, B)
          /\ nodes'  = PlannedNodes(clone, snap, B)
          /\ units'  = PlannedUnits(clone, snap, B)
          /\ edges'  = PlannedEdges(clone, snap, B)
          /\ heals' \in HealChoices(HealCandidates(clone, snap, B))
          /\ deferred' = (B # Work(clone, snap))
    BY <1>4 DEF MakePlan
  <2>2. clone \in Vaults /\ snap \in Graphs
    BY <1>0 DEF TypeOK
  <2>3. heals' \subseteq HealCandidates(clone, snap, B)
    BY <2>1 DEF HealChoices
  <2>4. /\ prunes' \in SUBSET SUBSET Statements /\ nodes' \in SUBSET NodeRows
        /\ units' \in SUBSET Pids /\ edges' \in SUBSET EdgeRows /\ heals' \in SUBSET HealRows
    BY <2>1, <2>2, <2>3, PlanType
  <2>5. \A n \in Notes : ArtifactRow(n) \in nodes' => n \in Present(clone)
    BY <2>1, <2>2, PlanType
  <2>6. /\ phase' = "planned" /\ vectors' = {} /\ deferred' \in BOOLEAN
        /\ UNCHANGED <<brain, clone, snap, envVars, faults>>
    BY <1>4, <2>1 DEF MakePlan
  <2>7. TypeOK'
    BY <1>0, <2>4, <2>6 DEF TypeOK, envVars
  <2> QED
    BY <2>5, <2>6, <2>7 DEF Typed, ShadowsOfNotes
<1>5. CASE Embed
  <2>1. ToEmbed \subseteq HealRows
    BY <1>0 DEF ToEmbed, TypeOK, NodeRows, HealRows, NoteRow, ArtifactRow, PassageRow
  <2> QED
    BY <1>0, <1>5, <2>1 DEF Embed, Typed, TypeOK, ShadowsOfNotes, envVars
<1>6. CASE EmbedOutage
  <2>1. ToEmbed \subseteq HealRows
    BY <1>0 DEF ToEmbed, TypeOK, NodeRows, HealRows, NoteRow, ArtifactRow, PassageRow
  <2>2. faults' \in 0..MaxFaults
    BY <1>0, <1>6, BoundAssumption DEF EmbedOutage, TypeOK
  <2>3. vectors' \subseteq HealRows /\ heals' \subseteq HealRows
    BY <1>0, <1>6, <2>1 DEF EmbedOutage, TypeOK
  <2>4. /\ phase' = "applying"
        /\ UNCHANGED <<brain, clone, snap, prunes, nodes, units, edges, deferred, envVars>>
    BY <1>6 DEF EmbedOutage
  <2> QED
    BY <1>0, <2>2, <2>3, <2>4 DEF Typed, TypeOK, ShadowsOfNotes, envVars
<1>7. CASE ApplyPrune
  <2>1. brain' \in Graphs
    BY <1>0, <1>7, DeleteType DEF ApplyPrune, TypeOK
  <2>2. /\ prunes' \subseteq prunes
        /\ UNCHANGED <<phase, clone, snap, nodes, units, edges, heals, vectors, deferred, envVars, faults>>
    BY <1>7 DEF ApplyPrune
  <2> QED
    BY <1>0, <2>1, <2>2 DEF Typed, TypeOK, ShadowsOfNotes, envVars
<1>8. CASE ApplyNodes
  <2>1. PICK F \in SUBSET nodes : brain' = LoadedNodes(brain, F) /\ nodes' = nodes \ F
    BY <1>8 DEF ApplyNodes, Files
  <2>2. brain' \in Graphs
    BY <1>0, <2>1, LoadedNodesType DEF Typed, ShadowsOfNotes
  <2>3. UNCHANGED <<phase, clone, snap, prunes, units, edges, heals, vectors, deferred, envVars, faults>>
    BY <1>8 DEF ApplyNodes
  <2> QED
    BY <1>0, <2>1, <2>2, <2>3 DEF Typed, TypeOK, ShadowsOfNotes, envVars
<1>9. CASE ApplyUnits
  <2>1. PICK F \in SUBSET units : brain' = LoadedUnits(brain, F) /\ units' = units \ F
    BY <1>9 DEF ApplyUnits, Files
  <2>2. brain' \in Graphs
    BY <1>0, <2>1, LoadedUnitsType
  <2>3. UNCHANGED <<phase, clone, snap, prunes, nodes, edges, heals, vectors, deferred, envVars, faults>>
    BY <1>9 DEF ApplyUnits
  <2> QED
    BY <1>0, <2>1, <2>2, <2>3 DEF Typed, TypeOK, ShadowsOfNotes, envVars
<1>10. CASE ApplyEdges
  <2>1. PICK F \in SUBSET edges : brain' = LoadedEdges(brain, F) /\ edges' = edges \ F
    BY <1>10 DEF ApplyEdges, Files
  <2>2. brain' \in Graphs
    BY <1>0, <2>1, LoadedEdgesType
  <2>3. UNCHANGED <<phase, clone, snap, prunes, nodes, units, heals, vectors, deferred, envVars, faults>>
    BY <1>10 DEF ApplyEdges
  <2> QED
    BY <1>0, <2>1, <2>2, <2>3 DEF Typed, TypeOK, ShadowsOfNotes, envVars
<1>11. CASE ApplyHeal
  <2>1. PICK F \in SUBSET heals : brain' = Healed(brain, F) /\ heals' = heals \ F
    BY <1>11 DEF ApplyHeal, Files
  <2>2. brain' \in Graphs
    BY <1>0, <2>1, HealedType
  <2>3. UNCHANGED <<phase, clone, snap, prunes, nodes, units, edges, vectors, deferred, envVars, faults>>
    BY <1>11 DEF ApplyHeal
  <2> QED
    BY <1>0, <2>1, <2>2, <2>3 DEF Typed, TypeOK, ShadowsOfNotes, envVars
<1>12. CASE Report
  BY <1>0, <1>12, ClearedType DEF Report, TypeOK
<1>13. CASE Fail
  <2>1. faults' \in 0..MaxFaults
    BY <1>0, <1>13, BoundAssumption DEF Fail, TypeOK
  <2> QED
    BY <1>13, <2>1, ClearedType DEF Fail
<1>14. CASE Refused
  BY <1>0, <1>14, ClearedType DEF Refused, TypeOK
<1>15. CASE Environment
  <2>1. UNCHANGED <<podVars, faults>>
    BY <1>15 DEF Environment, EditVault, AgentLinks, AgentDeletes, AgentSources
  <2>2. vault' \in Vaults /\ edits' \in 0..MaxEdits
    <3>1. CASE EditVault
      <4>1. edits' \in 0..MaxEdits
        BY <1>0, <3>1, BoundAssumption DEF EditVault, TypeOK
      <4>2. vault' \in Vaults
        BY <1>0, <3>1 DEF EditVault, TypeOK, Vaults
      <4> QED
        BY <4>1, <4>2
    <3>2. CASE ~EditVault
      BY <1>0, <1>15, <3>2 DEF Environment, AgentLinks, AgentDeletes, AgentSources, TypeOK
    <3> QED
      BY <3>1, <3>2
  <2>3. brain' \in Graphs /\ asserted' \in SUBSET (Notes \X Foreign) /\ agentWrites' \in 0..MaxAgentWrites
    <3>0. brain \in Graphs /\ asserted \in SUBSET (Notes \X Foreign) /\ agentWrites \in 0..MaxAgentWrites
      BY <1>0 DEF TypeOK
    <3>1. CASE EditVault
      BY <3>0, <3>1 DEF EditVault
    <3>2. agentWrites < MaxAgentWrites => agentWrites + 1 \in 0..MaxAgentWrites
      BY <3>0, BoundAssumption
    <3>3. CASE AgentLinks
      <4>1. PICK n \in Notes, t \in brain.foreign :
              /\ brain' = [brain EXCEPT !.links = @ \cup {<<n, t>>}]
              /\ asserted' = asserted \cup {<<n, t>>}
        BY <3>3 DEF AgentLinks
      <4>2. t \in Foreign
        BY <3>0, <4>1 DEF Graphs
      <4>3. brain' \in Graphs
        BY <3>0, <4>1, <4>2 DEF Graphs
      <4> QED
        BY <3>0, <3>2, <3>3, <4>1, <4>2, <4>3 DEF AgentLinks
    <3>4. CASE AgentDeletes
      <4>1. PICK t \in brain.foreign :
              /\ brain' = [brain EXCEPT !.foreign = @ \ {t}, !.links = {e \in @ : e[2] # t}]
              /\ asserted' = {e \in asserted : e[2] # t}
        BY <3>4 DEF AgentDeletes
      <4>2. brain' \in Graphs
        BY <3>0, <4>1 DEF Graphs
      <4> QED
        BY <3>0, <3>2, <3>4, <4>1, <4>2 DEF AgentDeletes
    <3>5. CASE AgentSources
      <4>1. PICK n \in Notes : brain' = [brain EXCEPT !.art[n] = "other"]
        BY <3>5 DEF AgentSources
      <4>2. brain' \in Graphs
        BY <3>0, <4>1 DEF Graphs
      <4> QED
        BY <3>0, <3>2, <3>5, <4>2 DEF AgentSources
    <3> QED
      BY <1>15, <3>1, <3>3, <3>4, <3>5 DEF Environment
  <2>4. TypeOK'
    BY <1>0, <2>1, <2>2, <2>3 DEF TypeOK, podVars, planVars
  <2> QED
    BY <2>1, <2>4 DEF Typed, ShadowsOfNotes, podVars, planVars
<1>16. CASE UNCHANGED vars
  BY <1>0, <1>16 DEF vars, Typed, TypeOK, ShadowsOfNotes, podVars, planVars
<1> QED
  BY <1>1, <1>2, <1>3, <1>4, <1>5, <1>6, <1>7, <1>8, <1>9, <1>10, <1>11, <1>12, <1>13,
     <1>14, <1>15, <1>16 DEF Next, PodStep

\* The types hold in every state: no step, at whatever point a run stopped or an
\* agent wrote, leaves a row under a table or a value it cannot have.
THEOREM TypeCorrect == Spec => []TypeOK
<1>1. Typed => TypeOK
  BY DEF Typed
<1> QED
  BY InitTyped, StepTyped, <1>1, PTL DEF Spec
-----------------------------------------------------------------------------
(* Heal rows. *)

Planned == phase \in {"planned", "applying"}

\* No other file still to be applied writes or deletes the row of a heal file,
\* and the graph holds it as the snapshot did.
NotesUntouched ==
  \A n \in Notes : NoteRow(n) \in heals =>
    /\ snap.note[n] # None /\ brain.note[n] = snap.note[n]
    /\ NoteRow(n) \notin UNION prunes /\ NoteRow(n) \notin nodes

PassagesUntouched ==
  \A p \in Pids : PassageRow(p) \in heals =>
    /\ snap.text[p] # None /\ brain.text[p] = snap.text[p]
    /\ PassageRow(p) \notin UNION prunes /\ p \notin units

HealInv ==
  /\ Typed
  /\ phase = "snapped" => brain.note = snap.note /\ brain.text = snap.text
  /\ Planned => NotesUntouched /\ PassagesUntouched

\* plan_heal leaves alone every row the rest of the plan writes or deletes.
LEMMA HealApart ==
  ASSUME NEW c \in Vaults, NEW g \in Graphs, NEW B \in Batches(Work(c, g), g)
  PROVE  /\ \A n \in Notes : NoteRow(n) \in HealCandidates(c, g, B) =>
              /\ g.note[n] # None
              /\ NoteRow(n) \notin UNION PruneGroups(c, g, B)
              /\ NoteRow(n) \notin PlannedNodes(c, g, B)
         /\ \A p \in Pids : PassageRow(p) \in HealCandidates(c, g, B) =>
              /\ g.text[p] # None
              /\ PassageRow(p) \notin UNION PruneGroups(c, g, B)
              /\ p \notin PlannedUnits(c, g, B)
<1>1. ASSUME NEW n \in Notes, NoteRow(n) \in HealCandidates(c, g, B)
      PROVE  n \in Present(c) /\ n \notin Rewritten(c, g)
  BY <1>1 DEF HealCandidates, NoteRow, PassageRow
<1>2. ASSUME NEW p \in Pids, PassageRow(p) \in HealCandidates(c, g, B)
      PROVE  p \notin Touched(c, g, B) /\ g.text[p] # None
  BY <1>2 DEF HealCandidates, NoteRow, PassageRow
<1>3. ASSUME NEW n \in Notes, NoteRow(n) \in UNION PruneGroups(c, g, B)
      PROVE  n \in Gone(c, g)
  BY <1>3 DEF PruneGroups, RemovalGroup, NoteRow, PassageRow, ArtifactRow, LinksOf
<1>4. ASSUME NEW p \in Pids, PassageRow(p) \in UNION PruneGroups(c, g, B)
      PROVE  p \in Touched(c, g, B)
  BY <1>4 DEF PruneGroups, RemovalGroup, Touched, NoteRow, PassageRow, ArtifactRow, LinksOf
<1>5. ASSUME NEW n \in Notes, NoteRow(n) \in PlannedNodes(c, g, B)
      PROVE  n \in Rewritten(c, g)
  BY <1>5 DEF PlannedNodes, NoteRow, ArtifactRow
<1>6. PlannedUnits(c, g, B) \subseteq Touched(c, g, B)
  BY DEF PlannedUnits, Touched
<1>7. \A n \in Present(c) \ Rewritten(c, g) : n \notin Gone(c, g) /\ g.note[n] # None
  BY DEF Present, Rewritten, Gone
<1> QED
  BY <1>1, <1>2, <1>3, <1>4, <1>5, <1>6, <1>7

LEMMA InitHeal == Init => HealInv
<1> SUFFICES ASSUME Init PROVE HealInv
  OBVIOUS
<1>1. phase = "idle"
  BY DEF Init
<1> QED
  BY <1>1, InitTyped DEF HealInv, Planned

\* Steps that leave the pod's plan alone, and note and text of the graph.
LEMMA HealStutter ==
  ASSUME HealInv, Typed', UNCHANGED <<phase, snap, prunes, nodes, units, heals>>,
         brain'.note = brain.note, brain'.text = brain.text
  PROVE  HealInv'
BY DEF HealInv, Planned, NotesUntouched, PassagesUntouched

\* Steps of the apply phase: a file changes notes and texts only in rows it took
\* from the plan, or to what the snapshot holds.
LEMMA HealApply ==
  ASSUME HealInv, Typed', phase = "applying", UNCHANGED <<phase, snap>>,
         UNION prunes' \subseteq UNION prunes, nodes' \subseteq nodes,
         units' \subseteq units, heals' \subseteq heals,
         \A n \in Notes : NoteRow(n) \in heals => brain'.note[n] = snap.note[n],
         \A p \in Pids : PassageRow(p) \in heals => brain'.text[p] = snap.text[p]
  PROVE  HealInv'
BY DEF HealInv, Planned, NotesUntouched, PassagesUntouched

LEMMA StepHeal == HealInv /\ [Next]_vars => HealInv'
<1> SUFFICES ASSUME HealInv, [Next]_vars PROVE HealInv'
  OBVIOUS
<1>0. Typed /\ Typed' /\ TypeOK
  BY StepTyped DEF HealInv, Typed
<1>1. CASE CloneVault
  BY <1>0, <1>1 DEF CloneVault, HealInv, Planned
<1>2. CASE Snapshot
  BY <1>0, <1>2 DEF Snapshot, HealInv, Planned
<1>3. CASE ClearPod
  BY <1>0, <1>3 DEF ClearPod, HealInv, Planned
<1>4. CASE MakePlan
  <2>1. PICK B \in Batches(Work(clone, snap), snap) :
          /\ prunes' = PruneGroups(clone, snap, B)
          /\ nodes'  = PlannedNodes(clone, snap, B)
          /\ units'  = PlannedUnits(clone, snap, B)
          /\ heals' \subseteq HealCandidates(clone, snap, B)
    BY <1>4 DEF MakePlan, HealChoices
  <2>2. clone \in Vaults /\ snap \in Graphs
    BY <1>0 DEF TypeOK
  <2>3. phase' = "planned" /\ brain' = brain /\ snap' = snap
    BY <1>4 DEF MakePlan
  <2>4. brain.note = snap.note /\ brain.text = snap.text
    BY <1>4 DEF HealInv, MakePlan
  <2>5. NotesUntouched' /\ PassagesUntouched'
    BY <2>1, <2>2, <2>3, <2>4, HealApart DEF NotesUntouched, PassagesUntouched
  <2> QED
    BY <1>0, <2>3, <2>5 DEF HealInv
<1>5. CASE Embed \/ EmbedOutage
  <2>1. /\ phase = "planned" /\ phase' = "applying" /\ heals' \subseteq heals
        /\ UNCHANGED <<brain, snap, prunes, nodes, units>>
    BY <1>5 DEF Embed, EmbedOutage
  <2> QED
    BY <1>0, <2>1 DEF HealInv, Planned, NotesUntouched, PassagesUntouched
<1>6. CASE ApplyPrune
  <2>1. PICK F \in SUBSET prunes : brain' = Delete(brain, UNION F) /\ prunes' = prunes \ F
    BY <1>6 DEF ApplyPrune, Files
  <2>2. phase = "applying" /\ UNCHANGED <<phase, snap, nodes, units, heals>>
    BY <1>6 DEF ApplyPrune
  <2>3. NotesUntouched /\ PassagesUntouched
    BY <2>2 DEF HealInv, Planned
  <2>4. brain \in Graphs /\ UNION F \subseteq UNION prunes
    BY <1>0, <2>1 DEF TypeOK
  <2>5. \A n \in Notes : NoteRow(n) \in heals => brain'.note[n] = snap.note[n]
    BY <2>1, <2>3, <2>4 DEF NotesUntouched, Delete, Graphs
  <2>6. \A p \in Pids : PassageRow(p) \in heals => brain'.text[p] = snap.text[p]
    BY <2>1, <2>3, <2>4 DEF PassagesUntouched, Delete, Graphs
  <2>7. UNION prunes' \subseteq UNION prunes
    BY <2>1
  <2> QED
    BY <1>0, <2>2, <2>5, <2>6, <2>7, HealApply
<1>7. CASE ApplyNodes
  <2>1. PICK F \in SUBSET nodes : brain' = LoadedNodes(brain, F) /\ nodes' = nodes \ F
    BY <1>7 DEF ApplyNodes, Files
  <2>2. phase = "applying" /\ UNCHANGED <<phase, snap, prunes, units, heals>>
    BY <1>7 DEF ApplyNodes
  <2>3. NotesUntouched /\ PassagesUntouched
    BY <2>2 DEF HealInv, Planned
  <2>4. brain \in Graphs
    BY <1>0 DEF TypeOK
  <2>5. /\ brain'.text = brain.text
        /\ \A n \in Notes : NoteRow(n) \notin F => brain'.note[n] = brain.note[n]
    BY <2>1, <2>4 DEF LoadedNodes, MergeNotes, NotesIn, Graphs
  <2>6. \A n \in Notes : NoteRow(n) \in heals => brain'.note[n] = snap.note[n]
    BY <2>1, <2>3, <2>5 DEF NotesUntouched
  <2>7. \A p \in Pids : PassageRow(p) \in heals => brain'.text[p] = snap.text[p]
    BY <2>3, <2>5 DEF PassagesUntouched
  <2> QED
    BY <1>0, <2>1, <2>2, <2>6, <2>7, HealApply
<1>8. CASE ApplyUnits
  <2>1. PICK F \in SUBSET units : brain' = LoadedUnits(brain, F) /\ units' = units \ F
    BY <1>8 DEF ApplyUnits, Files
  <2>2. phase = "applying" /\ UNCHANGED <<phase, snap, prunes, nodes, heals>>
    BY <1>8 DEF ApplyUnits
  <2>3. NotesUntouched /\ PassagesUntouched
    BY <2>2 DEF HealInv, Planned
  <2>4. brain \in Graphs
    BY <1>0 DEF TypeOK
  <2>5. /\ brain'.note = brain.note
        /\ \A p \in Pids : p \notin F => brain'.text[p] = brain.text[p]
    BY <2>1, <2>4 DEF LoadedUnits, MergePassages, Graphs
  <2>6. \A n \in Notes : NoteRow(n) \in heals => brain'.note[n] = snap.note[n]
    BY <2>3, <2>5 DEF NotesUntouched
  <2>7. \A p \in Pids : PassageRow(p) \in heals => brain'.text[p] = snap.text[p]
    BY <2>1, <2>3, <2>5 DEF PassagesUntouched
  <2> QED
    BY <1>0, <2>1, <2>2, <2>6, <2>7, HealApply
<1>9. CASE ApplyEdges
  <2>1. UNCHANGED <<phase, snap, prunes, nodes, units, heals>>
    BY <1>9 DEF ApplyEdges
  <2>2. brain'.note = brain.note /\ brain'.text = brain.text
    BY <1>0, <1>9 DEF ApplyEdges, LoadedEdges, TypeOK, Graphs
  <2> QED
    BY <1>0, <2>1, <2>2, HealStutter
<1>10. CASE ApplyHeal
  <2>1. PICK F \in SUBSET heals : brain' = Healed(brain, F) /\ heals' = heals \ F
    BY <1>10 DEF ApplyHeal, Files
  <2>2. phase = "applying" /\ UNCHANGED <<phase, snap, prunes, nodes, units>>
    BY <1>10 DEF ApplyHeal
  <2>3. NotesUntouched /\ PassagesUntouched
    BY <2>2 DEF HealInv, Planned
  <2>4. brain \in Graphs
    BY <1>0 DEF TypeOK
  <2>5. \A n \in Notes : brain'.note[n] = IF NoteRow(n) \in F THEN snap.note[n] ELSE brain.note[n]
    BY <2>1, <2>4 DEF Healed, MergeNotes, MergePassages, NotesIn, Graphs
  <2>6. \A p \in Pids : brain'.text[p] = IF PassageRow(p) \in F THEN snap.text[p] ELSE brain.text[p]
    BY <2>1, <2>4 DEF Healed, MergeNotes, MergePassages, PassagesIn, Graphs
  <2>7. \A n \in Notes : NoteRow(n) \in heals => brain'.note[n] = snap.note[n]
    BY <2>3, <2>5 DEF NotesUntouched
  <2>8. \A p \in Pids : PassageRow(p) \in heals => brain'.text[p] = snap.text[p]
    BY <2>3, <2>6 DEF PassagesUntouched
  <2> QED
    BY <1>0, <2>1, <2>2, <2>7, <2>8, HealApply
<1>11. CASE Environment \/ UNCHANGED vars
  <2>1. UNCHANGED <<phase, snap, prunes, nodes, units, heals>>
    BY <1>11 DEF Environment, EditVault, AgentLinks, AgentDeletes, AgentSources, vars, podVars, planVars
  <2>2. brain'.note = brain.note /\ brain'.text = brain.text
    BY <1>0, <1>11 DEF Environment, EditVault, AgentLinks, AgentDeletes, AgentSources, vars, TypeOK, Graphs
  <2> QED
    BY <1>0, <2>1, <2>2, HealStutter
<1> QED
  BY <1>1, <1>2, <1>3, <1>4, <1>5, <1>6, <1>7, <1>8, <1>9, <1>10, <1>11
     DEF Next, PodStep, RefuseEmptyVault, Report, Refused, Fail

\* Reloading the rows an outage left without a vector never brings back a row the
\* run deleted and never undoes a text it wrote, whatever the vault, the graph an
\* earlier run left and the agents' writes (plan_heal, apply.sh).
THEOREM HealSafe == Spec => []HealKeepsText
<1>1. HealInv => HealKeepsText
  BY DEF HealInv, HealKeepsText, Planned, NotesUntouched, PassagesUntouched, NotesIn, PassagesIn
<1> QED
  BY InitHeal, StepHeal, <1>1, PTL DEF Spec
-----------------------------------------------------------------------------
(* Links. *)

\* A link between vault notes that is still to be loaded and is in the graph
\* already is about to be deleted with every link of its note.
UnlinkedFirst ==
  \A n, t \in Notes : Link(n, t) \in edges /\ <<n, t>> \in brain.links =>
    LinksOf(n) \in UNION prunes

LinkInv ==
  /\ Typed
  /\ phase = "snapped" => \A n, t \in Notes : <<n, t>> \in brain.links => <<n, t>> \in snap.links
  /\ Planned => UnlinkedFirst

LEMMA InitLink == Init => LinkInv
<1> SUFFICES ASSUME Init PROVE LinkInv
  OBVIOUS
<1>1. phase = "idle"
  BY DEF Init
<1> QED
  BY <1>1, InitTyped DEF LinkInv, Planned

\* The plan deletes the links of every note whose links it loads again.
LEMMA RelinkDeletes ==
  ASSUME NEW c \in Vaults, NEW g \in Graphs, NEW B \in Batches(Work(c, g), g),
         NEW n \in Notes, NEW t \in Notes, Link(n, t) \in PlannedEdges(c, g, B), <<n, t>> \in g.links
  PROVE  LinksOf(n) \in UNION PruneGroups(c, g, B)
<1>1. n \in Relinked(c, g)
  BY DEF PlannedEdges, Link, ArtEdge
<1>2. t \in Targets(g, n)
  BY DEF Targets
<1>3. {LinksOf(n)} \in PruneGroups(c, g, B)
  BY <1>1, <1>2 DEF PruneGroups
<1> QED
  BY <1>3

\* A step that adds no link between vault notes, plans no edge and deletes no
\* unlink statement.
LEMMA LinkStutter ==
  ASSUME LinkInv, Typed', UNCHANGED snap, phase' = phase \/ (Planned /\ Planned'),
         edges' \subseteq edges, prunes' = prunes,
         \A n, t \in Notes : <<n, t>> \in brain'.links => <<n, t>> \in brain.links
  PROVE  LinkInv'
BY DEF LinkInv, Planned, UnlinkedFirst

LEMMA StepLink == LinkInv /\ [Next]_vars => LinkInv'
<1> SUFFICES ASSUME LinkInv, [Next]_vars PROVE LinkInv'
  OBVIOUS
<1>0. Typed' /\ TypeOK
  BY StepTyped DEF LinkInv, Typed
<1>1. CASE CloneVault
  BY <1>0, <1>1 DEF CloneVault, LinkInv, Planned
<1>2. CASE Snapshot
  BY <1>0, <1>2 DEF Snapshot, LinkInv, Planned
<1>3. CASE ClearPod
  BY <1>0, <1>3 DEF ClearPod, LinkInv, Planned
<1>4. CASE MakePlan
  <2>1. PICK B \in Batches(Work(clone, snap), snap) :
          /\ prunes' = PruneGroups(clone, snap, B)
          /\ edges'  = PlannedEdges(clone, snap, B)
    BY <1>4 DEF MakePlan
  <2>2. clone \in Vaults /\ snap \in Graphs
    BY <1>0 DEF TypeOK
  <2>3. phase' = "planned" /\ brain' = brain
    BY <1>4 DEF MakePlan
  <2>4. \A n, t \in Notes : <<n, t>> \in brain.links => <<n, t>> \in snap.links
    BY <1>4 DEF LinkInv, MakePlan
  <2>5. UnlinkedFirst'
    BY <2>1, <2>2, <2>3, <2>4, RelinkDeletes DEF UnlinkedFirst
  <2> QED
    BY <1>0, <2>3, <2>5 DEF LinkInv
<1>5. CASE Embed \/ EmbedOutage
  BY <1>0, <1>5, LinkStutter DEF Embed, EmbedOutage, Planned
<1>6. CASE ApplyPrune
  <2>1. PICK F \in SUBSET prunes : brain' = Delete(brain, UNION F) /\ prunes' = prunes \ F
    BY <1>6 DEF ApplyPrune, Files
  <2>2. phase = "applying" /\ UNCHANGED <<phase, edges>>
    BY <1>6 DEF ApplyPrune
  <2>3. UnlinkedFirst
    BY <2>2 DEF LinkInv, Planned
  <2>4. ASSUME NEW n \in Notes, NEW t \in Notes, <<n, t>> \in brain'.links
        PROVE  <<n, t>> \in brain.links /\ LinksOf(n) \notin UNION F
    BY <1>0, <2>1, <2>4 DEF Delete, TypeOK, Graphs
  <2>5. ASSUME NEW n \in Notes, LinksOf(n) \in UNION prunes, LinksOf(n) \notin UNION F
        PROVE  LinksOf(n) \in UNION prunes'
    BY <2>1, <2>5
  <2>6. UnlinkedFirst'
    BY <2>2, <2>3, <2>4, <2>5 DEF UnlinkedFirst
  <2> QED
    BY <1>0, <2>2, <2>6 DEF LinkInv
<1>7. CASE ApplyNodes
  <2>1. brain'.links = brain.links
    BY <1>0, <1>7 DEF ApplyNodes, LoadedNodes, MergeNotes, TypeOK, Graphs
  <2> QED
    BY <1>0, <1>7, <2>1, LinkStutter DEF ApplyNodes
<1>8. CASE ApplyUnits
  <2>1. brain'.links = brain.links
    BY <1>0, <1>8 DEF ApplyUnits, LoadedUnits, MergePassages, TypeOK, Graphs
  <2> QED
    BY <1>0, <1>8, <2>1, LinkStutter DEF ApplyUnits
<1>9. CASE ApplyEdges
  <2>1. PICK F \in SUBSET edges : brain' = LoadedEdges(brain, F) /\ edges' = edges \ F
    BY <1>9 DEF ApplyEdges, Files
  <2>2. phase = "applying" /\ UNCHANGED <<phase, prunes>>
    BY <1>9 DEF ApplyEdges
  <2>3. \A n, t \in Notes : <<n, t>> \in brain'.links => <<n, t>> \in brain.links \/ Link(n, t) \in F
    BY <1>0, <2>1 DEF LoadedEdges, TypeOK, Graphs
  <2>4. UnlinkedFirst'
    BY <2>1, <2>2, <2>3 DEF LinkInv, Planned, UnlinkedFirst
  <2> QED
    BY <1>0, <2>2, <2>4 DEF LinkInv
<1>10. CASE ApplyHeal
  <2>1. brain'.links = brain.links
    BY <1>0, <1>10 DEF ApplyHeal, Healed, MergeNotes, MergePassages, TypeOK, Graphs
  <2> QED
    BY <1>0, <1>10, <2>1, LinkStutter DEF ApplyHeal
<1>11. CASE Environment \/ UNCHANGED vars
  <2>1. UNCHANGED <<phase, snap, prunes, edges>>
    BY <1>11 DEF Environment, EditVault, AgentLinks, AgentDeletes, AgentSources, vars, podVars, planVars
  <2>2. \A n, t \in Notes : <<n, t>> \in brain'.links => <<n, t>> \in brain.links
    <3>0. brain \in Graphs
      BY <1>0 DEF TypeOK
    <3>1. CASE AgentLinks
      <4>1. PICK m \in Notes, f \in brain.foreign : brain' = [brain EXCEPT !.links = @ \cup {<<m, f>>}]
        BY <3>1 DEF AgentLinks
      <4>2. f \notin Notes
        BY <3>0, <4>1, DataAssumption DEF Graphs
      <4> QED
        BY <3>0, <4>1, <4>2 DEF Graphs
    <3>2. CASE AgentDeletes
      BY <3>0, <3>2 DEF AgentDeletes, Graphs
    <3>3. CASE AgentSources
      BY <3>0, <3>3 DEF AgentSources, Graphs
    <3>4. CASE EditVault \/ UNCHANGED vars
      BY <3>4 DEF EditVault, vars
    <3> QED
      BY <1>11, <3>1, <3>2, <3>3, <3>4 DEF Environment
  <2> QED
    BY <1>0, <2>1, <2>2, LinkStutter
<1> QED
  BY <1>1, <1>2, <1>3, <1>4, <1>5, <1>6, <1>7, <1>8, <1>9, <1>10, <1>11
     DEF Next, PodStep, RefuseEmptyVault, Report, Refused, Fail

\* An edge load does not deduplicate, so the importer deletes the links of a note
\* before it loads them again: once the loads start, no link between vault notes
\* that is still to be loaded is in the graph, wherever an earlier run stopped
\* (build_plan's unlinks, write_plan's order, apply.sh).
THEOREM LinksOnce == Spec => []NoLinkLoadedTwice
<1>1. LinkInv => NoLinkLoadedTwice
  BY DEF LinkInv, NoLinkLoadedTwice, Planned, UnlinkedFirst
<1> QED
  BY InitLink, StepLink, <1>1, PTL DEF Spec
-----------------------------------------------------------------------------
(* The plan and the graph, file by file. *)

Pending == UNION prunes

\* The graph is well formed, and a passage has its edge exactly when it is there.
GraphInv ==
  /\ WellFormed(brain)
  /\ brain.of = {p \in Pids : brain.text[p] # None}

\* Since the snapshot agents have touched nothing but their own nodes, the edges to them and
\* the artifacts of notes that had none.
SnapInv ==
  /\ brain.note = snap.note /\ brain.text = snap.text /\ brain.shadow = snap.shadow
  /\ \A n, t \in Notes : <<n, t>> \in brain.links <=> <<n, t>> \in snap.links
  /\ \A n \in Notes : snap.art[n] # "none" => brain.art[n] # "none"
  /\ \A e \in snap.links : e[2] \in brain.foreign => e \in brain.links

\* A row the plan has not got to is as the snapshot has it, any other as the vault says.
NotesPlan ==
  \A n \in Notes :
    /\ NoteRow(n) \in Pending => n \notin Present(clone)
    /\ NoteRow(n) \in nodes => n \in Present(clone)
    /\ NoteRow(n) \notin Pending \cup nodes => brain.note[n] = clone.ver[n]

\* A run that deferred notes leaves their shadows and passages as they were.
ShadowsPlan ==
  \A n \in Notes :
    /\ ArtifactRow(n) \in Pending => n \notin Chunked(clone)
    /\ ArtifactRow(n) \in nodes => n \in Chunked(clone)
    /\ n \notin Chunked(clone) /\ ArtifactRow(n) \notin Pending => brain.shadow[n] = None
    /\ n \in Chunked(clone) /\ ~deferred /\ ArtifactRow(n) \notin nodes =>
         brain.shadow[n] = DigestOf[clone.ver[n]]

\* What is to be loaded under the shadow artifact of note n finds it there.
ShadowComes(n) == n \in Chunked(clone) /\ (ArtifactRow(n) \in nodes \/ brain.shadow[n] # None)

PassagesPlan ==
  \A p \in Pids :
    /\ PassageRow(p) \in Pending => p \notin Wanted(clone, p[1])
    /\ p \in units =>
         p \in Wanted(clone, p[1]) /\ brain.text[p] = snap.text[p] /\ ShadowComes(p[1])
    /\ brain.text[p] \in {snap.text[p], ChunkTexts[p]}
    /\ (p[1] \notin Chunked(clone) \/ ~deferred) /\ p \notin units /\ PassageRow(p) \notin Pending =>
         brain.text[p] = ChunkTexts[p]

\* A shadow artifact goes in one group with all its passages.
GroupsPlan ==
  \A G \in prunes, n \in Notes :
    ArtifactRow(n) \in G => \A p \in Pids : p[1] = n /\ snap.text[p] # None => PassageRow(p) \in G

\* The links of a note are deleted and loaded again, or are what the vault says.
LinksPlan ==
  \A n \in Notes, t \in Notes \cup Foreign :
    /\ Link(n, t) \in edges => n \in Present(clone) /\ t \in LinkTargets(clone, n) \cup Foreign
    /\ LinksOf(n) \in Pending /\ t \in LinkTargets(clone, n) => Link(n, t) \in edges
    /\ LinksOf(n) \notin Pending /\ n \in Present(clone) /\ t \in Notes =>
         (<<n, t>> \in brain.links <=> t \in LinkTargets(clone, n) /\ Link(n, t) \notin edges)

ArtsPlan ==
  \A n \in Notes :
    /\ ArtEdge(n) \in edges => ShadowComes(n)
    /\ ~deferred /\ n \in Chunked(clone) => brain.art[n] # "none" \/ ArtEdge(n) \in edges

\* An edge to a foreign node is in the graph, or comes back.
ForeignPlan ==
  \A e \in snap.links : e[2] \in brain.foreign /\ e[1] \in Present(clone) =>
    \/ Link(e[1], e[2]) \in edges
    \/ e \in brain.links /\ LinksOf(e[1]) \notin Pending

PlanInv ==
  NotesPlan /\ ShadowsPlan /\ PassagesPlan /\ GroupsPlan /\ LinksPlan /\ ArtsPlan /\ ForeignPlan

RunInv ==
  /\ HealInv /\ GraphInv
  /\ phase = "snapped" => SnapInv
  /\ Planned => PlanInv

-----------------------------------------------------------------------------
(* What the server's operations leave, field by field. *)

LEMMA DeleteIs ==
  ASSUME NEW g \in Graphs, NEW S
  PROVE  /\ \A n \in Notes : Delete(g, S).note[n] = IF NoteRow(n) \in S THEN None ELSE g.note[n]
         /\ \A n \in Notes : Delete(g, S).shadow[n] = IF ArtifactRow(n) \in S THEN None ELSE g.shadow[n]
         /\ \A p \in Pids : Delete(g, S).text[p] = IF PassageRow(p) \in S THEN None ELSE g.text[p]
         /\ \A p \in Pids : p \in Delete(g, S).of <=> p \in g.of /\ PassageRow(p) \notin S
         /\ \A e : e \in Delete(g, S).links <=>
              /\ e \in g.links /\ LinksOf(e[1]) \notin S
              /\ NoteRow(e[1]) \notin S /\ NoteRow(e[2]) \notin S
         /\ \A n \in Notes : Delete(g, S).art[n] =
              IF NoteRow(n) \in S \/ (g.art[n] = "shadow" /\ ArtifactRow(n) \in S) THEN "none" ELSE g.art[n]
         /\ Delete(g, S).foreign = g.foreign
BY DEF Delete, Graphs

LEMMA LoadedNodesAre ==
  ASSUME brain \in Graphs, NEW F
  PROVE  /\ \A n \in Notes : LoadedNodes(brain, F).note[n] =
              IF NoteRow(n) \in F THEN clone.ver[n] ELSE brain.note[n]
         /\ \A n \in Notes : LoadedNodes(brain, F).shadow[n] =
              IF ArtifactRow(n) \in F THEN DigestOf[clone.ver[n]] ELSE brain.shadow[n]
         /\ LoadedNodes(brain, F).text = brain.text /\ LoadedNodes(brain, F).of = brain.of
         /\ LoadedNodes(brain, F).links = brain.links /\ LoadedNodes(brain, F).art = brain.art
         /\ LoadedNodes(brain, F).foreign = brain.foreign
BY DEF LoadedNodes, MergeNotes, NotesIn, Graphs

LEMMA LoadedUnitsAre ==
  ASSUME brain \in Graphs, NEW F
  PROVE  /\ \A p \in Pids : LoadedUnits(brain, F).text[p] = IF p \in F THEN ChunkTexts[p] ELSE brain.text[p]
         /\ LoadedUnits(brain, F).of = brain.of \cup NewEdges(F)
         /\ LoadedUnits(brain, F).note = brain.note /\ LoadedUnits(brain, F).shadow = brain.shadow
         /\ LoadedUnits(brain, F).links = brain.links /\ LoadedUnits(brain, F).art = brain.art
         /\ LoadedUnits(brain, F).foreign = brain.foreign
BY DEF LoadedUnits, MergePassages, Graphs

LEMMA LoadedEdgesAre ==
  ASSUME brain \in Graphs, NEW F
  PROVE  /\ \A e : e \in LoadedEdges(brain, F).links <=>
              \/ e \in brain.links
              \/ e \in Notes \X (Notes \cup Foreign) /\ Link(e[1], e[2]) \in F
         /\ \A n \in Notes : LoadedEdges(brain, F).art[n] = IF ArtEdge(n) \in F THEN "shadow" ELSE brain.art[n]
         /\ LoadedEdges(brain, F).note = brain.note /\ LoadedEdges(brain, F).shadow = brain.shadow
         /\ LoadedEdges(brain, F).text = brain.text /\ LoadedEdges(brain, F).of = brain.of
         /\ LoadedEdges(brain, F).foreign = brain.foreign
BY DEF LoadedEdges, Graphs

\* A heal writes what the graph holds.
LEMMA HealedIs ==
  ASSUME Typed, NotesUntouched, PassagesUntouched, NEW F \in SUBSET heals
  PROVE  /\ Healed(brain, F).note = brain.note /\ Healed(brain, F).text = brain.text
         /\ Healed(brain, F).shadow = brain.shadow /\ Healed(brain, F).of = brain.of
         /\ Healed(brain, F).links = brain.links /\ Healed(brain, F).art = brain.art
         /\ Healed(brain, F).foreign = brain.foreign
<1>1. brain \in Graphs /\ Healed(brain, F) \in Graphs
  BY HealedType DEF Typed, TypeOK
<1>2. \A n \in Notes : Healed(brain, F).note[n] = brain.note[n]
  BY <1>1 DEF Healed, MergeNotes, MergePassages, NotesIn, NotesUntouched, Graphs
<1>3. \A p \in Pids : Healed(brain, F).text[p] = brain.text[p]
  BY <1>1 DEF Healed, MergeNotes, MergePassages, PassagesIn, PassagesUntouched, Graphs
<1>4. Healed(brain, F).note = brain.note /\ Healed(brain, F).text = brain.text
  BY <1>1, <1>2, <1>3 DEF Graphs
<1>5. /\ Healed(brain, F).shadow = brain.shadow /\ Healed(brain, F).of = brain.of
      /\ Healed(brain, F).links = brain.links /\ Healed(brain, F).art = brain.art
      /\ Healed(brain, F).foreign = brain.foreign
  BY <1>1 DEF Healed, MergeNotes, MergePassages, Graphs
<1> QED
  BY <1>4, <1>5

\* The text a passage is to have.
LEMMA TextsAre ==
  ASSUME clone \in Vaults, NEW p \in Pids
  PROVE  /\ p[1] \in Notes
         /\ p \in Wanted(clone, p[1]) =>
              /\ ChunkTexts[p] = Chunks(clone, p[1])[p[2]] /\ ChunkTexts[p] # None
              /\ p[1] \in Chunked(clone)
         /\ p \notin Wanted(clone, p[1]) => ChunkTexts[p] = None
<1>1. p[1] \in Notes
  BY DEF Pids
<1>2. ASSUME p \in Wanted(clone, p[1])
      PROVE  /\ ChunkTexts[p] = Chunks(clone, p[1])[p[2]] /\ ChunkTexts[p] # None
             /\ p[1] \in Chunked(clone)
  <2>1. ChunkTexts[p] = Chunks(clone, p[1])[p[2]] /\ ChunkTexts[p] \in Texts
    BY <1>1, <1>2, WantedChunks DEF ChunkTexts
  <2>2. p[1] \in Chunked(clone)
    <3>1. DOMAIN Chunks(clone, p[1]) # {}
      BY <1>2 DEF Wanted
    <3>2. p[1] \in Present(clone) /\ Chunks(clone, p[1]) # << >>
      <4>1. DOMAIN << >> = {}
        OBVIOUS
      <4> QED
        BY <1>1, <3>1, <4>1 DEF Chunks
    <3> QED
      BY <3>2 DEF Chunked
  <2> QED
    BY <2>1, <2>2, DataAssumption
<1>3. p \notin Wanted(clone, p[1]) => ChunkTexts[p] = None
  BY DEF ChunkTexts
<1> QED
  BY <1>1, <1>2, <1>3

LEMMA ChunkedDigest ==
  ASSUME clone \in Vaults, NEW n \in Chunked(clone)
  PROVE  n \in Notes /\ n \in Present(clone) /\ clone.ver[n] # None /\ DigestOf[clone.ver[n]] # None
<1>1. n \in Notes /\ n \in Present(clone) /\ clone.ver[n] # None
  BY DEF Chunked, Present
<1>2. clone.ver[n] \in Versions
  BY <1>1 DEF Vaults
<1> QED
  BY <1>1, <1>2, DataAssumption

-----------------------------------------------------------------------------
(* The plan at its start. *)

Doomed(c, g) == Gone(c, g) \cup Orphans(c, g) \cup Unchunked(c, g)

LEMMA DoomedAre ==
  ASSUME NEW c \in Vaults, NEW g \in Graphs, NEW n \in Notes
  PROVE  /\ n \in Doomed(c, g) => n \notin Chunked(c)
         /\ n \notin Chunked(c) /\ HasShadow(g, n) => n \in Doomed(c, g)
BY DEF Doomed, Gone, Orphans, Unchunked, Chunked, Present

LEMMA PrunesAre ==
  ASSUME NEW c \in Vaults, NEW g \in Graphs, NEW B \in SUBSET Notes
  PROVE  /\ \A n \in Notes : NoteRow(n) \in UNION PruneGroups(c, g, B) <=> n \in Gone(c, g)
         /\ \A n \in Notes : ArtifactRow(n) \in UNION PruneGroups(c, g, B) <=>
              n \in Doomed(c, g) /\ g.shadow[n] # None
         /\ \A p \in Pids : PassageRow(p) \in UNION PruneGroups(c, g, B) <=>
              \/ p[1] \in Doomed(c, g) /\ p \in Stored(g, p[1])
              \/ p[1] \in B /\ p \in Removed(c, g, p[1])
         /\ \A n \in Notes : LinksOf(n) \in UNION PruneGroups(c, g, B) <=>
              n \in Relinked(c, g) /\ Targets(g, n) # {}
         /\ \A G \in PruneGroups(c, g, B), n \in Notes : ArtifactRow(n) \in G =>
              \A p \in Stored(g, n) : PassageRow(p) \in G
<1> DEFINE removal(n) == RemovalGroup(g, n, Gone(c, g))
           groups == PruneGroups(c, g, B)
<1>1. \A G \in groups :
        \/ \E n \in Doomed(c, g) : G = removal(n)
        \/ \E n \in Relinked(c, g) : Targets(g, n) # {} /\ G = {LinksOf(n)}
        \/ \E n \in B : Removed(c, g, n) # {} /\ G = {PassageRow(p) : p \in Removed(c, g, n)}
  BY DEF PruneGroups, Doomed
<1>2. \A n \in Doomed(c, g) : removal(n) \in groups
  BY DEF PruneGroups, Doomed
<1>3. \A n \in Relinked(c, g) : Targets(g, n) # {} => {LinksOf(n)} \in groups
  BY DEF PruneGroups
<1>4. \A n \in B : Removed(c, g, n) # {} => {PassageRow(p) : p \in Removed(c, g, n)} \in groups
  BY DEF PruneGroups
<1>5. Gone(c, g) \subseteq Doomed(c, g) /\ Doomed(c, g) \subseteq Notes /\ Relinked(c, g) \subseteq Notes
  BY DEF Doomed, Gone, Orphans, Unchunked, Relinked, Present
<1>6. \A n \in Notes : \A s : s \in removal(n) <=>
        \/ \E p \in Stored(g, n) : s = PassageRow(p)
        \/ s = ArtifactRow(n) /\ g.shadow[n] # None
        \/ s = NoteRow(n) /\ n \in Gone(c, g)
  BY DEF RemovalGroup
<1>7. /\ \A n, m : NoteRow(n) = NoteRow(m) => n = m
      /\ \A n, m : ArtifactRow(n) = ArtifactRow(m) => n = m
      /\ \A n, m : PassageRow(n) = PassageRow(m) => n = m
      /\ \A n, m : LinksOf(n) = LinksOf(m) => n = m
      /\ \A n, m : NoteRow(n) # ArtifactRow(m) /\ NoteRow(n) # PassageRow(m) /\ NoteRow(n) # LinksOf(m)
      /\ \A n, m : ArtifactRow(n) # PassageRow(m) /\ ArtifactRow(n) # LinksOf(m)
      /\ \A n, m : PassageRow(n) # LinksOf(m)
  BY DEF NoteRow, ArtifactRow, PassageRow, LinksOf
<1>8. \A n \in Notes : \A p : p \in Stored(g, n) => p \in Pids /\ p[1] = n
  BY DEF Stored
<1>9. \A n \in Notes : \A p : p \in Removed(c, g, n) => p \in Stored(g, n)
  BY DEF Removed
<1> HIDE DEF removal, groups
<1>10. \A n \in Notes : NoteRow(n) \in UNION groups <=> n \in Gone(c, g)
  BY <1>1, <1>2, <1>5, <1>6, <1>7
<1>11. \A n \in Notes : ArtifactRow(n) \in UNION groups <=> n \in Doomed(c, g) /\ g.shadow[n] # None
  BY <1>1, <1>2, <1>5, <1>6, <1>7
<1>12. \A p \in Pids : PassageRow(p) \in UNION groups <=>
         \/ p[1] \in Doomed(c, g) /\ p \in Stored(g, p[1])
         \/ p[1] \in B /\ p \in Removed(c, g, p[1])
  <2> SUFFICES ASSUME NEW p \in Pids
               PROVE  PassageRow(p) \in UNION groups <=>
                        \/ p[1] \in Doomed(c, g) /\ p \in Stored(g, p[1])
                        \/ p[1] \in B /\ p \in Removed(c, g, p[1])
    OBVIOUS
  <2>1. ASSUME NEW G \in groups, PassageRow(p) \in G
        PROVE  \/ p[1] \in Doomed(c, g) /\ p \in Stored(g, p[1])
               \/ p[1] \in B /\ p \in Removed(c, g, p[1])
    <3>1. CASE \E n \in Doomed(c, g) : G = removal(n)
      BY <2>1, <3>1, <1>5, <1>6, <1>7, <1>8
    <3>2. CASE \E n \in Relinked(c, g) : G = {LinksOf(n)}
      BY <2>1, <3>2, <1>7
    <3>3. CASE \E n \in B : Removed(c, g, n) # {} /\ G = {PassageRow(q) : q \in Removed(c, g, n)}
      BY <2>1, <3>3, <1>7, <1>8, <1>9
    <3> QED
      BY <1>1, <3>1, <3>2, <3>3
  <2>2. p[1] \in Doomed(c, g) /\ p \in Stored(g, p[1]) => PassageRow(p) \in UNION groups
    BY <1>2, <1>5, <1>6
  <2>3. p[1] \in B /\ p \in Removed(c, g, p[1]) => PassageRow(p) \in UNION groups
    BY <1>4
  <2> QED
    BY <2>1, <2>2, <2>3
<1>13. \A n \in Notes : LinksOf(n) \in UNION groups <=> n \in Relinked(c, g) /\ Targets(g, n) # {}
  <2>1. ASSUME NEW n \in Notes, NEW G \in groups, LinksOf(n) \in G
        PROVE  n \in Relinked(c, g) /\ Targets(g, n) # {}
    <3>1. CASE \E m \in Doomed(c, g) : G = removal(m)
      BY <2>1, <3>1, <1>5, <1>6, <1>7
    <3>2. CASE \E m \in Relinked(c, g) : Targets(g, m) # {} /\ G = {LinksOf(m)}
      BY <2>1, <3>2, <1>7
    <3>3. CASE \E m \in B : G = {PassageRow(q) : q \in Removed(c, g, m)}
      BY <2>1, <3>3, <1>7
    <3> QED
      BY <1>1, <3>1, <3>2, <3>3
  <2> QED
    BY <1>3, <2>1
<1>14. \A G \in groups, n \in Notes : ArtifactRow(n) \in G => \A p \in Stored(g, n) : PassageRow(p) \in G
  BY <1>1, <1>5, <1>6, <1>7
<1> QED
  BY <1>10, <1>11, <1>12, <1>13, <1>14 DEF groups

\* A plan agrees with the snapshot it was made from.
LEMMA PlanMade ==
  ASSUME RunInv, MakePlan
  PROVE  PlanInv'
<1>1. PICK B \in Batches(Work(clone, snap), snap) :
        /\ prunes' = PruneGroups(clone, snap, B)
        /\ nodes'  = PlannedNodes(clone, snap, B)
        /\ units'  = PlannedUnits(clone, snap, B)
        /\ edges'  = PlannedEdges(clone, snap, B)
        /\ deferred' = (B # Work(clone, snap))
  BY DEF MakePlan
<1>2. clone \in Vaults /\ snap \in Graphs /\ brain \in Graphs
  BY DEF RunInv, HealInv, Typed, TypeOK
<1>3. brain' = brain /\ clone' = clone /\ snap' = snap /\ phase = "snapped" /\ ChunkTexts' = ChunkTexts
  BY DEF MakePlan, ChunkTexts
<1>4. SnapInv
  BY <1>3 DEF RunInv
<1>5. /\ B \subseteq Work(clone, snap) /\ Work(clone, snap) \subseteq Chunked(clone)
      /\ Chunked(clone) \subseteq Present(clone) /\ Present(clone) \subseteq Notes /\ B \in SUBSET Notes
  BY DEF Batches, Work, Chunked, Present
<1>6. \A n \in Chunked(clone) : /\ n \in Notes /\ n \in Present(clone) /\ clone.ver[n] # None
                                /\ DigestOf[clone.ver[n]] # None
  BY <1>2, ChunkedDigest
<1>7. \A n \in Notes : ArtifactRow(n) \in nodes' <=> n \in B /\ snap.shadow[n] # DigestOf[clone.ver[n]]
  BY <1>1, <1>5 DEF PlannedNodes, StaleShadow, NoteRow, ArtifactRow
<1>8. \A n \in Notes : NoteRow(n) \in nodes' <=> n \in Rewritten(clone, snap)
  BY <1>1, <1>5 DEF PlannedNodes, NoteRow, ArtifactRow, Rewritten
<1>9. \A p \in Pids : p \in units' <=> p[1] \in B /\ p \in Changed(clone, snap, p[1])
  <2>1. \A n \in B : \A p \in Changed(clone, snap, n) : p[1] = n
    BY <1>2, <1>5, WantedChunks DEF Changed
  <2> QED
    BY <1>1, <2>1 DEF PlannedUnits
<1>10. \A n \in Notes : n \in B => ShadowComes(n)'
  BY <1>3, <1>4, <1>5, <1>6, <1>7 DEF ShadowComes, SnapInv
<1>11. \A n \in Notes : \A s : Link(n, s) \in edges' <=>
         /\ n \in Relinked(clone, snap)
         /\ s \in LinkTargets(clone, n) \cup (Targets(snap, n) \ Notes)
  BY <1>1 DEF PlannedEdges, Link, ArtEdge
<1>12. \A n \in Notes : ArtEdge(n) \in edges' <=> n \in B /\ snap.art[n] = "none"
  BY <1>1 DEF PlannedEdges, Link, ArtEdge
<1>13. \A n \in Notes : \A s : s \in Targets(snap, n) <=> <<n, s>> \in snap.links
  <2>1. snap.links \subseteq Notes \X (Notes \cup Foreign)
    BY <1>2 DEF Graphs
  <2> QED
    BY <2>1 DEF Targets
<1>14. NotesPlan'
  <2>1. \A n \in Notes : NoteRow(n) \in Pending' <=> n \in Gone(clone, snap)
    BY <1>1, <1>2, <1>5, PrunesAre DEF Pending
  <2>2. \A n \in Notes : n \notin Gone(clone, snap) /\ n \notin Rewritten(clone, snap) => snap.note[n] = clone.ver[n]
    BY DEF Gone, Rewritten, Present
  <2>3. /\ \A n \in Notes : n \in Gone(clone, snap) => n \notin Present(clone)
        /\ \A n \in Notes : n \in Rewritten(clone, snap) => n \in Present(clone)
    BY DEF Gone, Rewritten
  <2> QED
    BY <1>3, <1>4, <1>8, <2>1, <2>2, <2>3 DEF NotesPlan, SnapInv
<1>15. ShadowsPlan'
  <2> SUFFICES ASSUME NEW n \in Notes
               PROVE  /\ ArtifactRow(n) \in Pending' => n \notin Chunked(clone)
                      /\ ArtifactRow(n) \in nodes' => n \in Chunked(clone)
                      /\ n \notin Chunked(clone) /\ ArtifactRow(n) \notin Pending' => brain.shadow[n] = None
                      /\ n \in Chunked(clone) /\ ~deferred' /\ ArtifactRow(n) \notin nodes' =>
                           brain.shadow[n] = DigestOf[clone.ver[n]]
    BY <1>3 DEF ShadowsPlan
  <2>1. ArtifactRow(n) \in Pending' <=> n \in Doomed(clone, snap) /\ snap.shadow[n] # None
    BY <1>1, <1>2, <1>5, PrunesAre DEF Pending
  <2>2. /\ n \in Doomed(clone, snap) => n \notin Chunked(clone)
        /\ n \notin Chunked(clone) /\ snap.shadow[n] # None => n \in Doomed(clone, snap)
    BY <1>2, DoomedAre DEF HasShadow
  <2>3. n \in Chunked(clone) /\ snap.shadow[n] # DigestOf[clone.ver[n]] => n \in Work(clone, snap)
    BY DEF Work, StaleShadow
  <2> QED
    BY <1>1, <1>4, <1>5, <1>7, <2>1, <2>2, <2>3 DEF SnapInv
<1>16. PassagesPlan'
  <2> SUFFICES ASSUME NEW p \in Pids
               PROVE  /\ PassageRow(p) \in Pending' => p \notin Wanted(clone, p[1])
                      /\ p \in units' =>
                           p \in Wanted(clone, p[1]) /\ brain.text[p] = snap.text[p] /\ ShadowComes(p[1])'
                      /\ brain.text[p] \in {snap.text[p], ChunkTexts[p]}
                      /\ (p[1] \notin Chunked(clone) \/ ~deferred') /\ p \notin units' /\ PassageRow(p) \notin Pending' =>
                           brain.text[p] = ChunkTexts[p]
    BY <1>3 DEF PassagesPlan
  <2>1. PassageRow(p) \in Pending' <=>
          \/ p[1] \in Doomed(clone, snap) /\ p \in Stored(snap, p[1])
          \/ p[1] \in B /\ p \in Removed(clone, snap, p[1])
    BY <1>1, <1>2, <1>5, PrunesAre DEF Pending
  <2>2. /\ p[1] \in Notes
        /\ p \in Wanted(clone, p[1]) => ChunkTexts[p] = Chunks(clone, p[1])[p[2]] /\ p[1] \in Chunked(clone)
        /\ p \notin Wanted(clone, p[1]) => ChunkTexts[p] = None
    BY <1>2, TextsAre
  <2>3. p \in Stored(snap, p[1]) <=> snap.text[p] # None
    BY DEF Stored
  <2>4. brain.text[p] = snap.text[p]
    BY <1>4 DEF SnapInv
  <2>5. /\ p[1] \in Doomed(clone, snap) => p[1] \notin Chunked(clone)
        /\ p[1] \notin Chunked(clone) /\ snap.text[p] # None => p[1] \in Doomed(clone, snap)
    BY <1>2, <2>2, <2>3, DoomedAre DEF HasShadow
  <2>6. /\ p \in Removed(clone, snap, p[1]) <=> p \in Stored(snap, p[1]) /\ p \notin Wanted(clone, p[1])
        /\ p \in Changed(clone, snap, p[1]) <=>
             p \in Wanted(clone, p[1]) /\ snap.text[p] # Chunks(clone, p[1])[p[2]]
    BY DEF Removed, Changed
  <2>7. p[1] \in Chunked(clone) /\ (p \in Removed(clone, snap, p[1]) \/ p \in Changed(clone, snap, p[1]))
          => p[1] \in Work(clone, snap)
    BY DEF Work
  <2>8. PassageRow(p) \in Pending' => p \notin Wanted(clone, p[1])
    BY <2>1, <2>2, <2>5, <2>6
  <2>9. p \in units' => p \in Wanted(clone, p[1]) /\ ShadowComes(p[1])'
    BY <1>9, <1>10, <2>2, <2>6
  <2>10. ASSUME p[1] \notin Chunked(clone) \/ ~deferred', p \notin units', PassageRow(p) \notin Pending'
         PROVE  snap.text[p] = ChunkTexts[p]
    <3>1. CASE p[1] \notin Chunked(clone)
      BY <2>1, <2>2, <2>3, <2>5, <2>10, <3>1
    <3>2. CASE p[1] \in Chunked(clone)
      <4>1. B = Work(clone, snap)
        BY <1>1, <2>10, <3>2
      <4>2. p \notin Removed(clone, snap, p[1]) /\ p \notin Changed(clone, snap, p[1])
        BY <1>9, <2>1, <2>7, <2>10, <3>2, <4>1
      <4> QED
        BY <2>2, <2>3, <2>6, <4>2
    <3> QED
      BY <3>1, <3>2
  <2> QED
    BY <2>4, <2>8, <2>9, <2>10
<1>17. GroupsPlan'
  BY <1>1, <1>2, <1>3, <1>5, PrunesAre DEF GroupsPlan, Stored
<1>18. LinksPlan'
  <2> SUFFICES ASSUME NEW n \in Notes, NEW t \in Notes \cup Foreign
               PROVE  /\ Link(n, t) \in edges' => n \in Present(clone) /\ t \in LinkTargets(clone, n) \cup Foreign
                      /\ LinksOf(n) \in Pending' /\ t \in LinkTargets(clone, n) => Link(n, t) \in edges'
                      /\ LinksOf(n) \notin Pending' /\ n \in Present(clone) /\ t \in Notes =>
                           (<<n, t>> \in brain.links <=> t \in LinkTargets(clone, n) /\ Link(n, t) \notin edges')
    BY <1>3 DEF LinksPlan
  <2>1. LinksOf(n) \in Pending' <=> n \in Relinked(clone, snap) /\ Targets(snap, n) # {}
    BY <1>1, <1>2, <1>5, PrunesAre DEF Pending
  <2>2. n \in Relinked(clone, snap) <=>
          n \in Present(clone) /\ LinkTargets(clone, n) # Targets(snap, n) \cap Notes
    BY DEF Relinked
  <2>3. t \in Notes => (<<n, t>> \in brain.links <=> t \in Targets(snap, n))
    BY <1>4, <1>13 DEF SnapInv
  <2> QED
    BY <1>11, <2>1, <2>2, <2>3
<1>19. ArtsPlan'
  <2> SUFFICES ASSUME NEW n \in Notes
               PROVE  /\ ArtEdge(n) \in edges' => ShadowComes(n)'
                      /\ ~deferred' /\ n \in Chunked(clone) => brain.art[n] # "none" \/ ArtEdge(n) \in edges'
    BY <1>3 DEF ArtsPlan
  <2>1. n \in Chunked(clone) /\ snap.art[n] = "none" => n \in Work(clone, snap)
    BY DEF Work
  <2> QED
    BY <1>1, <1>4, <1>10, <1>12, <2>1 DEF SnapInv
<1>20. ForeignPlan'
  <2> SUFFICES ASSUME NEW e \in snap.links, e[2] \in brain.foreign, e[1] \in Present(clone)
               PROVE  \/ Link(e[1], e[2]) \in edges'
                      \/ e \in brain.links /\ LinksOf(e[1]) \notin Pending'
    BY <1>3 DEF ForeignPlan
  <2>1. e[1] \in Notes /\ e = <<e[1], e[2]>> /\ e[2] \in Targets(snap, e[1]) /\ e[2] \notin Notes
    <3>1. e \in Notes \X (Notes \cup Foreign) /\ e[2] \in Foreign
      BY <1>2 DEF Graphs
    <3>2. e = <<e[1], e[2]>>
      BY <3>1
    <3> QED
      BY <1>13, <3>1, <3>2, DataAssumption
  <2>2. LinksOf(e[1]) \in Pending' => e[1] \in Relinked(clone, snap)
    BY <1>1, <1>2, <1>5, <2>1, PrunesAre DEF Pending
  <2> QED
    BY <1>4, <1>11, <2>1, <2>2 DEF SnapInv
<1> QED
  BY <1>14, <1>15, <1>16, <1>17, <1>18, <1>19, <1>20 DEF PlanInv

-----------------------------------------------------------------------------
(* The steps of the plan. *)

\* Steps that load nothing: an agent's write, a heal, the embedding.
LEMMA PlanKeeps ==
  ASSUME PlanInv, UNCHANGED <<clone, snap, prunes, nodes, units, edges, deferred>>,
         brain'.note = brain.note, brain'.text = brain.text, brain'.shadow = brain.shadow,
         \A n, t \in Notes : <<n, t>> \in brain'.links <=> <<n, t>> \in brain.links,
         \A n \in Notes : brain.art[n] # "none" => brain'.art[n] # "none",
         brain'.foreign \subseteq brain.foreign,
         \A e \in snap.links : e \in brain.links /\ e[2] \in brain'.foreign => e \in brain'.links
  PROVE  PlanInv'
<1> USE DEF PlanInv
<1>1. Pending' = Pending /\ ChunkTexts' = ChunkTexts
  BY DEF Pending, ChunkTexts
<1>2. \A n \in Notes : ShadowComes(n)' <=> ShadowComes(n)
  BY DEF ShadowComes
<1>3. NotesPlan' /\ ShadowsPlan' /\ GroupsPlan'
  BY <1>1 DEF NotesPlan, ShadowsPlan, GroupsPlan
<1>4. PassagesPlan'
  <2>1. \A p \in Pids : p[1] \in Notes
    BY DEF Pids
  <2> QED
    BY <1>1, <1>2, <2>1 DEF PassagesPlan
<1>5. LinksPlan'
  BY <1>1 DEF LinksPlan
<1>6. ArtsPlan'
  BY <1>2 DEF ArtsPlan
<1>7. ForeignPlan'
  BY <1>1 DEF ForeignPlan
<1> QED
  BY <1>3, <1>4, <1>5, <1>6, <1>7

LEMMA PrunePlan ==
  ASSUME Typed, PlanInv, NEW F \in SUBSET prunes,
         brain' = Delete(brain, UNION F), prunes' = prunes \ F,
         UNCHANGED <<clone, snap, nodes, units, edges, deferred>>
  PROVE  PlanInv'
<1> DEFINE S == UNION F
<1>1. S \subseteq Pending /\ Pending' \subseteq Pending /\ \A s \in Pending : s \in S \/ s \in Pending'
  BY DEF Pending
<1>2. brain \in Graphs /\ clone \in Vaults /\ snap \in Graphs /\ ChunkTexts' = ChunkTexts
  BY DEF Typed, TypeOK, ChunkTexts
<1> HIDE DEF S
<1>3. /\ \A n \in Notes : brain'.note[n] = IF NoteRow(n) \in S THEN None ELSE brain.note[n]
      /\ \A n \in Notes : brain'.shadow[n] = IF ArtifactRow(n) \in S THEN None ELSE brain.shadow[n]
      /\ \A p \in Pids : brain'.text[p] = IF PassageRow(p) \in S THEN None ELSE brain.text[p]
      /\ \A e : e \in brain'.links <=>
           /\ e \in brain.links /\ LinksOf(e[1]) \notin S
           /\ NoteRow(e[1]) \notin S /\ NoteRow(e[2]) \notin S
      /\ \A n \in Notes : brain'.art[n] =
           IF NoteRow(n) \in S \/ (brain.art[n] = "shadow" /\ ArtifactRow(n) \in S) THEN "none" ELSE brain.art[n]
      /\ brain'.foreign = brain.foreign
  BY <1>2, DeleteIs DEF S
<1>4. /\ NotesPlan /\ ShadowsPlan /\ PassagesPlan /\ GroupsPlan /\ LinksPlan /\ ArtsPlan /\ ForeignPlan
  BY DEF PlanInv
<1>5. \A n \in Notes : ShadowComes(n) => ShadowComes(n)' /\ NoteRow(n) \notin S /\ ArtifactRow(n) \notin S
  <2> SUFFICES ASSUME NEW n \in Notes, ShadowComes(n)
               PROVE  ShadowComes(n)' /\ NoteRow(n) \notin S /\ ArtifactRow(n) \notin S
    OBVIOUS
  <2>1. n \in Chunked(clone) /\ n \in Present(clone)
    BY DEF ShadowComes, Chunked
  <2>2. ArtifactRow(n) \notin S /\ NoteRow(n) \notin S
    BY <1>1, <1>4, <2>1 DEF ShadowsPlan, NotesPlan
  <2> QED
    BY <1>3, <2>2 DEF ShadowComes
<1>6. NotesPlan'
  <2>1. \A n \in Notes : n \notin Present(clone) => clone.ver[n] = None
    BY DEF Present
  <2> QED
    BY <1>1, <1>3, <1>4, <2>1 DEF NotesPlan
<1>7. ShadowsPlan'
  BY <1>1, <1>3, <1>4 DEF ShadowsPlan
<1>8. PassagesPlan'
  <2>1. \A p \in Pids : p[1] \in Notes /\ (p \notin Wanted(clone, p[1]) => ChunkTexts[p] = None)
    BY <1>2, TextsAre
  <2>2. \A p \in Pids : PassageRow(p) \in S => p \notin Wanted(clone, p[1])
    BY <1>1, <1>4 DEF PassagesPlan
  <2> QED
    BY <1>1, <1>2, <1>3, <1>4, <1>5, <2>1, <2>2 DEF PassagesPlan
<1>9. GroupsPlan'
  BY <1>4 DEF GroupsPlan
<1>10. LinksPlan'
  <2> SUFFICES ASSUME NEW n \in Notes, NEW t \in Notes \cup Foreign
               PROVE  /\ Link(n, t) \in edges => n \in Present(clone) /\ t \in LinkTargets(clone, n) \cup Foreign
                      /\ LinksOf(n) \in Pending' /\ t \in LinkTargets(clone, n) => Link(n, t) \in edges
                      /\ LinksOf(n) \notin Pending' /\ n \in Present(clone) /\ t \in Notes =>
                           (<<n, t>> \in brain'.links <=> t \in LinkTargets(clone, n) /\ Link(n, t) \notin edges)
    BY DEF LinksPlan
  <2>1. n \in Present(clone) => NoteRow(n) \notin S
    BY <1>1, <1>4 DEF NotesPlan
  <2>2. t \in LinkTargets(clone, n) => t \in Notes /\ NoteRow(t) \notin S
    BY <1>1, <1>4 DEF NotesPlan, LinkTargets, Present
  <2>3. <<n, t>> \in brain'.links <=>
          /\ <<n, t>> \in brain.links /\ LinksOf(n) \notin S /\ NoteRow(n) \notin S /\ NoteRow(t) \notin S
    <3>1. \A e : e = <<n, t>> => e[1] = n /\ e[2] = t
      OBVIOUS
    <3>2. PICK e : e = <<n, t>>
      OBVIOUS
    <3>3. e \in brain'.links <=>
            /\ e \in brain.links /\ LinksOf(e[1]) \notin S
            /\ NoteRow(e[1]) \notin S /\ NoteRow(e[2]) \notin S
      BY <1>3
    <3>4. e[1] = n /\ e[2] = t
      BY <3>1, <3>2
    <3> QED
      BY <3>2, <3>3, <3>4
  <2>4. /\ Link(n, t) \in edges => n \in Present(clone) /\ t \in LinkTargets(clone, n) \cup Foreign
        /\ LinksOf(n) \in Pending /\ t \in LinkTargets(clone, n) => Link(n, t) \in edges
        /\ LinksOf(n) \notin Pending /\ n \in Present(clone) /\ t \in Notes =>
             (<<n, t>> \in brain.links <=> t \in LinkTargets(clone, n) /\ Link(n, t) \notin edges)
    BY <1>4 DEF LinksPlan
  <2>5. CASE LinksOf(n) \in S
    <3>1. <<n, t>> \notin brain'.links /\ LinksOf(n) \in Pending
      BY <1>1, <2>3, <2>5
    <3> QED
      BY <2>4, <3>1
  <2>6. CASE LinksOf(n) \notin S
    <3>1. LinksOf(n) \in Pending' <=> LinksOf(n) \in Pending
      BY <1>1, <2>6
    <3> QED
      BY <2>1, <2>2, <2>3, <2>4, <2>6, <3>1
  <2> QED
    BY <2>5, <2>6
<1>11. ArtsPlan'
  <2>1. \A n \in Notes : n \in Chunked(clone) => NoteRow(n) \notin S /\ ArtifactRow(n) \notin S
    BY <1>1, <1>4 DEF NotesPlan, ShadowsPlan, Chunked
  <2> QED
    BY <1>3, <1>4, <1>5, <2>1 DEF ArtsPlan
<1>12. ForeignPlan'
  <2> SUFFICES ASSUME NEW e \in snap.links, e[2] \in brain.foreign, e[1] \in Present(clone)
               PROVE  \/ Link(e[1], e[2]) \in edges
                      \/ e \in brain'.links /\ LinksOf(e[1]) \notin Pending'
    BY <1>3 DEF ForeignPlan
  <2>1. NoteRow(e[1]) \notin S
    BY <1>1, <1>4 DEF NotesPlan, Present
  <2>2. NoteRow(e[2]) \notin S
    <3>1. e[2] \in Foreign /\ \A n \in Notes : n # e[2]
      BY <1>2, DataAssumption DEF Graphs
    <3>2. S \subseteq Statements
      BY DEF S, Typed, TypeOK
    <3>3. \A s \in Statements : s # NoteRow(e[2])
      BY <3>1 DEF Statements, NodeRows, NoteRow, ArtifactRow, PassageRow, LinksOf
    <3> QED
      BY <3>2, <3>3
  <2> QED
    BY <1>1, <1>3, <1>4, <2>1, <2>2 DEF ForeignPlan
<1> QED
  BY <1>6, <1>7, <1>8, <1>9, <1>10, <1>11, <1>12 DEF PlanInv

LEMMA NodesPlanned ==
  ASSUME Typed, PlanInv, NEW F \in SUBSET nodes,
         brain' = LoadedNodes(brain, F), nodes' = nodes \ F,
         UNCHANGED <<clone, snap, prunes, units, edges, deferred>>
  PROVE  PlanInv'
<1>1. brain \in Graphs /\ clone \in Vaults
  BY DEF Typed, TypeOK
<1>2. Pending' = Pending /\ ChunkTexts' = ChunkTexts
  BY DEF Pending, ChunkTexts
<1>3. /\ \A n \in Notes : brain'.note[n] = IF NoteRow(n) \in F THEN clone.ver[n] ELSE brain.note[n]
      /\ \A n \in Notes : brain'.shadow[n] =
           IF ArtifactRow(n) \in F THEN DigestOf[clone.ver[n]] ELSE brain.shadow[n]
      /\ brain'.text = brain.text /\ brain'.links = brain.links /\ brain'.art = brain.art
      /\ brain'.foreign = brain.foreign
  BY <1>1, LoadedNodesAre
<1>4. /\ NotesPlan /\ ShadowsPlan /\ PassagesPlan /\ GroupsPlan /\ LinksPlan /\ ArtsPlan /\ ForeignPlan
  BY DEF PlanInv
<1>5. \A n \in Notes : ShadowComes(n) => ShadowComes(n)'
  <2>1. \A n \in Notes : n \in Chunked(clone) => DigestOf[clone.ver[n]] # None
    BY <1>1, ChunkedDigest
  <2> QED
    BY <1>3, <2>1 DEF ShadowComes
<1>6. NotesPlan'
  BY <1>2, <1>3, <1>4 DEF NotesPlan
<1>7. ShadowsPlan'
  BY <1>2, <1>3, <1>4 DEF ShadowsPlan
<1>8. PassagesPlan'
  <2>1. \A p \in Pids : p[1] \in Notes
    BY DEF Pids
  <2> QED
    BY <1>2, <1>3, <1>4, <1>5, <2>1 DEF PassagesPlan
<1>9. GroupsPlan' /\ LinksPlan'
  BY <1>2, <1>3, <1>4 DEF GroupsPlan, LinksPlan
<1>10. ArtsPlan' /\ ForeignPlan'
  BY <1>2, <1>3, <1>4, <1>5 DEF ArtsPlan, ForeignPlan
<1> QED
  BY <1>6, <1>7, <1>8, <1>9, <1>10 DEF PlanInv

LEMMA UnitsPlanned ==
  ASSUME Typed, PlanInv, NEW F \in SUBSET units,
         brain' = LoadedUnits(brain, F), units' = units \ F,
         UNCHANGED <<clone, snap, prunes, nodes, edges, deferred>>
  PROVE  PlanInv'
<1>1. brain \in Graphs /\ clone \in Vaults
  BY DEF Typed, TypeOK
<1>2. Pending' = Pending /\ ChunkTexts' = ChunkTexts
  BY DEF Pending, ChunkTexts
<1>3. /\ \A p \in Pids : brain'.text[p] = IF p \in F THEN ChunkTexts[p] ELSE brain.text[p]
      /\ brain'.note = brain.note /\ brain'.shadow = brain.shadow
      /\ brain'.links = brain.links /\ brain'.art = brain.art /\ brain'.foreign = brain.foreign
  BY <1>1, LoadedUnitsAre
<1>4. /\ NotesPlan /\ ShadowsPlan /\ PassagesPlan /\ GroupsPlan /\ LinksPlan /\ ArtsPlan /\ ForeignPlan
  BY DEF PlanInv
<1>5. \A n \in Notes : ShadowComes(n)' <=> ShadowComes(n)
  BY <1>3 DEF ShadowComes
<1>6. NotesPlan' /\ ShadowsPlan' /\ GroupsPlan' /\ LinksPlan'
  BY <1>2, <1>3, <1>4 DEF NotesPlan, ShadowsPlan, GroupsPlan, LinksPlan
<1>7. PassagesPlan'
  <2>1. \A p \in Pids : p[1] \in Notes
    BY DEF Pids
  <2> QED
    BY <1>2, <1>3, <1>4, <1>5, <2>1 DEF PassagesPlan
<1>8. ArtsPlan' /\ ForeignPlan'
  BY <1>2, <1>3, <1>4, <1>5 DEF ArtsPlan, ForeignPlan
<1> QED
  BY <1>6, <1>7, <1>8 DEF PlanInv

LEMMA EdgesPlanned ==
  ASSUME Typed, PlanInv, NEW F \in SUBSET edges, prunes = {},
         brain' = LoadedEdges(brain, F), edges' = edges \ F,
         UNCHANGED <<clone, snap, prunes, nodes, units, deferred>>
  PROVE  PlanInv'
<1>1. brain \in Graphs /\ clone \in Vaults /\ snap \in Graphs
  BY DEF Typed, TypeOK
<1>2. Pending = {} /\ Pending' = {} /\ ChunkTexts' = ChunkTexts
  BY DEF Pending, ChunkTexts
<1>3. /\ \A e : e \in brain'.links <=>
           e \in brain.links \/ (e \in Notes \X (Notes \cup Foreign) /\ Link(e[1], e[2]) \in F)
      /\ \A n \in Notes : brain'.art[n] = IF ArtEdge(n) \in F THEN "shadow" ELSE brain.art[n]
      /\ brain'.note = brain.note /\ brain'.shadow = brain.shadow
      /\ brain'.text = brain.text /\ brain'.foreign = brain.foreign
  BY <1>1, LoadedEdgesAre
<1>4. /\ NotesPlan /\ ShadowsPlan /\ PassagesPlan /\ GroupsPlan /\ LinksPlan /\ ArtsPlan /\ ForeignPlan
  BY DEF PlanInv
<1>5. \A n \in Notes : ShadowComes(n)' <=> ShadowComes(n)
  BY <1>3 DEF ShadowComes
<1>6. NotesPlan' /\ ShadowsPlan' /\ GroupsPlan'
  BY <1>2, <1>3, <1>4 DEF NotesPlan, ShadowsPlan, GroupsPlan
<1>7. PassagesPlan'
  <2>1. \A p \in Pids : p[1] \in Notes
    BY DEF Pids
  <2> QED
    BY <1>2, <1>3, <1>4, <1>5, <2>1 DEF PassagesPlan
<1>8. LinksPlan'
  <2> SUFFICES ASSUME NEW n \in Notes, NEW t \in Notes \cup Foreign
               PROVE  /\ Link(n, t) \in edges' => n \in Present(clone) /\ t \in LinkTargets(clone, n) \cup Foreign
                      /\ n \in Present(clone) /\ t \in Notes =>
                           (<<n, t>> \in brain'.links <=> t \in LinkTargets(clone, n) /\ Link(n, t) \notin edges')
    BY <1>2 DEF LinksPlan
  <2>1. <<n, t>> \in brain'.links <=> <<n, t>> \in brain.links \/ Link(n, t) \in F
    BY <1>3
  <2>2. /\ Link(n, t) \in edges => n \in Present(clone) /\ t \in LinkTargets(clone, n) \cup Foreign
        /\ n \in Present(clone) /\ t \in Notes =>
             (<<n, t>> \in brain.links <=> t \in LinkTargets(clone, n) /\ Link(n, t) \notin edges)
    BY <1>2, <1>4 DEF LinksPlan
  <2>3. t \in Notes => t \notin Foreign
    BY DataAssumption
  <2> QED
    BY <2>1, <2>2, <2>3
<1>9. ArtsPlan'
  BY <1>3, <1>4, <1>5 DEF ArtsPlan
<1>10. ForeignPlan'
  <2>1. \A e \in snap.links : e \in Notes \X (Notes \cup Foreign)
    BY <1>1 DEF Graphs
  <2> QED
    BY <1>2, <1>3, <1>4, <2>1 DEF ForeignPlan
<1> QED
  BY <1>6, <1>7, <1>8, <1>9, <1>10 DEF PlanInv

-----------------------------------------------------------------------------
(* Files the server takes. *)

\* A graph whose rows and passages are those of a well-formed one is well formed.
LEMMA DeleteAccepted ==
  ASSUME Typed, GraphInv, PlanInv, NEW F \in SUBSET prunes
  PROVE  PruneAccepted(F)
<1> DEFINE S == UNION F
           g == Delete(brain, S)
<1>1. brain \in Graphs /\ clone \in Vaults /\ snap \in Graphs /\ S \subseteq Pending
  BY DEF Typed, TypeOK, Pending
<1>2. /\ \A n \in Notes : g.note[n] = IF NoteRow(n) \in S THEN None ELSE brain.note[n]
      /\ \A n \in Notes : g.shadow[n] = IF ArtifactRow(n) \in S THEN None ELSE brain.shadow[n]
      /\ \A p \in Pids : g.text[p] = IF PassageRow(p) \in S THEN None ELSE brain.text[p]
      /\ \A p \in Pids : p \in g.of <=> p \in brain.of /\ PassageRow(p) \notin S
      /\ \A e : e \in g.links <=>
           /\ e \in brain.links /\ LinksOf(e[1]) \notin S
           /\ NoteRow(e[1]) \notin S /\ NoteRow(e[2]) \notin S
      /\ \A n \in Notes : g.art[n] =
           IF NoteRow(n) \in S \/ (brain.art[n] = "shadow" /\ ArtifactRow(n) \in S) THEN "none" ELSE brain.art[n]
      /\ g.foreign = brain.foreign
  BY <1>1, DeleteIs
<1>3. /\ \A e \in brain.links : Exists(brain, e[1]) /\ Exists(brain, e[2])
      /\ \A n \in Notes : brain.art[n] # "none" => brain.note[n] # None
      /\ \A n \in Notes : brain.art[n] = "shadow" => brain.shadow[n] # None
      /\ \A p \in Pids : brain.text[p] # None => p \in brain.of /\ brain.shadow[p[1]] # None
  BY DEF GraphInv, WellFormed
<1>4. \A p \in Pids : brain.text[p] # None /\ ArtifactRow(p[1]) \in S => PassageRow(p) \in S
  <2> SUFFICES ASSUME NEW p \in Pids, brain.text[p] # None, NEW G \in F, ArtifactRow(p[1]) \in G
               PROVE  PassageRow(p) \in G
    OBVIOUS
  <2>1. p[1] \in Notes /\ (p \in Wanted(clone, p[1]) => p[1] \in Chunked(clone))
        /\ (p \notin Wanted(clone, p[1]) => ChunkTexts[p] = None)
    BY <1>1, TextsAre
  <2>2. p[1] \notin Chunked(clone)
    BY <1>1, <2>1 DEF PlanInv, ShadowsPlan
  <2>3. snap.text[p] # None
    BY <2>1, <2>2 DEF PlanInv, PassagesPlan
  <2> QED
    BY <2>1, <2>3 DEF PlanInv, GroupsPlan
<1> HIDE DEF g, S
<1>5. \A p \in Pids : p[1] \in Notes
  BY DEF Pids
<1>6. \A e \in g.links : Exists(g, e[1]) /\ Exists(g, e[2])
  BY <1>2, <1>3 DEF Exists
<1>7. WellFormed(g)
  BY <1>2, <1>3, <1>4, <1>5, <1>6 DEF WellFormed
<1> QED
  BY <1>7 DEF PruneAccepted, g, S

LEMMA NodesAreAccepted ==
  ASSUME Typed, GraphInv, PlanInv, NEW F \in SUBSET nodes
  PROVE  NodesAccepted(F)
<1> DEFINE g == LoadedNodes(brain, F)
<1>1. brain \in Graphs /\ clone \in Vaults
  BY DEF Typed, TypeOK
<1>2. /\ \A n \in Notes : g.note[n] = IF NoteRow(n) \in F THEN clone.ver[n] ELSE brain.note[n]
      /\ \A n \in Notes : g.shadow[n] = IF ArtifactRow(n) \in F THEN DigestOf[clone.ver[n]] ELSE brain.shadow[n]
      /\ g.text = brain.text /\ g.of = brain.of /\ g.links = brain.links /\ g.art = brain.art
      /\ g.foreign = brain.foreign
  BY <1>1, LoadedNodesAre
<1>3. \A n \in Notes : NoteRow(n) \in F => clone.ver[n] # None
  BY DEF PlanInv, NotesPlan, Present
<1>4. \A n \in Notes : ArtifactRow(n) \in F => DigestOf[clone.ver[n]] # None
  BY <1>1, ChunkedDigest DEF PlanInv, ShadowsPlan
<1>5. \A p \in Pids : p[1] \in Notes
  BY DEF Pids
<1> HIDE DEF g
<1>6. \A t : Exists(brain, t) => Exists(g, t)
  BY <1>2, <1>3 DEF Exists
<1>7. WellFormed(g)
  BY <1>2, <1>3, <1>4, <1>5, <1>6 DEF GraphInv, WellFormed
<1> QED
  BY <1>7 DEF NodesAccepted, g

LEMMA UnitsAreAccepted ==
  ASSUME Typed, GraphInv, PlanInv, nodes = {}, NEW F \in SUBSET units
  PROVE  UnitsAccepted(F)
<1> DEFINE g == LoadedUnits(brain, F)
<1>1. brain \in Graphs /\ clone \in Vaults /\ F \subseteq Pids
  BY DEF Typed, TypeOK
<1>2. /\ \A p \in Pids : g.text[p] = IF p \in F THEN ChunkTexts[p] ELSE brain.text[p]
      /\ g.of = brain.of \cup NewEdges(F)
      /\ g.note = brain.note /\ g.shadow = brain.shadow
      /\ g.links = brain.links /\ g.art = brain.art /\ g.foreign = brain.foreign
  BY <1>1, LoadedUnitsAre
<1>3. \A p \in F : brain.text[p] = snap.text[p] /\ brain.shadow[p[1]] # None
  BY <1>1 DEF PlanInv, PassagesPlan, ShadowComes
<1>4. \A p \in Pids : p \in brain.of <=> brain.text[p] # None
  BY DEF GraphInv
<1>5. NewEdges(F) \cap brain.of = {}
  BY <1>1, <1>3, <1>4 DEF NewEdges
<1>6. \A p \in F : p \in g.of
  BY <1>1, <1>2, <1>3, <1>4 DEF NewEdges
<1> HIDE DEF g
<1>7. \A t : Exists(g, t) <=> Exists(brain, t)
  BY <1>2 DEF Exists
<1>8. WellFormed(g)
  BY <1>2, <1>3, <1>6, <1>7 DEF GraphInv, WellFormed
<1> QED
  BY <1>5, <1>8 DEF UnitsAccepted, g

LEMMA EdgesAreAccepted ==
  ASSUME Typed, GraphInv, PlanInv, prunes = {}, nodes = {},
         NEW F \in SUBSET {e \in edges : ~Disturbed(e)}
  PROVE  EdgesAccepted(F)
<1> DEFINE g == LoadedEdges(brain, F)
<1>1. brain \in Graphs /\ clone \in Vaults /\ Pending = {}
  BY DEF Typed, TypeOK, Pending
<1>2. /\ \A e : e \in g.links <=>
           e \in brain.links \/ (e \in Notes \X (Notes \cup Foreign) /\ Link(e[1], e[2]) \in F)
      /\ \A n \in Notes : g.art[n] = IF ArtEdge(n) \in F THEN "shadow" ELSE brain.art[n]
      /\ g.note = brain.note /\ g.shadow = brain.shadow /\ g.text = brain.text /\ g.of = brain.of
      /\ g.foreign = brain.foreign
  BY <1>1, LoadedEdgesAre
<1>3. \A n \in Notes : brain.note[n] = clone.ver[n]
  BY <1>1 DEF PlanInv, NotesPlan
<1>4. \A n \in Notes : n \in Present(clone) => brain.note[n] # None
  BY <1>3 DEF Present
<1>5. \A n \in Notes : ArtEdge(n) \in F =>
        brain.note[n] # None /\ brain.shadow[n] # None /\ brain.art[n] = "none"
  <2> SUFFICES ASSUME NEW n \in Notes, ArtEdge(n) \in F
               PROVE  brain.note[n] # None /\ brain.shadow[n] # None /\ brain.art[n] = "none"
    OBVIOUS
  <2>1. n \in Chunked(clone) /\ brain.shadow[n] # None
    BY DEF PlanInv, ArtsPlan, ShadowComes
  <2>2. brain.art[n] = "none"
    BY DEF Disturbed, ArtEdge
  <2> QED
    BY <1>4, <2>1, <2>2 DEF Chunked
<1>6. \A n \in Notes, t \in Notes \cup Foreign : Link(n, t) \in F => Exists(brain, n) /\ Exists(brain, t)
  <2> SUFFICES ASSUME NEW n \in Notes, NEW t \in Notes \cup Foreign, Link(n, t) \in F
               PROVE  Exists(brain, n) /\ Exists(brain, t)
    OBVIOUS
  <2>1. n \in Present(clone) /\ t \in LinkTargets(clone, n) \cup Foreign
    BY DEF PlanInv, LinksPlan
  <2>2. t \in Notes => t \in Present(clone)
    BY <2>1, DataAssumption DEF LinkTargets
  <2>3. t \notin Notes => t \in brain.foreign
    BY DEF Disturbed, Link
  <2> QED
    BY <1>4, <2>1, <2>2, <2>3 DEF Exists
<1> HIDE DEF g
<1>7. \A t : Exists(g, t) <=> Exists(brain, t)
  BY <1>2 DEF Exists
<1>8. \A e \in g.links : Exists(g, e[1]) /\ Exists(g, e[2])
  <2> SUFFICES ASSUME NEW e \in g.links PROVE Exists(brain, e[1]) /\ Exists(brain, e[2])
    BY <1>7
  <2>1. CASE e \in brain.links
    BY <2>1 DEF GraphInv, WellFormed
  <2>2. CASE e \in Notes \X (Notes \cup Foreign) /\ Link(e[1], e[2]) \in F
    BY <1>6, <2>2
  <2> QED
    BY <1>2, <2>1, <2>2
<1>9. WellFormed(g)
  BY <1>2, <1>5, <1>8 DEF GraphInv, WellFormed
<1> QED
  BY <1>5, <1>9 DEF EdgesAccepted, g

LEMMA HealsAreAccepted ==
  ASSUME HealInv, GraphInv, Planned, NEW F \in SUBSET heals
  PROVE  HealAccepted(F)
<1> DEFINE g == Healed(brain, F)
<1>1. /\ g.note = brain.note /\ g.text = brain.text /\ g.shadow = brain.shadow /\ g.of = brain.of
      /\ g.links = brain.links /\ g.art = brain.art /\ g.foreign = brain.foreign
  BY HealedIs DEF HealInv
<1> HIDE DEF g
<1>2. \A t : Exists(g, t) <=> Exists(brain, t)
  BY <1>1 DEF Exists
<1>3. WellFormed(g)
  BY <1>1, <1>2 DEF GraphInv, WellFormed
<1> QED
  BY <1>3 DEF HealAccepted, g

-----------------------------------------------------------------------------
(* The invariant of a run. *)

\* What agents do leaves the graph well formed.
LEMMA AgentsKeepGraph ==
  ASSUME Typed, GraphInv, Environment
  PROVE  /\ GraphInv'
         /\ brain'.note = brain.note /\ brain'.text = brain.text /\ brain'.shadow = brain.shadow
         /\ \A n, t \in Notes : <<n, t>> \in brain'.links <=> <<n, t>> \in brain.links
         /\ \A n \in Notes : brain.art[n] # "none" => brain'.art[n] # "none"
         /\ brain'.foreign \subseteq brain.foreign
         /\ \A e \in brain.links : e[2] \in brain'.foreign => e \in brain'.links
<1>1. brain \in Graphs
  BY DEF Typed, TypeOK
<1>2. CASE EditVault
  BY <1>2 DEF EditVault, GraphInv
<1>3. CASE AgentLinks
  <2>1. PICK n \in Notes, t \in brain.foreign :
          brain.note[n] # None /\ brain' = [brain EXCEPT !.links = @ \cup {<<n, t>>}]
    BY <1>3 DEF AgentLinks
  <2>2. /\ brain'.note = brain.note /\ brain'.text = brain.text /\ brain'.shadow = brain.shadow
        /\ brain'.of = brain.of /\ brain'.art = brain.art /\ brain'.foreign = brain.foreign
        /\ brain'.links = brain.links \cup {<<n, t>>}
    BY <1>1, <2>1 DEF Graphs
  <2>3. t \notin Notes
    BY <1>1, <2>1, DataAssumption DEF Graphs
  <2>4. \A s : Exists(brain', s) <=> Exists(brain, s)
    BY <2>2 DEF Exists
  <2>5. Exists(brain, n) /\ Exists(brain, t)
    BY <2>1, <2>3 DEF Exists
  <2>6. \A e \in brain'.links : Exists(brain', e[1]) /\ Exists(brain', e[2])
    BY <2>2, <2>4, <2>5 DEF GraphInv, WellFormed
  <2>7. GraphInv'
    BY <2>2, <2>6 DEF GraphInv, WellFormed
  <2> QED
    BY <2>2, <2>3, <2>7
<1>4. CASE AgentDeletes
  <2>1. PICK t \in brain.foreign :
          brain' = [brain EXCEPT !.foreign = @ \ {t}, !.links = {e \in @ : e[2] # t}]
    BY <1>4 DEF AgentDeletes
  <2>2. /\ brain'.note = brain.note /\ brain'.text = brain.text /\ brain'.shadow = brain.shadow
        /\ brain'.of = brain.of /\ brain'.art = brain.art /\ brain'.foreign = brain.foreign \ {t}
        /\ brain'.links = {e \in brain.links : e[2] # t}
    BY <1>1, <2>1 DEF Graphs
  <2>3. t \notin Notes
    BY <1>1, <2>1, DataAssumption DEF Graphs
  <2>4. \A s : s # t /\ Exists(brain, s) => Exists(brain', s)
    BY <2>2 DEF Exists
  <2>5. \A e \in brain.links : e[1] \in Notes
    BY <1>1 DEF Graphs
  <2>6. \A e \in brain'.links : Exists(brain', e[1]) /\ Exists(brain', e[2])
    BY <2>2, <2>3, <2>4, <2>5 DEF GraphInv, WellFormed
  <2>7. GraphInv'
    BY <2>2, <2>6 DEF GraphInv, WellFormed
  <2> QED
    BY <2>2, <2>3, <2>7
<1>5. CASE AgentSources
  <2>1. PICK n \in Notes : brain.note[n] # None /\ brain' = [brain EXCEPT !.art[n] = "other"]
    BY <1>5 DEF AgentSources
  <2>2. /\ brain'.note = brain.note /\ brain'.text = brain.text /\ brain'.shadow = brain.shadow
        /\ brain'.of = brain.of /\ brain'.links = brain.links /\ brain'.foreign = brain.foreign
        /\ \A m \in Notes : brain'.art[m] = IF m = n THEN "other" ELSE brain.art[m]
    BY <1>1, <2>1 DEF Graphs
  <2>3. \A s : Exists(brain', s) <=> Exists(brain, s)
    BY <2>2 DEF Exists
  <2>4. GraphInv'
    BY <2>1, <2>2, <2>3 DEF GraphInv, WellFormed
  <2> QED
    BY <2>2, <2>4
<1> QED
  BY <1>2, <1>3, <1>4, <1>5 DEF Environment

\* The server takes a file only if it leaves the graph well formed; passages come and go with
\* their edges.
LEMMA PrunedGraph ==
  ASSUME Typed, GraphInv, NEW S, WellFormed(Delete(brain, S)), brain' = Delete(brain, S)
  PROVE  GraphInv'
<1>1. brain \in Graphs /\ brain' \in Graphs
  BY DeleteType DEF Typed, TypeOK
<1>2. \A p \in Pids : p \in brain'.of <=> brain'.text[p] # None
  BY <1>1, DeleteIs DEF GraphInv
<1>3. brain'.of = {p \in Pids : brain'.text[p] # None}
  BY <1>1, <1>2 DEF Graphs
<1> QED
  BY <1>3 DEF GraphInv

LEMMA LoadedGraph ==
  ASSUME Typed, GraphInv, PlanInv, NEW F \in SUBSET units, UnitsAccepted(F),
         brain' = LoadedUnits(brain, F)
  PROVE  GraphInv'
<1>1. brain \in Graphs /\ clone \in Vaults /\ F \subseteq Pids
  BY DEF Typed, TypeOK
<1>2. /\ \A p \in Pids : brain'.text[p] = IF p \in F THEN ChunkTexts[p] ELSE brain.text[p]
      /\ brain'.of = brain.of \cup NewEdges(F)
  BY <1>1, LoadedUnitsAre
<1>3. \A p \in F : brain.text[p] = snap.text[p] /\ ChunkTexts[p] # None
  BY <1>1, TextsAre DEF PlanInv, PassagesPlan
<1>4. \A p \in Pids : p \in brain'.of <=> brain'.text[p] # None
  BY <1>2, <1>3 DEF GraphInv, NewEdges
<1>5. brain'.of \subseteq Pids
  BY <1>1, <1>2 DEF NewEdges, Graphs
<1>6. brain'.of = {p \in Pids : brain'.text[p] # None}
  BY <1>4, <1>5
<1>7. WellFormed(brain')
  BY DEF UnitsAccepted
<1> QED
  BY <1>6, <1>7 DEF GraphInv

LEMMA InitRun == Init => RunInv
<1> SUFFICES ASSUME Init PROVE RunInv
  OBVIOUS
<1>1. HealInv /\ phase = "idle" /\ brain = EmptyGraph
  BY InitHeal DEF Init
<1>2. \A p \in Pids : p[1] \in Notes
  BY DEF Pids
<1>3. GraphInv
  BY <1>1, <1>2 DEF GraphInv, WellFormed, EmptyGraph
<1> QED
  BY <1>1, <1>3 DEF RunInv, Planned

LEMMA StepRun == RunInv /\ [Next]_vars => RunInv'
<1> SUFFICES ASSUME RunInv, [Next]_vars PROVE RunInv'
  OBVIOUS
<1>0. HealInv' /\ HealInv /\ Typed /\ GraphInv
  BY StepHeal DEF RunInv, HealInv
<1>1. CASE CloneVault
  <2>1. brain' = brain /\ phase' = "cloned"
    BY <1>1 DEF CloneVault
  <2> QED
    BY <1>0, <2>1 DEF RunInv, GraphInv, Planned
<1>2. CASE Snapshot
  <2>1. brain' = brain /\ phase' = "snapped" /\ snap' = brain
    BY <1>2 DEF Snapshot
  <2>2. SnapInv'
    BY <2>1 DEF SnapInv
  <2> QED
    BY <1>0, <2>1, <2>2 DEF RunInv, GraphInv, Planned
<1>3. CASE ClearPod /\ brain' = brain
  BY <1>0, <1>3 DEF ClearPod, RunInv, GraphInv, Planned
<1>4. CASE MakePlan
  <2>1. brain' = brain /\ phase' = "planned"
    BY <1>4 DEF MakePlan
  <2> QED
    BY <1>0, <1>4, <2>1, PlanMade DEF RunInv, GraphInv
<1>5. CASE Embed \/ EmbedOutage
  <2>1. /\ phase = "planned" /\ phase' = "applying"
        /\ UNCHANGED <<brain, clone, snap, prunes, nodes, units, edges, deferred>>
    BY <1>5 DEF Embed, EmbedOutage
  <2>2. PlanInv
    BY <2>1 DEF RunInv, Planned
  <2>3. PlanInv'
    BY <2>1, <2>2, PlanKeeps
  <2> QED
    BY <1>0, <2>1, <2>3 DEF RunInv, GraphInv
<1>6. CASE ApplyPrune \/ ApplyNodes \/ ApplyUnits \/ ApplyEdges \/ ApplyHeal
  <2>1. phase = "applying" /\ phase' = phase /\ UNCHANGED <<clone, snap, deferred>>
    BY <1>6 DEF ApplyPrune, ApplyNodes, ApplyUnits, ApplyEdges, ApplyHeal
  <2>2. PlanInv /\ NotesUntouched /\ PassagesUntouched
    BY <1>0, <2>1 DEF RunInv, HealInv, Planned
  <2>3. brain \in Graphs /\ brain.of = {p \in Pids : brain.text[p] # None}
    BY <1>0 DEF Typed, TypeOK, GraphInv
  <2>4. CASE ApplyPrune
    <3>1. PICK F \in SUBSET prunes :
            PruneAccepted(F) /\ brain' = Delete(brain, UNION F) /\ prunes' = prunes \ F
      BY <2>4 DEF ApplyPrune, Files
    <3>2. UNCHANGED <<nodes, units, edges>>
      BY <2>4 DEF ApplyPrune
    <3>3. GraphInv'
      BY <1>0, <3>1, PrunedGraph DEF PruneAccepted
    <3>4. PlanInv'
      BY <1>0, <2>1, <2>2, <3>1, <3>2, PrunePlan
    <3> QED
      BY <1>0, <2>1, <3>3, <3>4 DEF RunInv
  <2>5. CASE ApplyNodes
    <3>1. PICK F \in SUBSET nodes : NodesAccepted(F) /\ brain' = LoadedNodes(brain, F) /\ nodes' = nodes \ F
      BY <2>5 DEF ApplyNodes, Files
    <3>2. UNCHANGED <<prunes, units, edges>>
      BY <2>5 DEF ApplyNodes
    <3>3. GraphInv'
      <4>1. brain'.of = brain.of /\ brain'.text = brain.text
        BY <2>3, <3>1, LoadedNodesAre
      <4> QED
        BY <2>3, <3>1, <4>1 DEF GraphInv, NodesAccepted
    <3>4. PlanInv'
      BY <1>0, <2>1, <2>2, <3>1, <3>2, NodesPlanned
    <3> QED
      BY <1>0, <2>1, <3>3, <3>4 DEF RunInv
  <2>6. CASE ApplyUnits
    <3>1. PICK F \in SUBSET units : UnitsAccepted(F) /\ brain' = LoadedUnits(brain, F) /\ units' = units \ F
      BY <2>6 DEF ApplyUnits, Files
    <3>2. UNCHANGED <<prunes, nodes, edges>>
      BY <2>6 DEF ApplyUnits
    <3>3. GraphInv'
      BY <1>0, <2>2, <3>1, LoadedGraph
    <3>4. PlanInv'
      BY <1>0, <2>1, <2>2, <3>1, <3>2, UnitsPlanned
    <3> QED
      BY <1>0, <2>1, <3>3, <3>4 DEF RunInv
  <2>7. CASE ApplyEdges
    <3>1. PICK F \in SUBSET edges : EdgesAccepted(F) /\ brain' = LoadedEdges(brain, F) /\ edges' = edges \ F
      BY <2>7 DEF ApplyEdges, Files
    <3>2. prunes = {} /\ UNCHANGED <<prunes, nodes, units>>
      BY <2>7 DEF ApplyEdges
    <3>3. GraphInv'
      <4>1. brain'.of = brain.of /\ brain'.text = brain.text
        BY <2>3, <3>1, LoadedEdgesAre
      <4> QED
        BY <2>3, <3>1, <4>1 DEF GraphInv, EdgesAccepted
    <3>4. PlanInv'
      BY <1>0, <2>1, <2>2, <3>1, <3>2, EdgesPlanned
    <3> QED
      BY <1>0, <2>1, <3>3, <3>4 DEF RunInv
  <2>8. CASE ApplyHeal
    <3>1. PICK F \in SUBSET heals : HealAccepted(F) /\ brain' = Healed(brain, F)
      BY <2>8 DEF ApplyHeal, Files
    <3>2. UNCHANGED <<prunes, nodes, units, edges>>
      BY <2>8 DEF ApplyHeal
    <3>3. /\ brain'.note = brain.note /\ brain'.text = brain.text /\ brain'.shadow = brain.shadow
          /\ brain'.of = brain.of /\ brain'.links = brain.links /\ brain'.art = brain.art
          /\ brain'.foreign = brain.foreign
      BY <1>0, <2>2, <3>1, HealedIs
    <3>4. GraphInv'
      BY <2>3, <3>1, <3>3 DEF GraphInv, HealAccepted
    <3>5. PlanInv'
      BY <2>1, <2>2, <3>2, <3>3, PlanKeeps
    <3> QED
      BY <1>0, <2>1, <3>4, <3>5 DEF RunInv
  <2> QED
    BY <1>6, <2>4, <2>5, <2>6, <2>7, <2>8
<1>7. CASE Environment
  <2>1. UNCHANGED podVars
    BY <1>7 DEF Environment, EditVault, AgentLinks, AgentDeletes, AgentSources
  <2>2. /\ GraphInv'
        /\ brain'.note = brain.note /\ brain'.text = brain.text /\ brain'.shadow = brain.shadow
        /\ \A n, t \in Notes : <<n, t>> \in brain'.links <=> <<n, t>> \in brain.links
        /\ \A n \in Notes : brain.art[n] # "none" => brain'.art[n] # "none"
        /\ brain'.foreign \subseteq brain.foreign
        /\ \A e \in brain.links : e[2] \in brain'.foreign => e \in brain'.links
    BY <1>0, <1>7, AgentsKeepGraph
  <2>3. PlanInv => PlanInv'
    BY <2>1, <2>2, PlanKeeps DEF podVars, planVars
  <2>4. SnapInv => SnapInv'
    BY <2>1, <2>2 DEF SnapInv, podVars
  <2> QED
    BY <1>0, <2>1, <2>2, <2>3, <2>4 DEF RunInv, Planned, podVars
<1>8. CASE UNCHANGED vars
  <2>1. UNCHANGED <<brain, phase, clone, snap, prunes, nodes, units, edges, deferred>>
    BY <1>8 DEF vars, podVars, planVars
  <2>2. PlanInv => PlanInv'
    BY <2>1, PlanKeeps
  <2>3. SnapInv => SnapInv'
    BY <2>1 DEF SnapInv
  <2> QED
    BY <1>0, <2>1, <2>2, <2>3 DEF RunInv, GraphInv, Planned
<1> QED
  BY <1>1, <1>2, <1>3, <1>4, <1>5, <1>6, <1>7, <1>8
     DEF Next, PodStep, RefuseEmptyVault, Report, Refused, Fail

LEMMA RunHolds == Spec => []RunInv
BY InitRun, StepRun, PTL DEF Spec

\* The graph server never refuses a file for what the plan got wrong, whatever an earlier run
\* left half applied: no prune leaves a passage without its artifact, no load names a row that
\* is not there, no edge exists twice (build_plan, write_plan's order, apply.sh).
THEOREM FilesAccepted == Spec => []OwnFilesAccepted
<1>1. RunInv => OwnFilesAccepted
  <2> SUFFICES ASSUME RunInv, phase = "applying"
               PROVE  /\ \A F \in Files(prunes) : PruneAccepted(F)
                      /\ prunes = {} => \A F \in Files(nodes) : NodesAccepted(F)
                      /\ prunes = {} /\ nodes = {} => \A F \in Files(units) : UnitsAccepted(F)
                      /\ prunes = {} /\ nodes = {} /\ units = {} =>
                           \A F \in Files({e \in edges : ~Disturbed(e)}) : EdgesAccepted(F)
                      /\ prunes = {} /\ nodes = {} /\ units = {} /\ edges = {} =>
                           \A F \in Files(heals) : HealAccepted(F)
    BY DEF OwnFilesAccepted
  <2>1. Typed /\ HealInv /\ GraphInv /\ PlanInv /\ Planned
    BY DEF RunInv, HealInv, Planned
  <2>2. \A F, pending : F \in Files(pending) => F \in SUBSET pending
    BY DEF Files
  <2>3. \A F \in Files(prunes) : PruneAccepted(F)
    BY <2>1, <2>2, DeleteAccepted
  <2>4. \A F \in Files(nodes) : NodesAccepted(F)
    BY <2>1, <2>2, NodesAreAccepted
  <2>5. nodes = {} => \A F \in Files(units) : UnitsAccepted(F)
    BY <2>1, <2>2, UnitsAreAccepted
  <2>6. prunes = {} /\ nodes = {} => \A F \in Files({e \in edges : ~Disturbed(e)}) : EdgesAccepted(F)
    BY <2>1, <2>2, EdgesAreAccepted
  <2>7. \A F \in Files(heals) : HealAccepted(F)
    BY <2>1, <2>2, HealsAreAccepted
  <2> QED
    BY <2>3, <2>4, <2>5, <2>6, <2>7
<1> QED
  BY RunHolds, <1>1, PTL

\* A run that applied all its files and put no note off leaves the graph equal to its clone of
\* the vault, whatever half-applied runs came before it and whatever agents wrote meanwhile.
THEOREM RunMirrors == Spec => []CompleteRunMirrors
<1>1. RunInv => CompleteRunMirrors
  <2> SUFFICES ASSUME RunInv, Applied, ~deferred PROVE Mirrors(clone, brain)
    BY DEF CompleteRunMirrors
  <2>1. /\ NotesPlan /\ ShadowsPlan /\ PassagesPlan /\ LinksPlan /\ ArtsPlan
        /\ prunes = {} /\ nodes = {} /\ units = {} /\ edges = {} /\ Pending = {}
    BY DEF RunInv, Applied, Planned, PlanInv, Pending
  <2>2. brain \in Graphs /\ clone \in Vaults
    BY DEF RunInv, HealInv, Typed, TypeOK
  <2>3. brain.note = clone.ver
    BY <2>1, <2>2 DEF NotesPlan, Graphs, Vaults
  <2>4. \A n \in Present(clone) : Targets(brain, n) \cap Notes = LinkTargets(clone, n)
    <3> SUFFICES ASSUME NEW n \in Notes, n \in Present(clone), NEW t
                 PROVE  t \in Targets(brain, n) \cap Notes <=> t \in LinkTargets(clone, n)
      BY DEF Present
    <3>1. LinkTargets(clone, n) \subseteq Notes
      BY DEF LinkTargets, Present
    <3>2. t \in Targets(brain, n) <=> <<n, t>> \in brain.links
      <4>1. brain.links \subseteq Notes \X (Notes \cup Foreign)
        BY <2>2 DEF Graphs
      <4> QED
        BY <4>1 DEF Targets
    <3>3. t \in Notes => (<<n, t>> \in brain.links <=> t \in LinkTargets(clone, n))
      BY <2>1 DEF LinksPlan
    <3> QED
      BY <3>1, <3>2, <3>3
  <2>5. \A n \in Notes : brain.shadow[n] = IF n \in Chunked(clone) THEN DigestOf[clone.ver[n]] ELSE None
    BY <2>1 DEF ShadowsPlan
  <2>6. \A n \in Chunked(clone) : brain.art[n] # "none"
    BY <2>1 DEF ArtsPlan, Chunked, Present
  <2>7. \A p \in Pids : brain.text[p] = IF p \in Wanted(clone, p[1]) THEN Chunks(clone, p[1])[p[2]] ELSE None
    BY <2>1 DEF PassagesPlan, ChunkTexts
  <2> QED
    BY <2>3, <2>4, <2>5, <2>6, <2>7 DEF Mirrors
<1> QED
  BY RunHolds, <1>1, PTL

\* A run that applied all its files kept every edge from a vault note to a foreign node that its
\* snapshot saw, though it deletes them with the note's own links (the load carries them back).
THEOREM ForeignKept == Spec => []KeepsForeignLinks
<1>1. RunInv => KeepsForeignLinks
  <2> SUFFICES ASSUME RunInv, Applied, NEW e \in snap.links, e[2] \in brain.foreign, e[1] \in Present(clone)
               PROVE  e \in brain.links
    BY DEF KeepsForeignLinks
  <2>1. ForeignPlan /\ edges = {}
    BY DEF RunInv, Applied, Planned, PlanInv
  <2> QED
    BY <2>1 DEF ForeignPlan
<1> QED
  BY RunHolds, <1>1, PTL
=============================================================================
