----------------------------- MODULE VaultImport -----------------------------
(***************************************************************************)
(* The Obsidian vault importer of the brain graph                          *)
(* (src/kubernetes/apps/ai/omnigraph/vault-import/app).                    *)
(*                                                                         *)
(* A CronJob pod runs six steps in order: clone the vault, snapshot what   *)
(* the graph holds under obsidian/, plan the difference, embed the rows of *)
(* the plan, apply the plan file by file, report.  Every file is one       *)
(* transaction of the graph server; the pod keeps nothing, so a pod that   *)
(* dies leaves whatever files it had applied, and the next run starts from *)
(* a new clone and a new snapshot.  Agents write to the same graph while a *)
(* run is under way.                                                       *)
(*                                                                         *)
(* The graph server is external: Delete, the Load operators and WellFormed *)
(* say what the importer and its tests rely on.  A vault note is a slug; a *)
(* version stands for the name, kind, body, date and tags of a note; the   *)
(* texts of its chunks and its digest are constants of the version.        *)
(***************************************************************************)
EXTENDS Naturals, FiniteSets, Sequences

CONSTANTS
  Notes,               \* slugs under obsidian/
  Foreign,             \* nodes that other writers own, outside obsidian/
  Versions,            \* contents a vault note can have
  Texts,               \* chunk texts
  Digests,             \* values of content_sha256
  ChunksOf,            \* the chunk texts of a version, in order
  DigestOf,            \* chunk_digest of a version
  None,                \* no row, no value
  FirstVaults,         \* what the vault may hold at first
  NotesChunkedPerRun,  \* NOTES_CHUNKED_PER_RUN
  HealRowsPerRun,      \* HEAL_ROWS_PER_RUN
  FileRows,            \* rows in a load file, groups in a prune file
  MaxEdits,            \* bound: edits of the vault
  MaxFaults,           \* bound: pods that die, files refused, embedding outages
  MaxAgentWrites,      \* bound: writes of agents to the graph
  MaxTroubles          \* bound: faults and writes of agents together

ASSUME DataAssumption ==
  /\ ChunksOf \in [Versions -> Seq(Texts)]
  /\ DigestOf \in [Versions -> Digests]
  /\ None \notin Versions \cup Texts \cup Digests
  /\ Notes \cap Foreign = {}

\* Equal digests mean equal names and bodies, hence equal chunks.
ASSUME DigestAssumption ==
  \A v, w \in Versions : DigestOf[v] = DigestOf[w] => ChunksOf[v] = ChunksOf[w]

ASSUME BoundAssumption ==
  /\ {NotesChunkedPerRun, HealRowsPerRun, FileRows} \subseteq Nat \ {0}
  /\ MaxEdits \in Nat /\ MaxFaults \in Nat /\ MaxAgentWrites \in Nat /\ MaxTroubles \in Nat

VARIABLES
  vault,     \* the vault's git repository: version and wiki links per note
  brain,     \* the graph, what lies under obsidian/ and what touches it
  phase,     \* the step the pod is at
  clone,     \* the pod's clone of the vault
  snap,      \* the pod's snapshot of the graph
  prunes,    \* groups of delete statements still to apply
  nodes,     \* Note and Artifact rows still to load
  units,     \* Passage rows still to load, with PassageOf when they are new
  edges,     \* RelatedNote and NoteFromArtifact edges still to load
  heals,     \* vectorless rows still to reload
  vectors,   \* rows of the plan that the embed step gave a vector
  deferred,  \* the plan left chunked notes for a later run
  asserted,  \* edges to foreign nodes that agents wrote and did not withdraw
  edits, faults, agentWrites   \* what is used of the bounds

planVars == <<prunes, nodes, units, edges, heals, vectors, deferred>>
podVars  == <<phase, clone, snap, planVars>>
envVars  == <<vault, asserted, edits, agentWrites>>
vars     == <<vault, brain, podVars, asserted, edits, faults, agentWrites>>

Room == faults + agentWrites < MaxTroubles

-----------------------------------------------------------------------------
(* Rows.  A row, an edge or a delete statement names its table and its key. *)

Indices == UNION {DOMAIN ChunksOf[v] : v \in Versions}
Pids    == Notes \X Indices              \* obsidian-file/<tail>#<i>

NoteRow(n)     == <<"Note", n>>
ArtifactRow(n) == <<"Artifact", n>>      \* the shadow artifact of note n
PassageRow(p)  == <<"Passage", p>>
LinksOf(n)     == <<"RelatedNote", n>>   \* every RelatedNote edge from n
ArtEdge(n)     == <<"NoteFromArtifact", n>>
Link(n, t)     == <<"RelatedNote", n, t>>

NodeRows   == {NoteRow(n) : n \in Notes} \cup {ArtifactRow(n) : n \in Notes}
HealRows   == {NoteRow(n) : n \in Notes} \cup {PassageRow(p) : p \in Pids}
EdgeRows   == {ArtEdge(n) : n \in Notes}
                \cup {Link(n, t) : n \in Notes, t \in Notes \cup Foreign}
Statements == NodeRows \cup {PassageRow(p) : p \in Pids}
                \cup {LinksOf(n) : n \in Notes}

-----------------------------------------------------------------------------
(* The vault and the graph. *)

Vaults == [ver : [Notes -> Versions \cup {None}], target : [Notes -> SUBSET Notes]]

ASSUME FirstAssumption ==
  FirstVaults \subseteq {c \in Vaults : \A n \in Notes : c.ver[n] = None => c.target[n] = {}}

NoVault == [ver |-> [n \in Notes |-> None], target |-> [n \in Notes |-> {}]]

Graphs == [note    : [Notes -> Versions \cup {None}],     \* Note rows
           noteVec : SUBSET Notes,                        \* ... with a vector
           links   : SUBSET (Notes \X (Notes \cup Foreign)),
           foreign : SUBSET Foreign,                      \* foreign nodes
           shadow  : [Notes -> Digests \cup {None}],      \* shadow artifacts
           art     : [Notes -> {"none", "shadow", "other"}], \* NoteFromArtifact
           text    : [Pids -> Texts \cup {None}],         \* Passage rows
           of      : SUBSET Pids,                         \* PassageOf edges
           passVec : SUBSET Pids]

EmptyGraph == [note |-> [n \in Notes |-> None], noteVec |-> {}, links |-> {},
               foreign |-> Foreign,
               shadow |-> [n \in Notes |-> None], art |-> [n \in Notes |-> "none"],
               text |-> [p \in Pids |-> None], of |-> {}, passVec |-> {}]

Exists(g, t) == IF t \in Notes THEN g.note[t] # None ELSE t \in g.foreign

\* What the server demands of the graph a transaction leaves: edges end in rows
\* that exist, and a passage has exactly one PassageOf edge, to its artifact.
WellFormed(g) ==
  /\ \A e \in g.links : Exists(g, e[1]) /\ Exists(g, e[2])
  /\ \A n \in Notes : g.art[n] # "none" => g.note[n] # None
  /\ \A n \in Notes : g.art[n] = "shadow" => g.shadow[n] # None
  /\ \A p \in Pids : g.text[p] # None => p \in g.of /\ g.shadow[p[1]] # None

\* A delete mutation: deleting a row takes the edges at either end with it.
Delete(g, S) ==
  LET keepNote(n) == NoteRow(n) \notin S
      keepArt(n)  == ArtifactRow(n) \notin S
      keepPid(p)  == PassageRow(p) \notin S
  IN  [g EXCEPT
        !.note    = [n \in Notes |-> IF keepNote(n) THEN g.note[n] ELSE None],
        !.noteVec = {n \in g.noteVec : keepNote(n)},
        !.links   = {e \in g.links : /\ LinksOf(e[1]) \notin S
                                     /\ keepNote(e[1]) /\ keepNote(e[2])},
        !.shadow  = [n \in Notes |-> IF keepArt(n) THEN g.shadow[n] ELSE None],
        !.art     = [n \in Notes |->
                       IF \/ ~keepNote(n)
                          \/ g.art[n] = "shadow" /\ ~keepArt(n)
                       THEN "none" ELSE g.art[n]],
        !.text    = [p \in Pids |-> IF keepPid(p) THEN g.text[p] ELSE None],
        !.of      = {p \in g.of : keepPid(p)},
        !.passVec = {p \in g.passVec : keepPid(p)}]

\* A merge load replaces the whole row, and its vector with it.
MergeNotes(g, N, ver, vec) ==
  [g EXCEPT !.note    = [n \in Notes |-> IF n \in N THEN ver[n] ELSE g.note[n]],
            !.noteVec = (g.noteVec \ N) \cup (N \cap vec)]

MergePassages(g, P, text, vec) ==
  [g EXCEPT !.text    = [p \in Pids |-> IF p \in P THEN text[p] ELSE g.text[p]],
            !.passVec = (g.passVec \ P) \cup (P \cap vec)]

-----------------------------------------------------------------------------
(* The plan: what the clone and the snapshot say has to be written. *)

Present(c) == {n \in Notes : c.ver[n] # None}

\* resolve_links: a wiki link counts when it names another imported note.
LinkTargets(c, n) == (c.target[n] \cap Present(c)) \ {n}

Chunks(c, n)  == IF n \in Present(c) THEN ChunksOf[c.ver[n]] ELSE << >>
Chunked(c)    == {n \in Present(c) : Chunks(c, n) # << >>}
Wanted(c, n)  == {<<n, i>> : i \in DOMAIN Chunks(c, n)}
Stored(g, n)  == {p \in Pids : p[1] = n /\ g.text[p] # None}
Targets(g, n) == {e[2] : e \in {l \in g.links : l[1] = n}}

Rewritten(c, g) == {n \in Present(c) : g.note[n] # c.ver[n]}
Relinked(c, g)  == {n \in Present(c) : LinkTargets(c, n) # Targets(g, n) \cap Notes}

StaleShadow(c, g, n) == g.shadow[n] # DigestOf[c.ver[n]]

\* Mutant: the digest of the shadow decides whether the chunks are compared.
ChangedByDigest(c, g, n) ==
  {p \in Wanted(c, n) : StaleShadow(c, g, n) /\ g.text[p] # Chunks(c, n)[p[2]]}

\* A chunk is written when its stored text differs, whatever the digest says.
Changed(c, g, n) == {p \in Wanted(c, n) : g.text[p] # Chunks(c, n)[p[2]]}

\* Mutant: the chunks beyond a note's new end stay.
RemovedNever(c, g, n) == {}

Removed(c, g, n) == Stored(g, n) \ Wanted(c, n)

\* The notes plan_chunks has work for.
Work(c, g) == {n \in Chunked(c) : \/ Changed(c, g, n) # {}
                                  \/ Removed(c, g, n) # {}
                                  \/ StaleShadow(c, g, n)
                                  \/ g.art[n] # "shadow"}

\* Mutant: a first note that costs more than the budget is put off as well.
BatchesWithinBudget(W, g) ==
  {B \in SUBSET W : /\ Cardinality(B) <= NotesChunkedPerRun
                    /\ \A n \in B, m \in W \ B : g.shadow[m] # None => g.shadow[n] # None}

\* The notes a run may take: those that already have a shadow come first, the
\* run takes at least one, and the character budget can stop it after any.
Batches(W, g) ==
  {B \in SUBSET W : /\ B = {} => W = {}
                    /\ Cardinality(B) <= NotesChunkedPerRun
                    /\ \A n \in B, m \in W \ B : g.shadow[m] # None => g.shadow[n] # None}

HasShadow(g, n) == g.shadow[n] # None \/ Stored(g, n) # {}
Gone(c, g)      == {n \in Notes : g.note[n] # None} \ Present(c)
Orphans(c, g)   == {n \in Notes \ Present(c) : g.note[n] = None /\ HasShadow(g, n)}
Unchunked(c, g) == {n \in Present(c) \ Chunked(c) : HasShadow(g, n)}

\* Mutant: the passages are left to go with their artifact.
RemovalGroupNoPassages(g, n, notes) ==
  (IF g.shadow[n] # None THEN {ArtifactRow(n)} ELSE {}) \cup {NoteRow(m) : m \in {n} \cap notes}

\* removal_group: the passages, then the shadow artifact, then the note.
RemovalGroup(g, n, notes) ==
  {PassageRow(p) : p \in Stored(g, n)}
    \cup (IF g.shadow[n] # None THEN {ArtifactRow(n)} ELSE {})
    \cup {NoteRow(m) : m \in {n} \cap notes}

\* Mutant: links are loaded again without deleting the stored ones.
PruneGroupsNoUnlink(c, g, B) ==
  {RemovalGroup(g, n, Gone(c, g)) : n \in Gone(c, g) \cup Orphans(c, g) \cup Unchunked(c, g)}
    \cup {{PassageRow(p) : p \in Removed(c, g, n)} : n \in {m \in B : Removed(c, g, m) # {}}}

PruneGroups(c, g, B) ==
  {RemovalGroup(g, n, Gone(c, g)) : n \in Gone(c, g) \cup Orphans(c, g) \cup Unchunked(c, g)}
    \cup {{LinksOf(n)} : n \in {m \in Relinked(c, g) : Targets(g, m) # {}}}
    \cup {{PassageRow(p) : p \in Removed(c, g, n)} : n \in {m \in B : Removed(c, g, m) # {}}}

PlannedNodes(c, g, B) ==
  {NoteRow(n) : n \in Rewritten(c, g)} \cup {ArtifactRow(n) : n \in {m \in B : StaleShadow(c, g, m)}}

PlannedUnits(c, g, B) == UNION {Changed(c, g, n) : n \in B}

\* Mutant: only the links the vault holds come back.
PlannedEdgesVaultOnly(c, g, B) ==
  {ArtEdge(n) : n \in {m \in B : g.art[m] = "none"}}
    \cup UNION {{Link(n, t) : t \in LinkTargets(c, n)} : n \in Relinked(c, g)}

PlannedEdges(c, g, B) ==
  {ArtEdge(n) : n \in {m \in B : g.art[m] = "none"}}
    \cup UNION {{Link(n, t) : t \in LinkTargets(c, n) \cup (Targets(g, n) \ Notes)} :
                  n \in Relinked(c, g)}

\* Mutant: the passages of a removed note are forgotten.
TouchedByChunks(c, g, B) == UNION {Changed(c, g, n) \cup Removed(c, g, n) : n \in B}

\* The passages this plan writes or deletes; plan_heal must leave them alone.
Touched(c, g, B) ==
  (UNION {Stored(g, n) : n \in Gone(c, g) \cup Orphans(c, g) \cup Unchunked(c, g)})
    \cup UNION {Changed(c, g, n) \cup Removed(c, g, n) : n \in B}

HealCandidates(c, g, B) ==
  {NoteRow(n) : n \in {m \in Present(c) \ Rewritten(c, g) : m \notin g.noteVec}}
    \cup {PassageRow(p) : p \in {q \in Pids \ Touched(c, g, B) :
                                   g.text[q] # None /\ q \notin g.passVec}}

\* The oldest ones, up to the limit; a row's age is left open.
HealChoices(C) ==
  {H \in SUBSET C : IF Cardinality(C) <= HealRowsPerRun THEN H = C
                    ELSE Cardinality(H) = HealRowsPerRun}

-----------------------------------------------------------------------------
(* The steps of the pod. *)

NoPlan ==
  /\ prunes = {} /\ nodes = {} /\ units = {} /\ edges = {} /\ heals = {}
  /\ vectors = {} /\ deferred = FALSE

ClearPod ==
  /\ phase' = "idle" /\ clone' = NoVault /\ snap' = EmptyGraph
  /\ prunes' = {} /\ nodes' = {} /\ units' = {} /\ edges' = {} /\ heals' = {}
  /\ vectors' = {} /\ deferred' = FALSE

Init ==
  /\ vault \in FirstVaults
  /\ brain = EmptyGraph
  /\ phase = "idle" /\ clone = NoVault /\ snap = EmptyGraph /\ NoPlan
  /\ asserted = {} /\ edits = 0 /\ faults = 0 /\ agentWrites = 0

CloneVault ==
  /\ phase = "idle"
  /\ phase' = "cloned" /\ clone' = vault
  /\ UNCHANGED <<brain, snap, planVars, envVars, faults>>

\* Seven queries.  Only links and artifact links move under them, and each of
\* those tables is one query.
Snapshot ==
  /\ phase = "cloned"
  /\ phase' = "snapped" /\ snap' = brain
  /\ UNCHANGED <<brain, clone, planVars, envVars, faults>>

\* run: a vault without notes never empties a graph that has some.
RefuseEmptyVault ==
  /\ phase = "snapped" /\ Present(clone) = {}
  /\ \E n \in Notes : snap.note[n] # None
  /\ ClearPod
  /\ UNCHANGED <<brain, envVars, faults>>

MakePlan ==
  /\ phase = "snapped"
  /\ Present(clone) = {} => \A n \in Notes : snap.note[n] = None
  /\ \E B \in Batches(Work(clone, snap), snap) :
       /\ prunes' = PruneGroups(clone, snap, B)
       /\ nodes'  = PlannedNodes(clone, snap, B)
       /\ units'  = PlannedUnits(clone, snap, B)
       /\ edges'  = PlannedEdges(clone, snap, B)
       /\ heals' \in HealChoices(HealCandidates(clone, snap, B))
       /\ deferred' = (B # Work(clone, snap))
  /\ phase' = "planned" /\ vectors' = {}
  /\ UNCHANGED <<brain, clone, snap, envVars, faults>>

\* Mutant: artifact rows go to the embedding model as well.
ToEmbedEveryRow == nodes \cup {PassageRow(p) : p \in units}

ToEmbed == {r \in nodes : r[1] = "Note"} \cup {PassageRow(p) : p \in units}

\* run_main and run_heal with the model answering: every row gets its vector.
Embed ==
  /\ phase = "planned"
  /\ phase' = "applying"
  /\ vectors' = ToEmbed \cup heals
  /\ UNCHANGED <<brain, clone, snap, prunes, nodes, units, edges, heals, deferred, envVars, faults>>

\* The model stops answering: the rows still go out, some without a vector, and
\* a heal row that got none is dropped.  Notes come first, heal rows last.
EmbedOutage ==
  /\ phase = "planned" /\ faults < MaxFaults /\ Room
  /\ \E V \in SUBSET (ToEmbed \cup heals) :
       /\ V \ nodes # {} => ToEmbed \cap nodes \subseteq V
       /\ V \cap heals # {} => ToEmbed \subseteq V
       /\ vectors' = V
       /\ heals' = heals \cap V
  /\ phase' = "applying" /\ faults' = faults + 1
  /\ UNCHANGED <<brain, clone, snap, prunes, nodes, units, edges, deferred, envVars>>

\* The next file: batched_units and prune_files cut the plan at a size.  Which
\* rows come first is left open.
Files(pending) ==
  {F \in SUBSET pending : /\ F # {}
                          /\ Cardinality(F) <= FileRows
                          /\ Cardinality(F) < FileRows => F = pending}

NotesIn(F)    == {n \in Notes : NoteRow(n) \in F}
PassagesIn(F) == {p \in Pids : PassageRow(p) \in F}

\* A prune file holds whole groups.
PruneAccepted(F) == WellFormed(Delete(brain, UNION F))

ApplyPrune ==
  /\ phase = "applying"
  /\ \E F \in Files(prunes) :
       /\ PruneAccepted(F)
       /\ brain' = Delete(brain, UNION F)
       /\ prunes' = prunes \ F
  /\ UNCHANGED <<phase, clone, snap, nodes, units, edges, heals, vectors, deferred, envVars, faults>>

LoadedNodes(g, F) ==
  [MergeNotes(g, NotesIn(F), clone.ver, NotesIn(vectors)) EXCEPT
     !.shadow = [n \in Notes |-> IF ArtifactRow(n) \in F THEN DigestOf[clone.ver[n]]
                                 ELSE g.shadow[n]]]

NodesAccepted(F) == WellFormed(LoadedNodes(brain, F))

ApplyNodes ==
  /\ phase = "applying" /\ prunes = {}
  /\ \E F \in Files(nodes) :
       /\ NodesAccepted(F)
       /\ brain' = LoadedNodes(brain, F)
       /\ nodes' = nodes \ F
  /\ UNCHANGED <<phase, clone, snap, prunes, units, edges, heals, vectors, deferred, envVars, faults>>

ChunkTexts == [p \in Pids |-> IF p \in Wanted(clone, p[1]) THEN Chunks(clone, p[1])[p[2]] ELSE None]

\* A passage the snapshot did not hold brings its PassageOf edge.
NewEdges(F) == {p \in F : snap.text[p] = None}

LoadedUnits(g, F) ==
  [MergePassages(g, F, ChunkTexts, PassagesIn(vectors)) EXCEPT !.of = g.of \cup NewEdges(F)]

UnitsAccepted(F) == WellFormed(LoadedUnits(brain, F)) /\ NewEdges(F) \cap brain.of = {}

ApplyUnits ==
  /\ phase = "applying" /\ prunes = {} /\ nodes = {}
  /\ \E F \in Files(units) :
       /\ UnitsAccepted(F)
       /\ brain' = LoadedUnits(brain, F)
       /\ units' = units \ F
  /\ UNCHANGED <<phase, clone, snap, prunes, nodes, edges, heals, vectors, deferred, envVars, faults>>

LoadedEdges(g, F) ==
  [g EXCEPT !.links = g.links \cup {e \in Notes \X (Notes \cup Foreign) : Link(e[1], e[2]) \in F},
            !.art = [n \in Notes |-> IF ArtEdge(n) \in F THEN "shadow" ELSE g.art[n]]]

\* A note has at most one NoteFromArtifact edge.
EdgesAccepted(F) ==
  WellFormed(LoadedEdges(brain, F)) /\ \A n \in Notes : ArtEdge(n) \in F => brain.art[n] = "none"

ApplyEdges ==
  /\ phase = "applying" /\ prunes = {} /\ nodes = {} /\ units = {}
  /\ \E F \in Files(edges) :
       /\ EdgesAccepted(F)
       /\ brain' = LoadedEdges(brain, F)
       /\ edges' = edges \ F
  /\ UNCHANGED <<phase, clone, snap, prunes, nodes, units, heals, vectors, deferred, envVars, faults>>

\* A heal row is the snapshot's row, now with a vector.
Healed(g, F) ==
  MergePassages(MergeNotes(g, NotesIn(F), snap.note, NotesIn(vectors)),
                PassagesIn(F), snap.text, PassagesIn(vectors))

HealAccepted(F) == WellFormed(Healed(brain, F))

ApplyHeal ==
  /\ phase = "applying" /\ prunes = {} /\ nodes = {} /\ units = {} /\ edges = {}
  /\ \E F \in Files(heals) :
       /\ HealAccepted(F)
       /\ brain' = Healed(brain, F)
       /\ heals' = heals \ F
  /\ UNCHANGED <<phase, clone, snap, prunes, nodes, units, edges, vectors, deferred, envVars, faults>>

Applied == phase = "applying" /\ prunes = {} /\ nodes = {} /\ units = {} /\ edges = {} /\ heals = {}

Report ==
  /\ Applied
  /\ ClearPod
  /\ UNCHANGED <<brain, envVars, faults>>

\* The pod dies, runs past its deadline, or a file is refused for a reason that
\* lies outside the plan (conflict retries used up, recovery, a refused token).
Fail ==
  /\ phase # "idle" /\ faults < MaxFaults /\ Room
  /\ faults' = faults + 1
  /\ ClearPod
  /\ UNCHANGED <<brain, envVars>>

RefusedFiles ==
  CASE prunes # {} -> {F \in Files(prunes) : ~PruneAccepted(F)}
    [] prunes = {} /\ nodes # {} -> {F \in Files(nodes) : ~NodesAccepted(F)}
    [] prunes = {} /\ nodes = {} /\ units # {} -> {F \in Files(units) : ~UnitsAccepted(F)}
    [] prunes = {} /\ nodes = {} /\ units = {} /\ edges # {} ->
         {F \in Files(edges) : ~EdgesAccepted(F)}
    [] OTHER -> {F \in Files(heals) : ~HealAccepted(F)}

\* The server refuses the next file for what it holds; apply.sh stops there.
Refused ==
  /\ phase = "applying"
  /\ RefusedFiles # {}
  /\ ClearPod
  /\ UNCHANGED <<brain, envVars, faults>>

-----------------------------------------------------------------------------
(* The world around the pod. *)

\* A commit lands in the vault: a note appears, changes, is relinked or goes.
EditVault ==
  /\ edits < MaxEdits
  /\ \E n \in Notes, v \in Versions \cup {None}, T \in SUBSET Notes :
       /\ v = None => T = {}
       /\ vault' = [ver |-> [vault.ver EXCEPT ![n] = v], target |-> [vault.target EXCEPT ![n] = T]]
  /\ vault' # vault
  /\ edits' = edits + 1
  /\ UNCHANGED <<brain, podVars, asserted, faults, agentWrites>>

\* An agent links a vault note to a node of its own.
AgentLinks ==
  /\ agentWrites < MaxAgentWrites /\ Room
  /\ \E n \in Notes, t \in brain.foreign :
       /\ brain.note[n] # None /\ <<n, t>> \notin brain.links
       /\ brain' = [brain EXCEPT !.links = @ \cup {<<n, t>>}]
       /\ asserted' = asserted \cup {<<n, t>>}
  /\ agentWrites' = agentWrites + 1
  /\ UNCHANGED <<vault, podVars, edits, faults>>

\* An agent deletes a node of its own, and every edge to it.
AgentDeletes ==
  /\ agentWrites < MaxAgentWrites /\ Room
  /\ \E t \in brain.foreign :
       /\ brain' = [brain EXCEPT !.foreign = @ \ {t}, !.links = {e \in @ : e[2] # t}]
       /\ asserted' = {e \in asserted : e[2] # t}
  /\ agentWrites' = agentWrites + 1
  /\ UNCHANGED <<vault, podVars, edits, faults>>

\* An agent says a vault note comes from an artifact of its own.
AgentSources ==
  /\ agentWrites < MaxAgentWrites /\ Room
  /\ \E n \in Notes :
       /\ brain.note[n] # None /\ brain.art[n] = "none"
       /\ brain' = [brain EXCEPT !.art[n] = "other"]
  /\ agentWrites' = agentWrites + 1
  /\ UNCHANGED <<vault, podVars, asserted, edits, faults>>

PodStep ==
  \/ CloneVault \/ Snapshot \/ RefuseEmptyVault \/ MakePlan \/ Embed
  \/ ApplyPrune \/ ApplyNodes \/ ApplyUnits \/ ApplyEdges \/ ApplyHeal
  \/ Report \/ Refused

Environment == EditVault \/ AgentLinks \/ AgentDeletes \/ AgentSources

Next == PodStep \/ EmbedOutage \/ Fail \/ Environment

Spec == Init /\ [][Next]_vars

\* The CronJob starts a run four times an hour, and a pod that lives takes its
\* next step.
FairSpec == Spec /\ WF_vars(PodStep)
-----------------------------------------------------------------------------
(* Properties. *)

\* Types of all variables.
TypeOK ==
  /\ vault \in Vaults /\ clone \in Vaults
  /\ brain \in Graphs /\ snap \in Graphs
  /\ phase \in {"idle", "cloned", "snapped", "planned", "applying"}
  /\ prunes \in SUBSET SUBSET Statements
  /\ nodes \in SUBSET NodeRows /\ units \in SUBSET Pids
  /\ edges \in SUBSET EdgeRows /\ heals \in SUBSET HealRows
  /\ vectors \in SUBSET HealRows
  /\ deferred \in BOOLEAN
  /\ asserted \in SUBSET (Notes \X Foreign)
  /\ edits \in 0..MaxEdits /\ faults \in 0..MaxFaults /\ agentWrites \in 0..MaxAgentWrites

\* What the importer owns of graph g is what vault c says.
Mirrors(c, g) ==
  /\ g.note = c.ver
  /\ \A n \in Present(c) : Targets(g, n) \cap Notes = LinkTargets(c, n)
  /\ \A n \in Notes : g.shadow[n] = IF n \in Chunked(c) THEN DigestOf[c.ver[n]] ELSE None
  /\ \A n \in Chunked(c) : g.art[n] # "none"
  /\ \A p \in Pids : g.text[p] = IF p \in Wanted(c, p[1]) THEN Chunks(c, p[1])[p[2]] ELSE None

\* A run that applied all its files, whatever half-applied runs came before it
\* and whatever agents wrote meanwhile, leaves the graph equal to its clone of
\* the vault, unless it put notes off (build_plan, apply.sh).
CompleteRunMirrors == Applied /\ ~deferred => Mirrors(clone, brain)

\* Edges an agent has made impossible since the snapshot.
Disturbed(e) ==
  \/ e[1] = "RelatedNote" /\ e[3] \in Foreign \ brain.foreign
  \/ e[1] = "NoteFromArtifact" /\ brain.art[e[2]] # "none"

\* The server never refuses a file of the plan for what the plan got wrong: no
\* prune leaves a passage without its artifact, no load names a row that is not
\* there or an edge that exists, at whatever point an earlier run stopped.  Left
\* out are foreign nodes and artifact links that agents changed meanwhile.
OwnFilesAccepted ==
  phase = "applying" =>
    /\ \A F \in Files(prunes) : PruneAccepted(F)
    /\ prunes = {} => \A F \in Files(nodes) : NodesAccepted(F)
    /\ prunes = {} /\ nodes = {} => \A F \in Files(units) : UnitsAccepted(F)
    /\ prunes = {} /\ nodes = {} /\ units = {} =>
         \A F \in Files({e \in edges : ~Disturbed(e)}) : EdgesAccepted(F)
    /\ prunes = {} /\ nodes = {} /\ units = {} /\ edges = {} =>
         \A F \in Files(heals) : HealAccepted(F)

\* A heal row holds the text the graph holds at that moment: reloading it can
\* add a vector, but neither bring back a row the run deleted nor undo a text
\* the run wrote (plan_heal's rewritten and touched sets).
HealKeepsText ==
  phase = "applying" =>
    /\ \A n \in NotesIn(heals) : brain.note[n] = snap.note[n] /\ brain.note[n] # None
    /\ \A p \in PassagesIn(heals) : brain.text[p] = snap.text[p] /\ brain.text[p] # None

\* A merge load does not deduplicate edges: when the loads start, no link
\* between vault notes that is still to be loaded is in the graph already.
NoLinkLoadedTwice ==
  phase = "applying" /\ prunes = {} =>
    \A n, t \in Notes : Link(n, t) \in edges => <<n, t>> \notin brain.links

\* A run that applied all its files kept the edges from vault notes to foreign
\* nodes that its snapshot saw, though it deletes them with the note's own.
KeepsForeignLinks ==
  Applied => \A e \in snap.links :
    e[2] \in brain.foreign /\ e[1] \in Present(clone) => e \in brain.links

\* Notes that an agent has linked to an artifact of its own: such a note is work for
\* plan_chunks in every run, and comes before those that have no shadow.
Opposed(g) == {n \in Notes : g.art[n] = "other"}

\* Once the vault rests and faults cease, the runs bring the graph to the vault
\* and keep it there, however few notes a run may chunk, as long as these are more than
\* the opposed ones, which would use up the budget of every run; and every row written
\* during an embedding outage gets its vector.
Settled ==
  Present(vault) # {} /\ Cardinality(Opposed(brain)) < NotesChunkedPerRun =>
    /\ Mirrors(vault, brain)
    /\ \A n \in Notes : brain.note[n] # None => n \in brain.noteVec
    /\ \A p \in Pids : brain.text[p] # None => p \in brain.passVec

\* An edge an agent wrote from a vault note to its own node comes back after a
\* run deleted it: a failed run repairs itself on the next one.
ForeignLinksComeBack ==
  \A n \in Notes, t \in Foreign :
    [](<<n, t>> \in asserted =>
         <>(\/ <<n, t>> \notin asserted \/ brain.note[n] = None
            \/ <<n, t>> \in brain.links))
=============================================================================
