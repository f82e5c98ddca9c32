----------------------------- MODULE ForgeImport -----------------------------
(***************************************************************************)
(* The Forgejo importer of the brain graph                                 *)
(* (src/kubernetes/apps/ai/omnigraph/forge-import/app).                    *)
(*                                                                         *)
(* An hourly pod snapshots what the graph holds under forge/, reads the    *)
(* forge, plans the difference, embeds its rows and applies it file by     *)
(* file.  Unlike the vault importer it decides from the artifact's own row *)
(* whether an artifact is up to date, cuts its deletes by statement and    *)
(* not by note, and reads stored chunks from the live graph.               *)
(*                                                                         *)
(* A version stands for a file's blob or a thread's content.  One project  *)
(* stands for every repository: its row loads before its artifacts.        *)
(* Organizations go through the same code as people and are left out, and  *)
(* NoteAboutProject through the same code as NoteFromArtifact.             *)
(***************************************************************************)
EXTENDS Naturals, FiniteSets, Sequences

CONSTANTS
  Docs,            \* README and documentation files
  Decisions,       \* the files that are decision records and get a Note
  Threads,         \* issues and pull requests
  People,          \* authors of threads
  Versions,        \* contents of a file or a thread
  Texts,           \* chunk texts
  ChunksOf,        \* chunk_text of a version
  None,
  FileRows,        \* rows in a load file, statements in a prune file
  HealRowsPerRun,  \* HEAL_ROWS_PER_RUN
  MaxEdits,        \* bound: changes of the forge and of the token's access
  MaxFaults,       \* bound: pods that die, embedding outages
  MaxAgentWrites   \* bound: links written by agents

Items == Docs \cup Threads

ForgeAssumption ==
  /\ Decisions \subseteq Docs /\ Docs \cap Threads = {}
  /\ ChunksOf \in [Versions -> Seq(Texts)]
  /\ None \notin Versions \cup Texts \cup People
  /\ {FileRows, HealRowsPerRun} \subseteq Nat \ {0}
  /\ MaxEdits \in Nat /\ MaxFaults \in Nat /\ MaxAgentWrites \in Nat

VARIABLES
  forge,     \* the repositories: version per item, author per thread
  visible,   \* the token sees the repositories
  brain,     \* the graph under forge/
  phase,     \* the step the pod is at
  snap,      \* the pod's snapshot of the graph
  want,      \* what the pod collected from the forge
  prunes,    \* delete statements still to apply
  loads,     \* rows and edges still to load
  heals,     \* vectorless rows still to reload
  vectors,   \* rows the embed step gave a vector
  edits, faults, agentWrites

podVars == <<phase, snap, want, prunes, loads, heals, vectors>>
vars    == <<forge, visible, brain, podVars, edits, faults, agentWrites>>

Indices == UNION {DOMAIN ChunksOf[v] : v \in Versions}
Pids    == Items \X Indices

PassageRow(p)   == <<"Passage", p>>
NoteRow(d)      == <<"Note", d>>
ArtifactRow(i)  == <<"Artifact", i>>
PersonRow(q)    == <<"Person", q>>
ForProject(i, t) == <<"ArtifactForProject", i, t>>
FromPerson(i, q) == <<"ArtifactFromPerson", i, q>>
FromArtifact(d)  == <<"NoteFromArtifact", d>>
EdgesFrom(e, i)  == <<e, i>>             \* delete e where from = i

Rows       == {PersonRow(q) : q \in People} \cup {ArtifactRow(i) : i \in Items}
                \cup {NoteRow(d) : d \in Decisions} \cup {PassageRow(p) : p \in Pids}
HealRows   == {NoteRow(d) : d \in Decisions} \cup {PassageRow(p) : p \in Pids}
Edges      == {ForProject(i, t) : i \in Items, t \in {"own", "agent"}}
                \cup {FromPerson(t, q) : t \in Threads, q \in People}
                \cup {FromArtifact(d) : d \in Decisions}
Statements == Rows \cup {EdgesFrom("ArtifactForProject", i) : i \in Items}
                \cup {EdgesFrom("ArtifactFromPerson", t) : t \in Threads}

-----------------------------------------------------------------------------
(* The forge and the graph. *)

Forges == [ver : [Items -> Versions \cup {None}], author : [Threads -> People \cup {None}]]

NoForge == [ver |-> [i \in Items |-> None], author |-> [t \in Threads |-> None]]

Graphs == [artifact : [Items -> Versions \cup {None}],      \* Artifact rows
           note     : [Decisions -> Versions \cup {None}],  \* decision Notes
           noteVec  : SUBSET Decisions,
           person   : SUBSET People,
           text     : [Pids -> Texts \cup {None}],          \* Passage rows
           of       : SUBSET Pids,                          \* PassageOf
           passVec  : SUBSET Pids,
           project  : SUBSET (Items \X {"own", "agent"}),   \* ArtifactForProject
           author   : SUBSET (Threads \X People),           \* ArtifactFromPerson
           source   : SUBSET Decisions]                     \* NoteFromArtifact

EmptyGraph == [artifact |-> [i \in Items |-> None], note |-> [d \in Decisions |-> None],
               noteVec |-> {}, person |-> {}, text |-> [p \in Pids |-> None], of |-> {},
               passVec |-> {}, project |-> {}, author |-> {}, source |-> {}]

Stored(g, i) == {p \in Pids : p[1] = i /\ g.text[p] # None}

\* The server's rules: edges end in rows that exist, and a passage has exactly
\* one PassageOf edge, to its artifact.
WellFormed(g) ==
  /\ \A p \in Pids : g.text[p] # None => p \in g.of /\ g.artifact[p[1]] # None
  /\ \A e \in g.project : g.artifact[e[1]] # None
  /\ \A e \in g.author : g.artifact[e[1]] # None /\ e[2] \in g.person
  /\ \A d \in g.source : g.note[d] # None /\ g.artifact[d] # None

\* Deleting a row takes the edges at either end with it.
Delete(g, S) ==
  LET keepPid(p)    == PassageRow(p) \notin S
      keepNote(d)   == NoteRow(d) \notin S
      keepArt(i)    == ArtifactRow(i) \notin S
      keepEdge(e, i) == keepArt(i) /\ EdgesFrom(e, i) \notin S
  IN  [artifact |-> [i \in Items |-> IF keepArt(i) THEN g.artifact[i] ELSE None],
       note     |-> [d \in Decisions |-> IF keepNote(d) THEN g.note[d] ELSE None],
       noteVec  |-> {d \in g.noteVec : keepNote(d)},
       person   |-> {q \in g.person : PersonRow(q) \notin S},
       text     |-> [p \in Pids |-> IF keepPid(p) THEN g.text[p] ELSE None],
       of       |-> {p \in g.of : keepPid(p)},
       passVec  |-> {p \in g.passVec : keepPid(p)},
       project  |-> {e \in g.project : keepEdge("ArtifactForProject", e[1])},
       author   |-> {e \in g.author : /\ keepEdge("ArtifactFromPerson", e[1])
                                      /\ PersonRow(e[2]) \notin S},
       source   |-> {d \in g.source : keepNote(d) /\ keepEdge("NoteFromArtifact", d)}]

-----------------------------------------------------------------------------
(* What the run wants: c is the collected forge, g the snapshot. *)

Present(c)   == {i \in Items : c.ver[i] # None}
Authors(c)   == {c.author[t] : t \in Threads \cap Present(c)} \ {None}
Chunks(c, i) == IF i \in Present(c) THEN ChunksOf[c.ver[i]] ELSE << >>
Wanted(c, i) == {<<i, k>> : k \in DOMAIN Chunks(c, i)}

\* An artifact is up to date when its row is and it has some passage, or no text.
Rewritten(c, g) ==
  {i \in Present(c) : \/ g.artifact[i] # c.ver[i]
                      \/ Chunks(c, i) # << >> /\ Stored(g, i) = {}}

\* fetch_changed_files: otherwise the file, and with it its Note, is kept.
Fetched(c, g) ==
  {d \in Docs \cap Present(c) : \/ g.artifact[d] # c.ver[d] \/ Stored(g, d) = {}
                                \/ d \in Decisions /\ g.note[d] = None}

NotesWritten(c, g) == {d \in Decisions \cap Fetched(c, g) : g.note[d] # c.ver[d]}

\* build_plan compares with the texts the reader finds in the live graph b.
Changed(c, g, b, i) ==
  {p \in Wanted(c, i) : p \notin Stored(g, i) \/ b.text[p] # Chunks(c, i)[p[2]]}

\* Mutant: the chunks beyond an item's new end stay.
RemovedNever(c, g, i) == {}

Removed(c, g, i) == Stored(g, i) \ Wanted(c, i)

\* Rows of the snapshot whose record is gone from the forge.
GoneItems(c, g)  == {i \in Items : g.artifact[i] # None} \ Present(c)
GoneNotes(c, g)  == {d \in Decisions : g.note[d] # None} \ Present(c)
GonePeople(c, g) == g.person \ Authors(c)

Deleted(c, g) ==
  {PassageRow(p) : p \in UNION {Stored(g, i) : i \in GoneItems(c, g)}}
    \cup {NoteRow(d) : d \in GoneNotes(c, g)}
    \cup {ArtifactRow(i) : i \in GoneItems(c, g)}
    \cup {PersonRow(q) : q \in GonePeople(c, g)}

ProjectRelinked(c, g) == {i \in Present(c) : <<i, "own">> \notin g.project}
AuthorOf(g, t)        == {q \in People : <<t, q>> \in g.author}
AuthorRelinked(c, g)  ==
  {t \in Threads \cap Present(c) : c.author[t] # None /\ AuthorOf(g, t) # {c.author[t]}}
SourceRelinked(c, g)  == {d \in Decisions \cap Present(c) : d \notin g.source}

\* Only an edge that has targets is deleted before it is loaded again.
Unlinked(c, g) ==
  {EdgesFrom("ArtifactForProject", i) : i \in {j \in ProjectRelinked(c, g) : <<j, "agent">> \in g.project}}
    \cup {EdgesFrom("ArtifactFromPerson", t) : t \in {s \in AuthorRelinked(c, g) : AuthorOf(g, s) # {}}}

PlannedPrunes(c, g) ==
  Deleted(c, g)
    \cup {PassageRow(p) : p \in UNION {Removed(c, g, i) : i \in Rewritten(c, g)}}
    \cup Unlinked(c, g)

PlannedRows(c, g) ==
  {PersonRow(q) : q \in Authors(c) \ g.person}
    \cup {ArtifactRow(i) : i \in Rewritten(c, g)}
    \cup {NoteRow(d) : d \in NotesWritten(c, g)}

PlannedPassages(c, g, b) == UNION {Changed(c, g, b, i) : i \in Rewritten(c, g)}

\* The collected target, and with it the targets others wrote.
PlannedEdges(c, g) ==
  {ForProject(i, "own") : i \in ProjectRelinked(c, g)}
    \cup {ForProject(i, "agent") : i \in {j \in ProjectRelinked(c, g) : <<j, "agent">> \in g.project}}
    \cup {FromPerson(t, c.author[t]) : t \in AuthorRelinked(c, g)}
    \cup {FromArtifact(d) : d \in SourceRelinked(c, g)}

\* The rows this plan writes or deletes; plan_heal leaves them alone.
Touched(c, g, b) ==
  {NoteRow(d) : d \in NotesWritten(c, g) \cup GoneNotes(c, g)}
    \cup {PassageRow(p) : p \in PlannedPassages(c, g, b)}
    \cup PlannedPrunes(c, g)

HealCandidates(c, g, b) ==
  ({NoteRow(d) : d \in {n \in Decisions \ g.noteVec : g.note[n] # None}}
     \cup {PassageRow(p) : p \in {q \in Pids \ g.passVec : g.text[q] # None}})
    \ Touched(c, g, b)

\* The oldest ones, up to the limit; a row's age is left open.
HealChoices(C) ==
  {H \in SUBSET C : IF Cardinality(C) <= HealRowsPerRun THEN H = C
                    ELSE Cardinality(H) = HealRowsPerRun}

-----------------------------------------------------------------------------
(* The steps of the pod. *)

ClearPod ==
  /\ phase' = "idle" /\ snap' = EmptyGraph /\ want' = NoForge
  /\ prunes' = {} /\ loads' = {} /\ heals' = {} /\ vectors' = {}

Init ==
  /\ forge \in {f \in Forges : \A t \in Threads : f.ver[t] = None => f.author[t] = None}
  /\ visible = TRUE
  /\ brain = EmptyGraph
  /\ phase = "idle" /\ snap = EmptyGraph /\ want = NoForge
  /\ prunes = {} /\ loads = {} /\ heals = {} /\ vectors = {}
  /\ edits = 0 /\ faults = 0 /\ agentWrites = 0

Snapshot ==
  /\ phase = "idle"
  /\ phase' = "snapped" /\ snap' = brain
  /\ UNCHANGED <<forge, visible, brain, want, prunes, loads, heals, vectors, edits, faults, agentWrites>>

\* Mutant: what the token shows is taken for the whole forge.
NothingVisibleNever(g) == FALSE

\* No project collected, but the graph has one: it loads before any artifact.
NothingVisible(g) == ~visible /\ \E i \in Items : g.artifact[i] # None

RefuseNothingVisible ==
  /\ phase = "snapped" /\ NothingVisible(snap)
  /\ ClearPod
  /\ UNCHANGED <<forge, visible, brain, edits, faults, agentWrites>>

MakePlan ==
  /\ phase = "snapped" /\ ~NothingVisible(snap)
  /\ LET c == IF visible THEN forge ELSE NoForge
     IN  /\ want'   = c
         /\ prunes' = PlannedPrunes(c, snap)
         /\ loads'  = PlannedRows(c, snap) \cup {PassageRow(p) : p \in PlannedPassages(c, snap, brain)}
                        \cup PlannedEdges(c, snap)
         /\ heals' \in HealChoices(HealCandidates(c, snap, brain))
  /\ phase' = "planned" /\ vectors' = {}
  /\ UNCHANGED <<forge, visible, brain, snap, edits, faults, agentWrites>>

\* Mutant: every row of the plan goes to the embedding model.
ToEmbedEveryRow == loads

ToEmbed == {u \in loads : u[1] \in {"Note", "Passage"}}

Embed ==
  /\ phase = "planned"
  /\ phase' = "applying" /\ vectors' = ToEmbed \cup heals
  /\ UNCHANGED <<forge, visible, brain, snap, want, prunes, loads, heals, edits, faults, agentWrites>>

\* The model stops answering: rows of the plan go out without a vector, heal rows
\* that got none are dropped.
EmbedOutage ==
  /\ phase = "planned" /\ faults < MaxFaults
  /\ \E V \in SUBSET (ToEmbed \cup heals) :
       /\ V \cap heals # {} => ToEmbed \subseteq V
       /\ vectors' = V /\ heals' = heals \cap V
  /\ phase' = "applying" /\ faults' = faults + 1
  /\ UNCHANGED <<forge, visible, brain, snap, want, prunes, loads, edits, agentWrites>>

\* The first FileRows of the pending units, in the order of their tables.
Files(pending, order) ==
  {F \in SUBSET pending : /\ F # {} /\ Cardinality(F) <= FileRows
                          /\ Cardinality(F) < FileRows => F = pending
                          /\ \A u \in F, w \in pending \ F : order[u[1]] <= order[w[1]]}

DeleteOrder == [Passage |-> 1, Note |-> 2, Artifact |-> 3, Person |-> 4,
                ArtifactForProject |-> 5, ArtifactFromPerson |-> 5]

PruneAccepted(F) == WellFormed(Delete(brain, F))

ApplyPrune ==
  /\ phase = "applying"
  /\ \E F \in Files(prunes, DeleteOrder) :
       /\ PruneAccepted(F)
       /\ brain' = Delete(brain, F)
       /\ prunes' = prunes \ F
  /\ UNCHANGED <<forge, visible, phase, snap, want, loads, heals, vectors, edits, faults, agentWrites>>

LoadOrder == [Person |-> 1, Artifact |-> 2, Note |-> 3, Passage |-> 4,
              ArtifactForProject |-> 5, ArtifactFromPerson |-> 5, NoteFromArtifact |-> 5]

\* Nodes, passages and edges go to files of their own.
Stages == <<{"Person", "Artifact", "Note"}, {"Passage"},
            {"ArtifactForProject", "ArtifactFromPerson", "NoteFromArtifact"}>>

NextStage ==
  LET of(k) == {u \in loads : u[1] \in Stages[k]}
      first == CHOOSE k \in DOMAIN Stages :
                 of(k) # {} /\ \A j \in DOMAIN Stages : of(j) # {} => k <= j
  IN  IF loads = {} THEN {} ELSE of(first)

\* A passage the snapshot did not hold brings its PassageOf edge.
NewEdges(F) == {p \in Pids : PassageRow(p) \in F /\ snap.text[p] = None}

Loaded(g, F) ==
  LET has(p) == PassageRow(p) \in F
  IN  [artifact |-> [i \in Items |-> IF ArtifactRow(i) \in F THEN want.ver[i] ELSE g.artifact[i]],
       note     |-> [d \in Decisions |-> IF NoteRow(d) \in F THEN want.ver[d] ELSE g.note[d]],
       noteVec  |-> {d \in Decisions : IF NoteRow(d) \in F THEN NoteRow(d) \in vectors ELSE d \in g.noteVec},
       person   |-> g.person \cup {q \in People : PersonRow(q) \in F},
       text     |-> [p \in Pids |-> IF has(p) THEN Chunks(want, p[1])[p[2]] ELSE g.text[p]],
       of       |-> g.of \cup NewEdges(F),
       passVec  |-> {p \in Pids : IF has(p) THEN PassageRow(p) \in vectors ELSE p \in g.passVec},
       project  |-> g.project \cup {e \in Items \X {"own", "agent"} : ForProject(e[1], e[2]) \in F},
       author   |-> g.author \cup {e \in Threads \X People : FromPerson(e[1], e[2]) \in F},
       source   |-> g.source \cup {d \in Decisions : FromArtifact(d) \in F}]

\* The server also refuses a second PassageOf edge of a passage, a second person of
\* an artifact and a second artifact of a note.
LoadAccepted(F) ==
  /\ WellFormed(Loaded(brain, F))
  /\ NewEdges(F) \cap brain.of = {}
  /\ \A t \in Threads, q \in People : FromPerson(t, q) \in F => AuthorOf(brain, t) = {}
  /\ \A d \in brain.source : FromArtifact(d) \notin F

ApplyLoad ==
  /\ phase = "applying" /\ prunes = {}
  /\ \E F \in Files(NextStage, LoadOrder) :
       /\ LoadAccepted(F)
       /\ brain' = Loaded(brain, F)
       /\ loads' = loads \ F
  /\ UNCHANGED <<forge, visible, phase, snap, want, prunes, heals, vectors, edits, faults, agentWrites>>

\* A heal row is the row the plan read, now with its vector.  No other writer
\* touches these rows, so that row is the snapshot's.
Healed(g, F) ==
  [g EXCEPT
     !.note    = [d \in Decisions |-> IF NoteRow(d) \in F THEN snap.note[d] ELSE g.note[d]],
     !.text    = [p \in Pids |-> IF PassageRow(p) \in F THEN snap.text[p] ELSE g.text[p]],
     !.noteVec = @ \cup {d \in Decisions : NoteRow(d) \in F},
     !.passVec = @ \cup {p \in Pids : PassageRow(p) \in F}]

HealAccepted(F) == WellFormed(Healed(brain, F))

ApplyHeal ==
  /\ phase = "applying" /\ prunes = {} /\ loads = {}
  /\ \E F \in Files(heals, LoadOrder) :
       /\ HealAccepted(F)
       /\ brain' = Healed(brain, F)
       /\ heals' = heals \ F
  /\ UNCHANGED <<forge, visible, phase, snap, want, prunes, loads, vectors, edits, faults, agentWrites>>

Applied == phase = "applying" /\ prunes = {} /\ loads = {} /\ heals = {}

Report ==
  /\ Applied
  /\ ClearPod
  /\ UNCHANGED <<forge, visible, brain, edits, faults, agentWrites>>

\* The pod dies, the forge answers with an error, or a file is refused for a
\* reason that lies outside the plan.  That no file is refused because of the plan
\* is OwnFilesAccepted; a model that broke it would leave the pod waiting here.
Fail ==
  /\ phase # "idle" /\ faults < MaxFaults
  /\ faults' = faults + 1
  /\ ClearPod
  /\ UNCHANGED <<forge, visible, brain, edits, agentWrites>>

-----------------------------------------------------------------------------
(* The world around the pod. *)

\* A push, a comment, a new or deleted thread.
EditForge ==
  /\ edits < MaxEdits
  /\ \E i \in Items, v \in Versions \cup {None} :
       \/ i \in Docs /\ forge' = [forge EXCEPT !.ver[i] = v]
       \/ i \in Threads /\ \E q \in People \cup {None} :
            /\ v = None => q = None
            /\ forge' = [forge EXCEPT !.ver[i] = v, !.author[i] = q]
  /\ forge' # forge
  /\ edits' = edits + 1
  /\ UNCHANGED <<visible, brain, podVars, faults, agentWrites>>

\* The token loses its access, or gets it back.
TokenAccess ==
  /\ edits < MaxEdits
  /\ visible' = ~visible
  /\ edits' = edits + 1
  /\ UNCHANGED <<forge, brain, podVars, faults, agentWrites>>

\* An agent links an artifact to a project of its own.
AgentLinks ==
  /\ agentWrites < MaxAgentWrites
  /\ \E i \in Items :
       /\ brain.artifact[i] # None /\ <<i, "agent">> \notin brain.project
       /\ brain' = [brain EXCEPT !.project = @ \cup {<<i, "agent">>}]
  /\ agentWrites' = agentWrites + 1
  /\ UNCHANGED <<forge, visible, podVars, edits, faults>>

PodStep ==
  \/ Snapshot \/ RefuseNothingVisible \/ MakePlan \/ Embed
  \/ ApplyPrune \/ ApplyLoad \/ ApplyHeal \/ Report

Next == PodStep \/ EmbedOutage \/ Fail \/ EditForge \/ TokenAccess \/ AgentLinks

Spec == Init /\ [][Next]_vars

\* The CronJob starts a run every hour, and a pod that lives takes its next step.
FairSpec == Spec /\ WF_vars(PodStep)

-----------------------------------------------------------------------------
(* Properties. *)

\* Types of all variables.
TypeOK ==
  /\ forge \in Forges /\ want \in Forges /\ visible \in BOOLEAN
  /\ brain \in Graphs /\ snap \in Graphs
  /\ phase \in {"idle", "snapped", "planned", "applying"}
  /\ prunes \in SUBSET Statements /\ loads \in SUBSET (Rows \cup Edges)
  /\ heals \in SUBSET HealRows /\ vectors \in SUBSET HealRows
  /\ edits \in 0..MaxEdits /\ faults \in 0..MaxFaults /\ agentWrites \in 0..MaxAgentWrites

\* The rows and edges of graph g are those of forge c; texts left aside.
RowsMirror(c, g) ==
  /\ g.artifact = c.ver
  /\ g.person = Authors(c)
  /\ \A d \in Decisions : g.note[d] # None <=> d \in Present(c)
  /\ \A i \in Present(c) : <<i, "own">> \in g.project
  /\ \A t \in Threads \cap Present(c) : c.author[t] # None => AuthorOf(g, t) = {c.author[t]}
  /\ Decisions \cap Present(c) = g.source

TextsMirror(c, g) ==
  /\ \A d \in Decisions : g.note[d] = c.ver[d]
  /\ \A p \in Pids : g.text[p] = IF p \in Wanted(c, p[1]) THEN Chunks(c, p[1])[p[2]] ELSE None

\* A run that applied all its files leaves the rows and edges of the forge it
\* collected, wherever an earlier run stopped, and its texts as long as no run has
\* stopped halfway.
CompleteRunMirrors ==
  Applied => RowsMirror(want, brain) /\ (faults = 0 => TextsMirror(want, brain))

\* The server never refuses a file for what the plan got wrong, wherever an
\* earlier run stopped, whatever agents link and however the statements are cut into
\* files.  A project may be linked twice, and a merge load would do so: the links
\* the forge asks for are loaded only when they are not there.
OwnFilesAccepted ==
  phase = "applying" =>
    /\ \A F \in Files(prunes, DeleteOrder) : PruneAccepted(F)
    /\ prunes = {} => /\ \A F \in Files(NextStage, LoadOrder) : LoadAccepted(F)
                      /\ \A i \in Items : ForProject(i, "own") \in loads => <<i, "own">> \notin brain.project
    /\ prunes = {} /\ loads = {} => \A F \in Files(heals, LoadOrder) : HealAccepted(F)

\* A heal row holds the text the graph holds when it is loaded.
HealKeepsText ==
  phase = "applying" =>
    /\ \A d \in Decisions : NoteRow(d) \in heals => brain.note[d] = snap.note[d] /\ brain.note[d] # None
    /\ \A p \in Pids : PassageRow(p) \in heals => brain.text[p] = snap.text[p] /\ brain.text[p] # None

\* A complete run keeps the edges agents wrote, as far as its snapshot saw them.
KeepsForeignLinks ==
  Applied => \A i \in Present(want) : <<i, "agent">> \in snap.project => <<i, "agent">> \in brain.project

\* What a run of the importer promises at its end and on its way there.
ForgeRight ==
  CompleteRunMirrors /\ OwnFilesAccepted /\ HealKeepsText /\ KeepsForeignLinks

\* A run plans to delete an artifact only when the forge does not have it: a
\* token that sees no repository any more deletes nothing (run, refusal 5).
DeletesOnlyGone ==
  [][phase = "snapped" /\ phase' = "planned" =>
       \A i \in Items : ArtifactRow(i) \in prunes' => forge.ver[i] = None]_vars

Settled ==
  visible => /\ RowsMirror(forge, brain)
             /\ \A d \in Decisions : brain.note[d] # None => d \in brain.noteVec
             /\ \A p \in Pids : brain.text[p] # None => p \in brain.passVec

\* Once the forge rests, the token sees it and faults cease, the graph settles on
\* the forge, with a vector for every note and passage.
Converges == <>[]Settled

\* A failed run repairs itself on the next one: the texts settle as well.
TextsConverge == <>[](visible => TextsMirror(forge, brain))
=============================================================================
