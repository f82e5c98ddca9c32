-------------------------- MODULE ForgeImportProofs --------------------------
(***************************************************************************)
(* Proofs about ForgeImport, for any forge, any size of the files and any  *)
(* number of edits, faults and links of agents.                            *)
(*                                                                         *)
(*   Typed     the types                                                   *)
(*   GraphInv  the rules of the graph server, and a PassageOf edge for     *)
(*             every passage                                               *)
(*   RunInv    a row is as the load left it, or gone when its delete went  *)
(*             out, or else as the snapshot has it                         *)
(*   TextInv   the texts of the snapshot are those of its artifacts until  *)
(*             a run has stopped halfway                                   *)
(***************************************************************************)
EXTENDS ForgeImport, TLAPS

-----------------------------------------------------------------------------
(* Types. *)

\* The chunks of a version are texts, under indices of passages.
LEMMA ChunkTexts ==
  ASSUME ForgeAssumption, NEW v \in Versions, NEW k \in DOMAIN ChunksOf[v]
  PROVE  k \in Indices /\ ChunksOf[v][k] \in Texts /\ ChunksOf[v][k] # None
<1>1. ChunksOf[v] \in Seq(Texts)
  BY DEF ForgeAssumption
<1>2. ChunksOf[v][k] \in Texts
  BY <1>1
<1>3. k \in Indices
  BY DEF Indices
<1> QED
  BY <1>2, <1>3 DEF ForgeAssumption

\* What a collected forge wants are passages with texts.
LEMMA WantedChunks ==
  ASSUME ForgeAssumption, NEW c \in Forges, NEW i \in Items
  PROVE  /\ Wanted(c, i) \subseteq Pids
         /\ \A p \in Wanted(c, i) : /\ i \in Present(c) /\ p[1] = i /\ p[2] \in DOMAIN ChunksOf[c.ver[i]]
                                    /\ Chunks(c, i)[p[2]] = ChunksOf[c.ver[i]][p[2]]
                                    /\ Chunks(c, i)[p[2]] \in Texts /\ Chunks(c, i)[p[2]] # None
<1>1. CASE i \in Present(c)
  <2>1. c.ver[i] \in Versions
    BY <1>1 DEF Present, Forges
  <2>2. Chunks(c, i) = ChunksOf[c.ver[i]]
    BY <1>1 DEF Chunks
  <2>3. Wanted(c, i) = {<<i, k>> : k \in DOMAIN ChunksOf[c.ver[i]]}
    BY <2>2 DEF Wanted
  <2>4. \A k \in DOMAIN ChunksOf[c.ver[i]] :
          k \in Indices /\ ChunksOf[c.ver[i]][k] \in Texts /\ ChunksOf[c.ver[i]][k] # None
    BY <2>1, ChunkTexts
  <2> QED
    BY <1>1, <2>2, <2>3, <2>4 DEF Pids
<1>2. CASE i \notin Present(c)
  <2>1. Wanted(c, i) = {}
    BY <1>2 DEF Wanted, Chunks
  <2> QED
    BY <2>1
<1> QED
  BY <1>1, <1>2

LEMMA EmptyTypes == ForgeAssumption => NoForge \in Forges /\ EmptyGraph \in Graphs
BY DEF NoForge, Forges, EmptyGraph, Graphs

LEMMA DeleteType ==
  ASSUME NEW g \in Graphs, NEW S
  PROVE  Delete(g, S) \in Graphs
BY DEF Delete, Graphs

LEMMA HealedType ==
  ASSUME TypeOK, NEW F
  PROVE  Healed(brain, F) \in Graphs
BY DEF Healed, TypeOK, Graphs

\* A passage of the plan is one the collected forge wants, and no plan outlives
\* its pod.
LoadsWanted ==
  /\ \A p \in Pids : PassageRow(p) \in loads => p \in Wanted(want, p[1])
  /\ phase = "idle" => loads = {}

LEMMA LoadedType ==
  ASSUME ForgeAssumption, TypeOK, LoadsWanted, NEW F \in SUBSET loads
  PROVE  Loaded(brain, F) \in Graphs
<1>1. brain \in Graphs /\ want \in Forges /\ want.ver \in [Items -> Versions \cup {None}]
  BY DEF TypeOK, Forges
<1>2. Decisions \subseteq Items
  BY DEF ForgeAssumption, Items
<1>3. \A p \in Pids : PassageRow(p) \in F => Chunks(want, p[1])[p[2]] \in Texts
  BY <1>1, WantedChunks DEF LoadsWanted, Pids
<1>4. NewEdges(F) \subseteq Pids
  BY DEF NewEdges
<1> DEFINE art  == [i \in Items |-> IF ArtifactRow(i) \in F THEN want.ver[i] ELSE brain.artifact[i]]
           note == [d \in Decisions |-> IF NoteRow(d) \in F THEN want.ver[d] ELSE brain.note[d]]
           text == [p \in Pids |-> IF PassageRow(p) \in F THEN Chunks(want, p[1])[p[2]] ELSE brain.text[p]]
<1>5. art \in [Items -> Versions \cup {None}]
  BY <1>1 DEF Graphs
<1>6. note \in [Decisions -> Versions \cup {None}]
  BY <1>1, <1>2 DEF Graphs
<1>7. text \in [Pids -> Texts \cup {None}]
  BY <1>1, <1>3 DEF Graphs
<1>8. /\ Loaded(brain, F).artifact = art /\ Loaded(brain, F).note = note /\ Loaded(brain, F).text = text
  BY DEF Loaded
<1> HIDE DEF art, note, text
<1> QED
  BY <1>1, <1>4, <1>5, <1>6, <1>7, <1>8 DEF Loaded, Graphs

-----------------------------------------------------------------------------
(* What a plan holds. *)

\* The rows and edges of the plan made for the forge c against the snapshot g, with
\* the texts of the graph b.
AllLoads(c, g, b) ==
  PlannedRows(c, g) \cup {PassageRow(p) : p \in PlannedPassages(c, g, b)} \cup PlannedEdges(c, g)

LEMMA ChangedAre ==
  ASSUME ForgeAssumption, NEW c \in Forges, NEW g, NEW b, NEW p \in Pids
  PROVE  p \in PlannedPassages(c, g, b) <=> p[1] \in Rewritten(c, g) /\ p \in Changed(c, g, b, p[1])
<1>1. \A i \in Items : \A r \in Changed(c, g, b, i) : r[1] = i
  BY WantedChunks DEF Changed
<1>2. Rewritten(c, g) \subseteq Items
  BY DEF Rewritten, Present
<1> QED
  BY <1>1, <1>2 DEF PlannedPassages

LEMMA LoadRowsAre ==
  ASSUME ForgeAssumption, NEW c \in Forges, NEW g, NEW b
  PROVE  /\ \A q \in People : PersonRow(q) \in AllLoads(c, g, b) <=> q \in Authors(c) \ g.person
         /\ \A i \in Items : ArtifactRow(i) \in AllLoads(c, g, b) <=> i \in Rewritten(c, g)
         /\ \A d \in Decisions : NoteRow(d) \in AllLoads(c, g, b) <=> d \in NotesWritten(c, g)
         /\ \A p \in Pids : PassageRow(p) \in AllLoads(c, g, b) <=>
                            p[1] \in Rewritten(c, g) /\ p \in Changed(c, g, b, p[1])
<1>1. \A q \in People : PersonRow(q) \in AllLoads(c, g, b) <=> q \in Authors(c) \ g.person
  BY DEF AllLoads, PlannedRows, PlannedEdges, PersonRow, ArtifactRow, NoteRow, PassageRow,
         ForProject, FromPerson, FromArtifact
<1>2. \A i \in Items : ArtifactRow(i) \in AllLoads(c, g, b) <=> i \in Rewritten(c, g)
  BY DEF AllLoads, PlannedRows, PlannedEdges, PersonRow, ArtifactRow, NoteRow, PassageRow,
         ForProject, FromPerson, FromArtifact
<1>3. \A d \in Decisions : NoteRow(d) \in AllLoads(c, g, b) <=> d \in NotesWritten(c, g)
  BY DEF AllLoads, PlannedRows, PlannedEdges, PersonRow, ArtifactRow, NoteRow, PassageRow,
         ForProject, FromPerson, FromArtifact
<1>4. \A p \in Pids : PassageRow(p) \in AllLoads(c, g, b) <=> p \in PlannedPassages(c, g, b)
  BY DEF AllLoads, PlannedRows, PlannedEdges, PersonRow, ArtifactRow, NoteRow, PassageRow,
         ForProject, FromPerson, FromArtifact
<1> QED
  BY <1>1, <1>2, <1>3, <1>4, ChangedAre

LEMMA LoadEdgesAre ==
  ASSUME NEW c \in Forges, NEW g, NEW b
  PROVE  /\ \A i \in Items : ForProject(i, "own") \in AllLoads(c, g, b) <=> i \in ProjectRelinked(c, g)
         /\ \A i \in Items : ForProject(i, "agent") \in AllLoads(c, g, b) <=>
                              i \in ProjectRelinked(c, g) /\ <<i, "agent">> \in g.project
         /\ \A t \in Threads, q \in People :
              FromPerson(t, q) \in AllLoads(c, g, b) <=> t \in AuthorRelinked(c, g) /\ q = c.author[t]
         /\ \A d \in Decisions : FromArtifact(d) \in AllLoads(c, g, b) <=> d \in SourceRelinked(c, g)
<1>1. \A i \in Items : ForProject(i, "own") \in AllLoads(c, g, b) <=> i \in ProjectRelinked(c, g)
  BY DEF AllLoads, PlannedRows, PlannedEdges, PersonRow, ArtifactRow, NoteRow, PassageRow,
         ForProject, FromPerson, FromArtifact
<1>2. \A i \in Items : ForProject(i, "agent") \in AllLoads(c, g, b) <=>
                      i \in ProjectRelinked(c, g) /\ <<i, "agent">> \in g.project
  BY DEF AllLoads, PlannedRows, PlannedEdges, PersonRow, ArtifactRow, NoteRow, PassageRow,
         ForProject, FromPerson, FromArtifact
<1>3. \A t \in Threads, q \in People :
        FromPerson(t, q) \in AllLoads(c, g, b) <=> t \in AuthorRelinked(c, g) /\ q = c.author[t]
  BY DEF AllLoads, PlannedRows, PlannedEdges, PersonRow, ArtifactRow, NoteRow, PassageRow,
         ForProject, FromPerson, FromArtifact
<1>4. \A d \in Decisions : FromArtifact(d) \in AllLoads(c, g, b) <=> d \in SourceRelinked(c, g)
  BY DEF AllLoads, PlannedRows, PlannedEdges, PersonRow, ArtifactRow, NoteRow, PassageRow,
         ForProject, FromPerson, FromArtifact
<1> QED
  BY <1>1, <1>2, <1>3, <1>4

LEMMA PruneRowsAre ==
  ASSUME NEW c \in Forges, NEW g
  PROVE  /\ \A q \in People : PersonRow(q) \in PlannedPrunes(c, g) <=> q \in GonePeople(c, g)
         /\ \A i \in Items : ArtifactRow(i) \in PlannedPrunes(c, g) <=> i \in GoneItems(c, g)
         /\ \A d \in Decisions : NoteRow(d) \in PlannedPrunes(c, g) <=> d \in GoneNotes(c, g)
         /\ \A p \in Pids : PassageRow(p) \in PlannedPrunes(c, g) <=>
              /\ g.text[p] # None
              /\ p[1] \in GoneItems(c, g) \/ (p[1] \in Rewritten(c, g) /\ p \notin Wanted(c, p[1]))
<1>1. \A q \in People : PersonRow(q) \in PlannedPrunes(c, g) <=> q \in GonePeople(c, g)
  BY DEF PlannedPrunes, Deleted, Unlinked, PersonRow, ArtifactRow, NoteRow, PassageRow, EdgesFrom
<1>2. \A i \in Items : ArtifactRow(i) \in PlannedPrunes(c, g) <=> i \in GoneItems(c, g)
  BY DEF PlannedPrunes, Deleted, Unlinked, PersonRow, ArtifactRow, NoteRow, PassageRow, EdgesFrom
<1>3. \A d \in Decisions : NoteRow(d) \in PlannedPrunes(c, g) <=> d \in GoneNotes(c, g)
  BY DEF PlannedPrunes, Deleted, Unlinked, PersonRow, ArtifactRow, NoteRow, PassageRow, EdgesFrom
<1>4. \A p \in Pids : PassageRow(p) \in PlannedPrunes(c, g) <=>
        \/ \E i \in GoneItems(c, g) : p \in Stored(g, i)
        \/ \E i \in Rewritten(c, g) : p \in Removed(c, g, i)
  BY DEF PlannedPrunes, Deleted, Unlinked, PersonRow, ArtifactRow, NoteRow, PassageRow, EdgesFrom
<1> QED
  BY <1>1, <1>2, <1>3, <1>4 DEF Stored, Removed

LEMMA PruneEdgesAre ==
  ASSUME ForgeAssumption, NEW c \in Forges, NEW g
  PROVE  /\ \A i \in Items : EdgesFrom("ArtifactForProject", i) \in PlannedPrunes(c, g) <=>
                              i \in ProjectRelinked(c, g) /\ <<i, "agent">> \in g.project
         /\ \A t \in Threads : EdgesFrom("ArtifactFromPerson", t) \in PlannedPrunes(c, g) <=>
                                t \in AuthorRelinked(c, g) /\ AuthorOf(g, t) # {}
         /\ \A d \in Decisions : EdgesFrom("NoteFromArtifact", d) \notin PlannedPrunes(c, g)
<1>1. \A i \in Items : EdgesFrom("ArtifactForProject", i) \in PlannedPrunes(c, g) <=>
                      i \in ProjectRelinked(c, g) /\ <<i, "agent">> \in g.project
  BY DEF PlannedPrunes, Deleted, Unlinked, PersonRow, ArtifactRow, NoteRow, PassageRow, EdgesFrom
<1>2. \A t \in Threads : EdgesFrom("ArtifactFromPerson", t) \in PlannedPrunes(c, g) <=>
                        t \in AuthorRelinked(c, g) /\ AuthorOf(g, t) # {}
  BY DEF PlannedPrunes, Deleted, Unlinked, PersonRow, ArtifactRow, NoteRow, PassageRow, EdgesFrom
<1>3. \A d \in Decisions : EdgesFrom("NoteFromArtifact", d) \notin PlannedPrunes(c, g)
  BY DEF PlannedPrunes, Deleted, Unlinked, PersonRow, ArtifactRow, NoteRow, PassageRow, EdgesFrom
<1> QED
  BY <1>1, <1>2, <1>3

LEMMA PlanTypes ==
  ASSUME ForgeAssumption, NEW c \in Forges, NEW g \in Graphs, NEW b
  PROVE  /\ PlannedPrunes(c, g) \subseteq Statements
         /\ AllLoads(c, g, b) \subseteq Rows \cup Edges
         /\ \A p \in Pids : PassageRow(p) \in AllLoads(c, g, b) => p \in Wanted(c, p[1])
         /\ HealCandidates(c, g, b) \subseteq HealRows
<1>1. /\ Present(c) \subseteq Items /\ Authors(c) \subseteq People /\ Rewritten(c, g) \subseteq Items
      /\ NotesWritten(c, g) \subseteq Decisions /\ Decisions \subseteq Items
  BY DEF Present, Authors, Rewritten, NotesWritten, ForgeAssumption, Items, Forges
<1>2. PlannedPassages(c, g, b) \subseteq Pids
  BY <1>1, WantedChunks DEF PlannedPassages, Changed
<1>3. PlannedPrunes(c, g) \subseteq Statements
  <2>1. Deleted(c, g) \subseteq Rows
    BY DEF Deleted, Rows, Stored, GoneNotes, GoneItems, GonePeople, Graphs
  <2>2. {PassageRow(p) : p \in UNION {Removed(c, g, i) : i \in Rewritten(c, g)}} \subseteq Rows
    BY DEF Removed, Stored, Rows
  <2>3. Unlinked(c, g) \subseteq Statements
    BY <1>1 DEF Unlinked, Statements, ProjectRelinked, AuthorRelinked
  <2> QED
    BY <2>1, <2>2, <2>3 DEF PlannedPrunes, Statements
<1>4. PlannedRows(c, g) \subseteq Rows
  BY <1>1 DEF PlannedRows, Rows
<1>5. {PassageRow(p) : p \in PlannedPassages(c, g, b)} \subseteq Rows
  BY <1>2 DEF Rows
<1>6. PlannedEdges(c, g) \subseteq Edges
  <2>1. \A t \in AuthorRelinked(c, g) : t \in Threads /\ c.author[t] \in People
    BY DEF AuthorRelinked, Forges
  <2>2. \A i \in ProjectRelinked(c, g) : ForProject(i, "own") \in Edges
    BY <1>1 DEF Edges, ProjectRelinked
  <2>3. \A i \in ProjectRelinked(c, g) : ForProject(i, "agent") \in Edges
    BY <1>1 DEF Edges, ProjectRelinked
  <2>4. {FromPerson(t, c.author[t]) : t \in AuthorRelinked(c, g)} \subseteq Edges
    BY <2>1 DEF Edges
  <2>5. {FromArtifact(d) : d \in SourceRelinked(c, g)} \subseteq Edges
    BY DEF Edges, SourceRelinked
  <2> QED
    BY <2>2, <2>3, <2>4, <2>5 DEF PlannedEdges
<1>7. \A p \in Pids : PassageRow(p) \in AllLoads(c, g, b) => p \in Wanted(c, p[1])
  BY LoadRowsAre DEF Changed
<1>8. HealCandidates(c, g, b) \subseteq HealRows
  BY DEF HealCandidates, HealRows
<1> QED
  BY <1>3, <1>4, <1>5, <1>6, <1>7, <1>8 DEF AllLoads

-----------------------------------------------------------------------------
(* Types of every step. *)

Typed == TypeOK /\ LoadsWanted

LEMMA ClearedTyped ==
  ASSUME ForgeAssumption, Typed, ClearPod, UNCHANGED <<forge, visible, brain, edits, agentWrites>>,
         faults' \in 0..MaxFaults
  PROVE  Typed'
BY EmptyTypes DEF Typed, TypeOK, LoadsWanted, ClearPod

LEMMA InitTyped == ForgeAssumption /\ Init => Typed
<1> SUFFICES ASSUME ForgeAssumption, Init PROVE Typed
  OBVIOUS
<1>1. 0 \in 0..MaxEdits /\ 0 \in 0..MaxFaults /\ 0 \in 0..MaxAgentWrites
  BY DEF ForgeAssumption
<1>2. forge \in Forges /\ want \in Forges /\ brain \in Graphs /\ snap \in Graphs
  BY EmptyTypes DEF Init
<1> QED
  BY <1>1, <1>2 DEF Init, Typed, TypeOK, LoadsWanted

LEMMA ToEmbedType == TypeOK => ToEmbed \subseteq HealRows
BY DEF ToEmbed, TypeOK, Rows, Edges, HealRows, PersonRow, ArtifactRow, NoteRow, PassageRow,
       ForProject, FromPerson, FromArtifact

LEMMA StageIsLoads == NextStage \subseteq loads
BY DEF NextStage

LEMMA StepTyped ==
  ASSUME ForgeAssumption, Typed, [Next]_vars
  PROVE  Typed'
<1>0. TypeOK
  BY DEF Typed
<1>1. CASE Snapshot
  BY <1>1 DEF Snapshot, Typed, TypeOK, LoadsWanted
<1>2. CASE RefuseNothingVisible
  BY <1>0, <1>2, ClearedTyped DEF RefuseNothingVisible, TypeOK
<1>3. CASE MakePlan
  <2> DEFINE c == IF visible THEN forge ELSE NoForge
  <2>1. c \in Forges /\ snap \in Graphs
    BY <1>0, EmptyTypes DEF TypeOK
  <2>2. /\ want' = c /\ prunes' = PlannedPrunes(c, snap) /\ loads' = AllLoads(c, snap, brain)
        /\ heals' \subseteq HealCandidates(c, snap, brain)
        /\ phase' = "planned" /\ vectors' = {}
        /\ UNCHANGED <<forge, visible, brain, snap, edits, faults, agentWrites>>
    BY <1>3 DEF MakePlan, AllLoads, HealChoices
  <2> HIDE DEF c
  <2>3. TypeOK'
    BY <1>0, <2>1, <2>2, PlanTypes DEF TypeOK
  <2>4. LoadsWanted'
    BY <2>1, <2>2, PlanTypes DEF LoadsWanted
  <2> QED
    BY <2>3, <2>4 DEF Typed
<1>4. CASE Embed
  BY <1>0, <1>4, ToEmbedType DEF Embed, Typed, TypeOK, LoadsWanted
<1>5. CASE EmbedOutage
  <2>1. faults' \in 0..MaxFaults
    BY <1>0, <1>5 DEF EmbedOutage, TypeOK, ForgeAssumption
  <2>2. vectors' \subseteq HealRows /\ heals' \subseteq HealRows
    BY <1>0, <1>5, ToEmbedType DEF EmbedOutage, TypeOK
  <2> QED
    BY <1>5, <2>1, <2>2 DEF EmbedOutage, Typed, TypeOK, LoadsWanted
<1>6. CASE ApplyPrune
  <2>1. PICK F : brain' = Delete(brain, F) /\ prunes' = prunes \ F
    BY <1>6 DEF ApplyPrune
  <2>2. brain' \in Graphs
    BY <1>0, <2>1, DeleteType DEF TypeOK
  <2> QED
    BY <1>6, <2>1, <2>2 DEF ApplyPrune, Typed, TypeOK, LoadsWanted
<1>7. CASE ApplyLoad
  <2>1. PICK F \in SUBSET loads : brain' = Loaded(brain, F) /\ loads' = loads \ F
    BY <1>7, StageIsLoads DEF ApplyLoad, Files
  <2>2. brain' \in Graphs
    BY <1>0, <2>1, LoadedType DEF Typed
  <2> QED
    BY <1>7, <2>1, <2>2 DEF ApplyLoad, Typed, TypeOK, LoadsWanted
<1>8. CASE ApplyHeal
  <2>1. PICK F : brain' = Healed(brain, F) /\ heals' = heals \ F
    BY <1>8 DEF ApplyHeal
  <2>2. brain' \in Graphs
    BY <1>0, <2>1, HealedType
  <2> QED
    BY <1>8, <2>1, <2>2 DEF ApplyHeal, Typed, TypeOK, LoadsWanted
<1>9. CASE Report
  BY <1>0, <1>9, ClearedTyped DEF Report, TypeOK
<1>10. CASE Fail
  <2>1. faults' \in 0..MaxFaults
    BY <1>0, <1>10 DEF Fail, TypeOK, ForgeAssumption
  <2> QED
    BY <1>10, <2>1, ClearedTyped DEF Fail
<1>11. CASE EditForge
  <2>1. PICK i \in Items, v \in Versions \cup {None} :
          \/ i \in Docs /\ forge' = [forge EXCEPT !.ver[i] = v]
          \/ i \in Threads /\ \E q \in People \cup {None} :
               forge' = [forge EXCEPT !.ver[i] = v, !.author[i] = q]
    BY <1>11 DEF EditForge
  <2>2. forge' \in Forges
    <3>1. forge \in Forges
      BY <1>0 DEF TypeOK
    <3>2. CASE forge' = [forge EXCEPT !.ver[i] = v]
      BY <3>1, <3>2 DEF Forges
    <3>3. ASSUME NEW q \in People \cup {None}, i \in Threads,
                 forge' = [forge EXCEPT !.ver[i] = v, !.author[i] = q]
          PROVE  forge' \in Forges
      <4>1. [forge.ver EXCEPT ![i] = v] \in [Items -> Versions \cup {None}]
        BY <3>1 DEF Forges
      <4>2. [forge.author EXCEPT ![i] = q] \in [Threads -> People \cup {None}]
        BY <3>1, <3>3 DEF Forges
      <4>3. forge' = [ver |-> [forge.ver EXCEPT ![i] = v], author |-> [forge.author EXCEPT ![i] = q]]
        BY <3>1, <3>3 DEF Forges
      <4> QED
        BY <4>1, <4>2, <4>3 DEF Forges
    <3> QED
      BY <2>1, <3>2, <3>3
  <2>3. edits' \in 0..MaxEdits
    <3>1. edits \in 0..MaxEdits /\ MaxEdits \in Nat
      BY <1>0 DEF TypeOK, ForgeAssumption
    <3>2. edits < MaxEdits /\ edits' = edits + 1
      BY <1>11 DEF EditForge
    <3> QED
      BY <3>1, <3>2
  <2> QED
    BY <1>11, <2>2, <2>3 DEF EditForge, podVars, Typed, TypeOK, LoadsWanted
<1>12. CASE TokenAccess
  <2>1. edits' \in 0..MaxEdits
    BY <1>0, <1>12 DEF TokenAccess, TypeOK, ForgeAssumption
  <2> QED
    BY <1>12, <2>1 DEF TokenAccess, podVars, Typed, TypeOK, LoadsWanted
<1>13. CASE AgentLinks
  <2>1. PICK i \in Items : brain' = [brain EXCEPT !.project = @ \cup {<<i, "agent">>}]
    BY <1>13 DEF AgentLinks
  <2>2. brain' \in Graphs
    BY <1>0, <2>1 DEF TypeOK, Graphs
  <2>3. agentWrites' \in 0..MaxAgentWrites
    BY <1>0, <1>13 DEF AgentLinks, TypeOK, ForgeAssumption
  <2> QED
    BY <1>13, <2>2, <2>3 DEF AgentLinks, podVars, Typed, TypeOK, LoadsWanted
<1>14. CASE UNCHANGED vars
  BY <1>14 DEF vars, podVars, Typed, TypeOK, LoadsWanted
<1> QED
  BY <1>1, <1>2, <1>3, <1>4, <1>5, <1>6, <1>7, <1>8, <1>9, <1>10, <1>11, <1>12, <1>13, <1>14
  DEF Next, PodStep

\* Every row the graph holds, the snapshot took or a plan writes is of a kind the
\* forge can have, at whatever point a run stopped (read_graph, build_plan).
THEOREM TypeCorrect ==
  ASSUME ForgeAssumption
  PROVE  Spec => []TypeOK
BY InitTyped, StepTyped, PTL DEF Spec, Typed

-----------------------------------------------------------------------------
(* The server's operations, field by field. *)

LEMMA DeleteIs ==
  ASSUME NEW g, NEW S
  PROVE  /\ \A i \in Items : Delete(g, S).artifact[i] = IF ArtifactRow(i) \in S THEN None ELSE g.artifact[i]
         /\ \A d \in Decisions : Delete(g, S).note[d] = IF NoteRow(d) \in S THEN None ELSE g.note[d]
         /\ \A p \in Pids : Delete(g, S).text[p] = IF PassageRow(p) \in S THEN None ELSE g.text[p]
         /\ \A q : q \in Delete(g, S).person <=> q \in g.person /\ PersonRow(q) \notin S
         /\ \A p : p \in Delete(g, S).of <=> p \in g.of /\ PassageRow(p) \notin S
         /\ \A e : e \in Delete(g, S).project <=>
                     e \in g.project /\ ArtifactRow(e[1]) \notin S /\ EdgesFrom("ArtifactForProject", e[1]) \notin S
         /\ \A e : e \in Delete(g, S).author <=>
                     /\ e \in g.author /\ PersonRow(e[2]) \notin S
                     /\ ArtifactRow(e[1]) \notin S /\ EdgesFrom("ArtifactFromPerson", e[1]) \notin S
         /\ \A d : d \in Delete(g, S).source <=>
                     /\ d \in g.source /\ NoteRow(d) \notin S
                     /\ ArtifactRow(d) \notin S /\ EdgesFrom("NoteFromArtifact", d) \notin S
BY DEF Delete

LEMMA LoadedIs ==
  ASSUME NEW g, NEW F
  PROVE  /\ \A i \in Items : Loaded(g, F).artifact[i] = IF ArtifactRow(i) \in F THEN want.ver[i] ELSE g.artifact[i]
         /\ \A d \in Decisions : Loaded(g, F).note[d] = IF NoteRow(d) \in F THEN want.ver[d] ELSE g.note[d]
         /\ \A p \in Pids : Loaded(g, F).text[p] =
              IF PassageRow(p) \in F THEN Chunks(want, p[1])[p[2]] ELSE g.text[p]
         /\ \A q : q \in Loaded(g, F).person <=> q \in g.person \/ (q \in People /\ PersonRow(q) \in F)
         /\ \A p : p \in Loaded(g, F).of <=>
                     p \in g.of \/ (p \in Pids /\ PassageRow(p) \in F /\ snap.text[p] = None)
         /\ \A e : e \in Loaded(g, F).project <=>
                     e \in g.project \/ (e \in Items \X {"own", "agent"} /\ ForProject(e[1], e[2]) \in F)
         /\ \A e : e \in Loaded(g, F).author <=>
                     e \in g.author \/ (e \in Threads \X People /\ FromPerson(e[1], e[2]) \in F)
         /\ \A d : d \in Loaded(g, F).source <=> d \in g.source \/ (d \in Decisions /\ FromArtifact(d) \in F)
BY DEF Loaded, NewEdges

LEMMA HealedIs ==
  ASSUME NEW g \in Graphs, NEW F
  PROVE  /\ \A d \in Decisions : Healed(g, F).note[d] = IF NoteRow(d) \in F THEN snap.note[d] ELSE g.note[d]
         /\ \A p \in Pids : Healed(g, F).text[p] = IF PassageRow(p) \in F THEN snap.text[p] ELSE g.text[p]
         /\ Healed(g, F).artifact = g.artifact /\ Healed(g, F).person = g.person /\ Healed(g, F).of = g.of
         /\ Healed(g, F).project = g.project /\ Healed(g, F).author = g.author /\ Healed(g, F).source = g.source
BY DEF Healed, Graphs

-----------------------------------------------------------------------------
(* The inductive invariant. *)

Planned == phase \in {"planned", "applying"}

\* The statement, or row, has been applied.
Pruned(u) == u \in PlannedPrunes(want, snap) /\ u \notin prunes
Done(u)   == u \in AllLoads(want, snap, snap) /\ u \notin loads

GraphInv(g) == WellFormed(g) /\ \A p \in Pids : p \in g.of <=> g.text[p] # None

\* From the snapshot to the plan the graph changes by links of agents only.
SnapInv ==
  phase = "snapped" =>
    /\ brain.artifact = snap.artifact /\ brain.note = snap.note /\ brain.person = snap.person
    /\ brain.text = snap.text /\ brain.author = snap.author /\ brain.source = snap.source
    /\ snap.project \subseteq brain.project
    /\ \A i \in Items : <<i, "own">> \in brain.project => <<i, "own">> \in snap.project

PlanInv ==
  /\ prunes \subseteq PlannedPrunes(want, snap)
  /\ loads \subseteq AllLoads(want, snap, snap)
  /\ phase = "planned" \/ prunes # {} => loads = AllLoads(want, snap, snap)
  /\ phase = "planned" => prunes = PlannedPrunes(want, snap)
  /\ heals \subseteq HealCandidates(want, snap, snap)

RowsInv ==
  /\ \A i \in Items : brain.artifact[i] = IF Done(ArtifactRow(i)) THEN want.ver[i]
                                          ELSE IF Pruned(ArtifactRow(i)) THEN None ELSE snap.artifact[i]
  /\ \A d \in Decisions : brain.note[d] = IF Done(NoteRow(d)) THEN want.ver[d]
                                          ELSE IF Pruned(NoteRow(d)) THEN None ELSE snap.note[d]
  /\ \A q \in People : q \in brain.person <=>
                         Done(PersonRow(q)) \/ (q \in snap.person /\ ~Pruned(PersonRow(q)))

TextsInv ==
  \A p \in Pids : brain.text[p] = IF Done(PassageRow(p)) THEN Chunks(want, p[1])[p[2]]
                                  ELSE IF Pruned(PassageRow(p)) THEN None ELSE snap.text[p]

\* An edge of the snapshot that no applied statement has taken.
ProjectKept(i, t) ==
  <<i, t>> \in snap.project /\ ~Pruned(ArtifactRow(i)) /\ ~Pruned(EdgesFrom("ArtifactForProject", i))
AuthorKept(t, q) ==
  /\ <<t, q>> \in snap.author /\ ~Pruned(PersonRow(q))
  /\ ~Pruned(ArtifactRow(t)) /\ ~Pruned(EdgesFrom("ArtifactFromPerson", t))
SourceKept(d) == d \in snap.source /\ ~Pruned(NoteRow(d)) /\ ~Pruned(ArtifactRow(d))

\* Agents may add links to projects of their own.
EdgesInv ==
  /\ \A i \in Items : <<i, "own">> \in brain.project <=> Done(ForProject(i, "own")) \/ ProjectKept(i, "own")
  /\ \A i \in Items : Done(ForProject(i, "agent")) \/ ProjectKept(i, "agent") => <<i, "agent">> \in brain.project
  /\ \A t \in Threads, q \in People : <<t, q>> \in brain.author <=> Done(FromPerson(t, q)) \/ AuthorKept(t, q)
  /\ \A d \in Decisions : d \in brain.source <=> Done(FromArtifact(d)) \/ SourceKept(d)

\* The texts of a graph are those of its artifacts.
Tidy(g) ==
  /\ \A d \in Decisions : g.note[d] = g.artifact[d]
  /\ \A p \in Pids : g.text[p] = IF g.artifact[p[1]] # None /\ p[2] \in DOMAIN ChunksOf[g.artifact[p[1]]]
                                 THEN ChunksOf[g.artifact[p[1]]][p[2]] ELSE None

TextInv == faults = 0 => Tidy(IF phase = "idle" THEN brain ELSE snap)

RunInv ==
  /\ TypeOK
  /\ GraphInv(brain) /\ GraphInv(snap)
  /\ SnapInv
  /\ Planned => PlanInv /\ RowsInv /\ TextsInv /\ EdgesInv
  /\ TextInv

-----------------------------------------------------------------------------
(* A plan is made. *)

\* The reader's texts are the snapshot's.
LEMMA SameTexts ==
  ASSUME NEW c, NEW g, NEW b, b.text = g.text
  PROVE  AllLoads(c, g, b) = AllLoads(c, g, g) /\ HealCandidates(c, g, b) = HealCandidates(c, g, g)
<1>1. \A i : Changed(c, g, b, i) = Changed(c, g, g, i)
  BY DEF Changed
<1>2. PlannedPassages(c, g, b) = PlannedPassages(c, g, g)
  BY <1>1 DEF PlannedPassages
<1> QED
  BY <1>2 DEF AllLoads, HealCandidates, Touched

\* No row is both written and deleted.
LEMMA LoadsApart ==
  ASSUME ForgeAssumption, NEW c \in Forges, NEW g
  PROVE  /\ \A q \in People : PersonRow(q) \in AllLoads(c, g, g) => PersonRow(q) \notin PlannedPrunes(c, g)
         /\ \A i \in Items : ArtifactRow(i) \in AllLoads(c, g, g) => ArtifactRow(i) \notin PlannedPrunes(c, g)
         /\ \A d \in Decisions : NoteRow(d) \in AllLoads(c, g, g) => NoteRow(d) \notin PlannedPrunes(c, g)
         /\ \A p \in Pids : PassageRow(p) \in AllLoads(c, g, g) => PassageRow(p) \notin PlannedPrunes(c, g)
<1>1. /\ Rewritten(c, g) \cap GoneItems(c, g) = {} /\ NotesWritten(c, g) \cap GoneNotes(c, g) = {}
      /\ (Authors(c) \ g.person) \cap GonePeople(c, g) = {}
  BY DEF Rewritten, GoneItems, NotesWritten, Fetched, GoneNotes, GonePeople
<1>2. \A i \in Items : Changed(c, g, g, i) \subseteq Wanted(c, i)
  BY DEF Changed
<1>3. \A p \in Pids : p[1] \in Items
  BY DEF Pids
<1> QED
  BY <1>1, <1>2, <1>3, LoadRowsAre, PruneRowsAre

\* plan_heal leaves alone what the rest of the plan writes or deletes.
LEMMA HealsApart ==
  ASSUME ForgeAssumption, NEW c \in Forges, NEW g
  PROVE  /\ \A d \in Decisions : NoteRow(d) \in HealCandidates(c, g, g) =>
              /\ g.note[d] # None
              /\ NoteRow(d) \notin PlannedPrunes(c, g) /\ NoteRow(d) \notin AllLoads(c, g, g)
         /\ \A p \in Pids : PassageRow(p) \in HealCandidates(c, g, g) =>
              /\ g.text[p] # None
              /\ PassageRow(p) \notin PlannedPrunes(c, g) /\ PassageRow(p) \notin AllLoads(c, g, g)
<1>1. ASSUME NEW d \in Decisions, NoteRow(d) \in HealCandidates(c, g, g)
      PROVE  /\ g.note[d] # None /\ d \notin NotesWritten(c, g) /\ NoteRow(d) \notin PlannedPrunes(c, g)
  BY <1>1 DEF HealCandidates, Touched, NoteRow, PassageRow
<1>2. ASSUME NEW p \in Pids, PassageRow(p) \in HealCandidates(c, g, g)
      PROVE  /\ g.text[p] # None /\ p \notin PlannedPassages(c, g, g) /\ PassageRow(p) \notin PlannedPrunes(c, g)
  BY <1>2 DEF HealCandidates, Touched, NoteRow, PassageRow
<1> QED
  BY <1>1, <1>2, LoadRowsAre, ChangedAre

\* When the plan is made nothing of it has been applied, and the graph is as the
\* snapshot saw it.
LEMMA PlanMade ==
  ASSUME ForgeAssumption, RunInv, MakePlan
  PROVE  (PlanInv /\ RowsInv /\ TextsInv /\ EdgesInv)'
<1> DEFINE c == IF visible THEN forge ELSE NoForge
<1>1. /\ phase = "snapped" /\ phase' = "planned" /\ UNCHANGED <<brain, snap>>
      /\ want' = c /\ prunes' = PlannedPrunes(c, snap) /\ loads' = AllLoads(c, snap, brain)
      /\ heals' \subseteq HealCandidates(c, snap, brain)
  BY DEF MakePlan, AllLoads, HealChoices
<1> HIDE DEF c
<1>2. /\ brain.artifact = snap.artifact /\ brain.note = snap.note /\ brain.person = snap.person
      /\ brain.text = snap.text /\ brain.author = snap.author /\ brain.source = snap.source
      /\ snap.project \subseteq brain.project
      /\ \A i \in Items : <<i, "own">> \in brain.project => <<i, "own">> \in snap.project
  BY <1>1 DEF RunInv, SnapInv
<1>3. loads' = AllLoads(want', snap', snap') /\ heals' \subseteq HealCandidates(want', snap', snap')
  BY <1>1, <1>2, SameTexts
<1>4. prunes' = PlannedPrunes(want', snap')
  BY <1>1
<1>5. PlanInv'
  BY <1>1, <1>3, <1>4 DEF PlanInv
<1>6. \A u : ~Pruned(u)' /\ ~Done(u)'
  BY <1>3, <1>4 DEF Pruned, Done
<1>7. RowsInv' /\ TextsInv'
  BY <1>1, <1>2, <1>6 DEF RowsInv, TextsInv
<1>8. EdgesInv'
  BY <1>1, <1>2, <1>6 DEF EdgesInv, ProjectKept, AuthorKept, SourceKept
<1> QED
  BY <1>5, <1>7, <1>8

-----------------------------------------------------------------------------
(* A file is applied. *)

\* A prune file takes what it names, and nothing has been loaded yet.
LEMMA PruneKeeps ==
  ASSUME ForgeAssumption, RunInv, phase = "applying", NEW F \in SUBSET prunes, F # {},
         brain' = Delete(brain, F), prunes' = prunes \ F, UNCHANGED <<phase, snap, want, loads, heals>>
  PROVE  (PlanInv /\ RowsInv /\ TextsInv /\ EdgesInv)'
<1>1. PlanInv /\ RowsInv /\ TextsInv /\ EdgesInv /\ want \in Forges
  BY DEF RunInv, Planned, TypeOK
<1>2. PlanInv'
  BY <1>1 DEF PlanInv
<1>3. \A u : Pruned(u)' <=> Pruned(u) \/ u \in F
  BY <1>1 DEF Pruned, PlanInv
<1>4. \A u : ~Done(u) /\ ~Done(u)'
  BY <1>1 DEF Done, PlanInv
<1>5. RowsInv'
  BY <1>1, <1>3, <1>4, DeleteIs DEF RowsInv
<1>6. TextsInv'
  BY <1>1, <1>3, <1>4, DeleteIs DEF TextsInv
<1>7. EdgesInv'
  <2>1. \A i \in Items : \A t : ProjectKept(i, t)' <=>
          ProjectKept(i, t) /\ ArtifactRow(i) \notin F /\ EdgesFrom("ArtifactForProject", i) \notin F
    BY <1>3 DEF ProjectKept
  <2>2. \A t \in Threads, q \in People : AuthorKept(t, q)' <=>
          /\ AuthorKept(t, q) /\ PersonRow(q) \notin F
          /\ ArtifactRow(t) \notin F /\ EdgesFrom("ArtifactFromPerson", t) \notin F
    BY <1>3 DEF AuthorKept
  <2>3. \A d \in Decisions : SourceKept(d)' <=> SourceKept(d) /\ NoteRow(d) \notin F /\ ArtifactRow(d) \notin F
    BY <1>3 DEF SourceKept
  <2>4. \A d \in Decisions : EdgesFrom("NoteFromArtifact", d) \notin F
    BY <1>1, PruneEdgesAre DEF PlanInv
  <2>5. \A i \in Items : \A t : <<i, t>> \in brain'.project <=>
          <<i, t>> \in brain.project /\ ArtifactRow(i) \notin F /\ EdgesFrom("ArtifactForProject", i) \notin F
    BY DeleteIs
  <2>6. \A t \in Threads, q \in People : <<t, q>> \in brain'.author <=>
          /\ <<t, q>> \in brain.author /\ PersonRow(q) \notin F
          /\ ArtifactRow(t) \notin F /\ EdgesFrom("ArtifactFromPerson", t) \notin F
    BY DeleteIs
  <2>7. \A d \in Decisions : d \in brain'.source <=>
          d \in brain.source /\ NoteRow(d) \notin F /\ ArtifactRow(d) \notin F
    BY <2>4, DeleteIs
  <2> QED
    BY <1>1, <1>4, <2>1, <2>2, <2>3, <2>5, <2>6, <2>7 DEF EdgesInv
<1> QED
  BY <1>2, <1>5, <1>6, <1>7

LEMMA PruneGraph ==
  ASSUME GraphInv(brain), NEW F, PruneAccepted(F), brain' = Delete(brain, F)
  PROVE  GraphInv(brain)'
<1>1. WellFormed(brain)'
  BY DEF PruneAccepted
<1> QED
  BY <1>1, DeleteIs DEF GraphInv

\* A load file adds its rows, and what it has not got to is as before.
LEMMA LoadKeeps ==
  ASSUME ForgeAssumption, RunInv, phase = "applying", prunes = {}, NEW F \in SUBSET loads,
         brain' = Loaded(brain, F), loads' = loads \ F, UNCHANGED <<phase, snap, want, prunes, heals>>
  PROVE  (PlanInv /\ RowsInv /\ TextsInv /\ EdgesInv)'
<1>1. PlanInv /\ RowsInv /\ TextsInv /\ EdgesInv /\ want \in Forges
  BY DEF RunInv, Planned, TypeOK
<1>2. PlanInv'
  BY <1>1 DEF PlanInv
<1>3. \A u : Done(u)' <=> Done(u) \/ u \in F
  BY <1>1 DEF Done, PlanInv
<1>4. \A u : Pruned(u)' <=> Pruned(u)
  BY DEF Pruned
<1>5. RowsInv'
  BY <1>1, <1>3, <1>4, LoadedIs DEF RowsInv
<1>6. TextsInv'
  BY <1>1, <1>3, <1>4, LoadedIs DEF TextsInv
<1>7. EdgesInv'
  <2>1. \A i \in Items : \A t : ProjectKept(i, t)' <=> ProjectKept(i, t)
    BY <1>4 DEF ProjectKept
  <2>2. \A t \in Threads, q \in People : AuthorKept(t, q)' <=> AuthorKept(t, q)
    BY <1>4 DEF AuthorKept
  <2>3. \A d \in Decisions : SourceKept(d)' <=> SourceKept(d)
    BY <1>4 DEF SourceKept
  <2>5. \A i \in Items, t \in {"own", "agent"} :
          <<i, t>> \in brain'.project <=> <<i, t>> \in brain.project \/ ForProject(i, t) \in F
    BY LoadedIs
  <2>6. \A t \in Threads, q \in People :
          <<t, q>> \in brain'.author <=> <<t, q>> \in brain.author \/ FromPerson(t, q) \in F
    BY LoadedIs
  <2>7. \A d \in Decisions : d \in brain'.source <=> d \in brain.source \/ FromArtifact(d) \in F
    BY LoadedIs
  <2> QED
    BY <1>1, <1>3, <2>1, <2>2, <2>3, <2>5, <2>6, <2>7 DEF EdgesInv
<1> QED
  BY <1>2, <1>5, <1>6, <1>7

\* A passage still to be loaded is as the snapshot has it.
LEMMA PendingPassages ==
  ASSUME ForgeAssumption, RunInv, Planned, NEW p \in Pids, PassageRow(p) \in loads
  PROVE  /\ brain.text[p] = snap.text[p]
         /\ Chunks(want, p[1])[p[2]] # None
<1>1. PlanInv /\ TextsInv /\ want \in Forges
  BY DEF RunInv, TypeOK
<1>2. PassageRow(p) \in AllLoads(want, snap, snap)
  BY <1>1 DEF PlanInv
<1>3. PassageRow(p) \notin PlannedPrunes(want, snap)
  BY <1>1, <1>2, LoadsApart
<1>4. p \in Wanted(want, p[1])
  BY <1>1, <1>2, LoadRowsAre DEF Changed
<1>5. p[1] \in Items
  BY DEF Pids
<1> QED
  BY <1>1, <1>3, <1>4, <1>5, WantedChunks DEF TextsInv, Done, Pruned

\* The row of a heal file is still the snapshot's.
LEMMA PendingHeals ==
  ASSUME ForgeAssumption, RunInv, Planned
  PROVE  /\ \A d \in Decisions : NoteRow(d) \in heals => brain.note[d] = snap.note[d] /\ brain.note[d] # None
         /\ \A p \in Pids : PassageRow(p) \in heals => brain.text[p] = snap.text[p] /\ brain.text[p] # None
<1>1. PlanInv /\ RowsInv /\ TextsInv /\ want \in Forges
  BY DEF RunInv, TypeOK
<1> QED
  BY <1>1, HealsApart DEF PlanInv, RowsInv, TextsInv, Done, Pruned

\* A heal file gives rows a vector and changes nothing else.
LEMMA HealKeeps ==
  ASSUME ForgeAssumption, RunInv, Planned, NEW F \in SUBSET heals, NEW g, g = Healed(brain, F)
  PROVE  /\ \A d \in Decisions : g.note[d] = brain.note[d]
         /\ \A p \in Pids : g.text[p] = brain.text[p]
         /\ g.artifact = brain.artifact /\ g.person = brain.person /\ g.of = brain.of
         /\ g.project = brain.project /\ g.author = brain.author /\ g.source = brain.source
<1>1. brain \in Graphs
  BY DEF RunInv, TypeOK
<1> QED
  BY <1>1, PendingHeals, HealedIs

\* Steps that leave the plan alone and change the graph at most by a project of an agent.
LEMMA PlanStays ==
  ASSUME PlanInv, RowsInv, TextsInv, EdgesInv, UNCHANGED <<phase, snap, want, prunes, loads>>, heals' \subseteq heals,
         \A d \in Decisions : brain'.note[d] = brain.note[d],
         \A p \in Pids : brain'.text[p] = brain.text[p],
         brain'.artifact = brain.artifact, brain'.person = brain.person,
         brain'.author = brain.author, brain'.source = brain.source,
         brain.project \subseteq brain'.project,
         \A i \in Items : <<i, "own">> \in brain'.project => <<i, "own">> \in brain.project
  PROVE  (PlanInv /\ RowsInv /\ TextsInv /\ EdgesInv)'
<1>1. \A u : (Pruned(u)' <=> Pruned(u)) /\ (Done(u)' <=> Done(u))
  BY DEF Pruned, Done
<1>2. PlanInv'
  BY DEF PlanInv
<1>3. RowsInv'
  BY <1>1 DEF RowsInv
<1>4. TextsInv'
  BY <1>1 DEF TextsInv
<1>5. EdgesInv'
  BY <1>1 DEF EdgesInv, ProjectKept, AuthorKept, SourceKept
<1> QED
  BY <1>2, <1>3, <1>4, <1>5

-----------------------------------------------------------------------------
(* What an applied plan leaves. *)

\* The deletes and the node rows of the plan are applied.
NodesLoaded ==
  /\ Planned /\ prunes = {}
  /\ \A i \in Items : ArtifactRow(i) \notin loads
  /\ \A d \in Decisions : NoteRow(d) \notin loads
  /\ \A q \in People : PersonRow(q) \notin loads

LEMMA NodesMirrored ==
  ASSUME ForgeAssumption, RunInv, NodesLoaded
  PROVE  /\ \A i \in Items : brain.artifact[i] = want.ver[i]
         /\ \A q \in People : q \in brain.person <=> q \in Authors(want)
         /\ \A d \in Decisions : brain.note[d] # None <=> d \in Present(want)
<1>1. PlanInv /\ RowsInv /\ want \in Forges /\ snap \in Graphs
  BY DEF RunInv, NodesLoaded, TypeOK
<1>2. /\ \A u : Pruned(u) <=> u \in PlannedPrunes(want, snap)
      /\ \A i \in Items : Done(ArtifactRow(i)) <=> i \in Rewritten(want, snap)
      /\ \A d \in Decisions : Done(NoteRow(d)) <=> d \in NotesWritten(want, snap)
      /\ \A q \in People : Done(PersonRow(q)) <=> q \in Authors(want) \ snap.person
  BY <1>1, LoadRowsAre DEF Pruned, Done, NodesLoaded
<1>3. \A i \in Items : brain.artifact[i] = want.ver[i]
  BY <1>1, <1>2, PruneRowsAre DEF RowsInv, Rewritten, GoneItems, Present
<1>4. \A q \in People : q \in brain.person <=> q \in Authors(want)
  BY <1>1, <1>2, PruneRowsAre DEF RowsInv, GonePeople
<1>5. \A d \in Decisions : brain.note[d] # None <=> d \in Present(want)
  <2>1. \A d \in NotesWritten(want, snap) : want.ver[d] # None /\ d \in Present(want)
    BY DEF NotesWritten, Fetched, Present
  <2>2. \A d \in Decisions : d \in Present(want) /\ snap.note[d] = None => d \in NotesWritten(want, snap)
    BY DEF NotesWritten, Fetched, Present, ForgeAssumption
  <2> QED
    BY <1>1, <1>2, <2>1, <2>2, PruneRowsAre DEF RowsInv, GoneNotes
<1> QED
  BY <1>3, <1>4, <1>5

LEMMA AppliedRows ==
  ASSUME ForgeAssumption, RunInv, Applied
  PROVE  RowsMirror(want, brain)
<1>0. prunes = {} /\ loads = {} /\ heals = {} /\ Planned /\ NodesLoaded
  BY DEF Applied, Planned, NodesLoaded
<1>1. PlanInv /\ EdgesInv /\ want \in Forges /\ snap \in Graphs /\ brain \in Graphs /\ WellFormed(snap)
  BY <1>0 DEF RunInv, TypeOK, GraphInv
<1>2. \A u : (Pruned(u) <=> u \in PlannedPrunes(want, snap)) /\ (Done(u) <=> u \in AllLoads(want, snap, snap))
  BY <1>0 DEF Pruned, Done
<1>3. brain.artifact = want.ver
  BY <1>0, <1>1, NodesMirrored DEF Graphs, Forges
<1>4. brain.person = Authors(want)
  BY <1>0, <1>1, NodesMirrored DEF Graphs, Forges, Authors
<1>5. \A d \in Decisions : brain.note[d] # None <=> d \in Present(want)
  BY <1>0, NodesMirrored
<1>6. ASSUME NEW i \in Present(want)
      PROVE  <<i, "own">> \in brain.project
  <2>1. i \in Items /\ i \notin GoneItems(want, snap)
    BY <1>6 DEF Present, GoneItems
  <2> QED
    BY <1>1, <1>2, <1>6, <2>1, LoadEdgesAre, PruneRowsAre, PruneEdgesAre DEF EdgesInv, ProjectKept, ProjectRelinked
<1>7. ASSUME NEW t \in Threads \cap Present(want), want.author[t] # None
      PROVE  AuthorOf(brain, t) = {want.author[t]}
  <2> DEFINE a == want.author[t]
  <2>1. a \in People /\ a \in Authors(want) /\ t \in Items /\ t \notin GoneItems(want, snap) /\ a \notin GonePeople(want, snap)
    BY <1>1, <1>7 DEF Authors, Forges, Items, GoneItems, GonePeople
  <2>2. \A q \in People : <<t, q>> \in brain.author <=>
          \/ t \in AuthorRelinked(want, snap) /\ q = a
          \/ <<t, q>> \in snap.author /\ q \notin GonePeople(want, snap)
               /\ ~(t \in AuthorRelinked(want, snap) /\ AuthorOf(snap, t) # {})
    BY <1>1, <1>2, <2>1, LoadEdgesAre, PruneRowsAre, PruneEdgesAre DEF EdgesInv, AuthorKept
  <2>3. CASE t \in AuthorRelinked(want, snap)
    <3>1. \A q \in People : <<t, q>> \in snap.author => AuthorOf(snap, t) # {}
      BY DEF AuthorOf
    <3> QED
      BY <2>1, <2>2, <2>3, <3>1 DEF AuthorOf
  <2>4. CASE t \notin AuthorRelinked(want, snap)
    <3>1. AuthorOf(snap, t) = {a}
      BY <1>7, <2>4 DEF AuthorRelinked
    <3>2. \A q \in People : <<t, q>> \in snap.author <=> q = a
      BY <2>1, <3>1 DEF AuthorOf
    <3> QED
      BY <2>1, <2>2, <2>4, <3>2 DEF AuthorOf
  <2> QED
    BY <2>3, <2>4
<1>8. Decisions \cap Present(want) = brain.source
  <2>1. \A d \in Decisions : d \in Items
    BY DEF ForgeAssumption, Items
  <2>2. \A d \in Decisions : d \in brain.source <=>
          \/ d \in SourceRelinked(want, snap)
          \/ d \in snap.source /\ d \notin GoneNotes(want, snap) /\ d \notin GoneItems(want, snap)
    BY <1>1, <1>2, <2>1, LoadEdgesAre, PruneRowsAre DEF EdgesInv, SourceKept
  <2>3. \A d \in snap.source : snap.artifact[d] # None
    BY <1>1 DEF WellFormed
  <2>4. brain.source \subseteq Decisions
    BY <1>1 DEF Graphs
  <2> QED
    BY <2>1, <2>2, <2>3, <2>4 DEF SourceRelinked, GoneNotes, GoneItems
<1> QED
  BY <1>3, <1>4, <1>5, <1>6, <1>7, <1>8 DEF RowsMirror

LEMMA AppliedTexts ==
  ASSUME ForgeAssumption, RunInv, Applied, Tidy(snap)
  PROVE  TextsMirror(want, brain)
<1>0. prunes = {} /\ loads = {} /\ Planned
  BY DEF Applied, Planned
<1>1. /\ PlanInv /\ RowsInv /\ TextsInv
      /\ want \in Forges /\ snap \in Graphs /\ brain \in Graphs /\ WellFormed(snap)
  BY <1>0 DEF RunInv, TypeOK, GraphInv
<1>2. \A u : (Pruned(u) <=> u \in PlannedPrunes(want, snap)) /\ (Done(u) <=> u \in AllLoads(want, snap, snap))
  BY <1>0 DEF Pruned, Done
<1>3. \A d \in Decisions : brain.note[d] = want.ver[d]
  <2>1. \A d \in Decisions : d \in Docs /\ d \in Items /\ snap.note[d] = snap.artifact[d]
    BY DEF ForgeAssumption, Items, Tidy
  <2>2. \A d \in Decisions : d \in Present(want) /\ snap.note[d] # want.ver[d] => d \in NotesWritten(want, snap)
    BY <2>1 DEF NotesWritten, Fetched
  <2>3. \A d \in Decisions : d \notin Present(want) => want.ver[d] = None /\ d \notin NotesWritten(want, snap)
    BY <2>1 DEF Present, NotesWritten, Fetched
  <2> QED
    BY <1>1, <1>2, <2>2, <2>3, LoadRowsAre, PruneRowsAre DEF RowsInv, GoneNotes
<1>4. ASSUME NEW p \in Pids
      PROVE  brain.text[p] = IF p \in Wanted(want, p[1]) THEN Chunks(want, p[1])[p[2]] ELSE None
  <2>0. p[1] \in Items /\ p = <<p[1], p[2]>>
    BY DEF Pids
  <2>1. CASE p[1] \in Rewritten(want, snap)
    <3>1. p[1] \notin GoneItems(want, snap)
      BY <2>1 DEF Rewritten, GoneItems
    <3>2. p \in Stored(snap, p[1]) <=> snap.text[p] # None
      BY DEF Stored
    <3> QED
      BY <1>1, <1>2, <2>1, <3>1, <3>2, LoadRowsAre, PruneRowsAre DEF TextsInv, Changed
  <2>2. CASE p[1] \notin Rewritten(want, snap)
    <3>1. brain.text[p] = IF p[1] \in GoneItems(want, snap) THEN None ELSE snap.text[p]
      BY <1>1, <1>2, <2>2, LoadRowsAre, PruneRowsAre DEF TextsInv
    <3>2. CASE p[1] \in Present(want)
      <4>1. snap.artifact[p[1]] = want.ver[p[1]] /\ p[1] \notin GoneItems(want, snap)
        BY <2>2, <3>2 DEF Rewritten, GoneItems
      <4>2. Chunks(want, p[1]) = ChunksOf[want.ver[p[1]]] /\ want.ver[p[1]] # None
        BY <3>2 DEF Chunks, Present
      <4>3. p \in Wanted(want, p[1]) <=> p[2] \in DOMAIN Chunks(want, p[1])
        BY <2>0 DEF Wanted
      <4> QED
        BY <3>1, <4>1, <4>2, <4>3 DEF Tidy
    <3>3. CASE p[1] \notin Present(want)
      <4>1. p \notin Wanted(want, p[1])
        BY <1>1, <2>0, <3>3, WantedChunks
      <4>2. snap.artifact[p[1]] # None => p[1] \in GoneItems(want, snap)
        BY <2>0, <3>3 DEF GoneItems
      <4>3. snap.artifact[p[1]] = None => snap.text[p] = None
        BY <1>1 DEF WellFormed
      <4> QED
        BY <3>1, <4>1, <4>2, <4>3
    <3> QED
      BY <3>2, <3>3
  <2> QED
    BY <2>1, <2>2
<1> QED
  BY <1>3, <1>4 DEF TextsMirror

LEMMA AppliedTidy ==
  ASSUME ForgeAssumption, RunInv, Applied, Tidy(snap)
  PROVE  Tidy(brain)
<1>1. TextsMirror(want, brain) /\ brain.artifact = want.ver
  BY AppliedTexts, AppliedRows DEF RowsMirror
<1>2. \A d \in Decisions : brain.note[d] = brain.artifact[d]
  BY <1>1 DEF TextsMirror
<1>3. ASSUME NEW p \in Pids
      PROVE  brain.text[p] = IF brain.artifact[p[1]] # None /\ p[2] \in DOMAIN ChunksOf[brain.artifact[p[1]]]
                             THEN ChunksOf[brain.artifact[p[1]]][p[2]] ELSE None
  <2>1. p[1] \in Items /\ p = <<p[1], p[2]>>
    BY DEF Pids
  <2>2. p[1] \in Present(want) <=> brain.artifact[p[1]] # None
    BY <1>1, <2>1 DEF Present
  <2>3. CASE p[1] \in Present(want)
    <3>1. Chunks(want, p[1]) = ChunksOf[brain.artifact[p[1]]]
      BY <1>1, <2>3 DEF Chunks
    <3>2. p \in Wanted(want, p[1]) <=> p[2] \in DOMAIN Chunks(want, p[1])
      BY <2>1 DEF Wanted
    <3> QED
      BY <1>1, <2>2, <2>3, <3>1, <3>2 DEF TextsMirror
  <2>4. CASE p[1] \notin Present(want)
    <3>1. p \notin Wanted(want, p[1])
      BY <2>1, <2>4, WantedChunks DEF RunInv, TypeOK
    <3> QED
      BY <1>1, <2>2, <2>4, <3>1 DEF TextsMirror
  <2> QED
    BY <2>3, <2>4
<1> QED
  BY <1>2, <1>3 DEF Tidy

-----------------------------------------------------------------------------
(* The server takes every file. *)

LEMMA PrunesTaken ==
  ASSUME ForgeAssumption, RunInv, phase = "applying", NEW F \in Files(prunes, DeleteOrder)
  PROVE  PruneAccepted(F)
<1>1. PlanInv /\ TextsInv /\ WellFormed(brain) /\ want \in Forges /\ F \subseteq prunes /\ prunes # {}
  BY DEF RunInv, Planned, TypeOK, GraphInv, Files
<1>2. ASSUME NEW p \in Pids, Delete(brain, F).text[p] # None
      PROVE  p \in Delete(brain, F).of /\ Delete(brain, F).artifact[p[1]] # None
  <2>1. PassageRow(p) \notin F /\ brain.text[p] # None /\ p[1] \in Items
    BY <1>2, DeleteIs DEF Pids
  <2>2. p \in brain.of /\ brain.artifact[p[1]] # None
    BY <1>1, <2>1 DEF WellFormed
  <2>3. ArtifactRow(p[1]) \notin F
    <3> SUFFICES ASSUME ArtifactRow(p[1]) \in F PROVE FALSE
      OBVIOUS
    <3>1. p[1] \in GoneItems(want, snap)
      BY <1>1, <2>1, PruneRowsAre DEF PlanInv
    <3>2. ~Done(PassageRow(p))
      BY <1>1 DEF PlanInv, Done
    <3>3. snap.text[p] # None /\ ~Pruned(PassageRow(p))
      BY <1>1, <2>1, <3>2 DEF TextsInv
    <3>4. PassageRow(p) \in prunes
      BY <1>1, <3>1, <3>3, PruneRowsAre DEF Pruned
    <3>5. DeleteOrder["Artifact"] <= DeleteOrder["Passage"]
      BY <2>1, <3>4 DEF Files, ArtifactRow, PassageRow
    <3> QED
      BY <3>5 DEF DeleteOrder
  <2> QED
    BY <2>1, <2>2, <2>3, DeleteIs
<1>3. \A e \in brain.project : e[1] \in Items
  BY DEF RunInv, TypeOK, Graphs
<1>4. \A e \in brain.author : e[1] \in Items
  BY DEF RunInv, TypeOK, Graphs, Items
<1>5. \A d \in brain.source : d \in Decisions /\ d \in Items
  BY DEF RunInv, TypeOK, Graphs, ForgeAssumption, Items
<1>6. \A e \in Delete(brain, F).project : Delete(brain, F).artifact[e[1]] # None
  BY <1>1, <1>3, DeleteIs DEF WellFormed
<1>7. \A e \in Delete(brain, F).author :
        Delete(brain, F).artifact[e[1]] # None /\ e[2] \in Delete(brain, F).person
  BY <1>1, <1>4, DeleteIs DEF WellFormed
<1>8. \A d \in Delete(brain, F).source : Delete(brain, F).note[d] # None /\ Delete(brain, F).artifact[d] # None
  BY <1>1, <1>5, DeleteIs DEF WellFormed
<1> QED
  BY <1>2, <1>6, <1>7, <1>8 DEF PruneAccepted, WellFormed

\* Passages and edges wait for the node rows.
LEMMA NodesFirst ==
  ASSUME RunInv, phase = "applying", prunes = {}, NEW u \in NextStage, u[1] \notin Stages[1]
  PROVE  NodesLoaded
<1> DEFINE of(k) == {w \in loads : w[1] \in Stages[k]}
           first == CHOOSE k \in DOMAIN Stages : of(k) # {} /\ \A j \in DOMAIN Stages : of(j) # {} => k <= j
<1>1. DOMAIN Stages = 1..3
  BY DEF Stages
<1>2. u \in of(first)
  BY DEF NextStage
<1>3. of(1) = {}
  <2> SUFFICES ASSUME of(1) # {} PROVE FALSE
    OBVIOUS
  <2>1. \E k \in DOMAIN Stages : of(k) # {} /\ \A j \in DOMAIN Stages : of(j) # {} => k <= j
    <3>1. 1 \in DOMAIN Stages /\ \A j \in DOMAIN Stages : 1 <= j
      BY <1>1
    <3> QED
      BY <3>1
  <2>2. first \in DOMAIN Stages /\ \A j \in DOMAIN Stages : of(j) # {} => first <= j
    BY <2>1
  <2> HIDE DEF first
  <2>3. first \in 1..3 /\ first <= 1
    BY <1>1, <2>2
  <2>4. first = 1
    BY <2>3
  <2> QED
    BY <1>2, <2>4
<1>4. Stages[1] = {"Person", "Artifact", "Note"}
  BY DEF Stages
<1> QED
  BY <1>3, <1>4 DEF NodesLoaded, Planned, ArtifactRow, NoteRow, PersonRow

LEMMA LoadOf ==
  ASSUME ForgeAssumption, RunInv, Planned, NEW F \in SUBSET loads, NEW p \in Pids
  PROVE  p \in Loaded(brain, F).of <=> Loaded(brain, F).text[p] # None
<1>1. p \in brain.of <=> brain.text[p] # None
  BY DEF RunInv, GraphInv
<1>2. CASE PassageRow(p) \in F
  BY <1>1, <1>2, PendingPassages, LoadedIs
<1>3. CASE PassageRow(p) \notin F
  BY <1>1, <1>3, LoadedIs
<1> QED
  BY <1>2, <1>3

\* An edge still to be loaded is not in the graph, but for an agent's.
LEMMA PendingEdges ==
  ASSUME ForgeAssumption, RunInv, phase = "applying", prunes = {}
  PROVE  /\ \A i \in Items : ForProject(i, "own") \in loads => <<i, "own">> \notin brain.project
         /\ \A t \in Threads, q \in People : FromPerson(t, q) \in loads => AuthorOf(brain, t) = {}
         /\ \A d \in Decisions : FromArtifact(d) \in loads => d \notin brain.source
<1>1. PlanInv /\ EdgesInv /\ want \in Forges
  BY DEF RunInv, Planned, TypeOK
<1>2. \A u \in loads : u \in AllLoads(want, snap, snap) /\ ~Done(u)
  BY <1>1 DEF PlanInv, Done
<1>3. \A i \in Items : ForProject(i, "own") \in loads => <<i, "own">> \notin brain.project
  BY <1>1, <1>2, LoadEdgesAre DEF EdgesInv, ProjectKept, ProjectRelinked
<1>4. ASSUME NEW t \in Threads, NEW q \in People, FromPerson(t, q) \in loads, NEW r \in People, <<t, r>> \in brain.author
      PROVE  FALSE
  <2>1. t \in AuthorRelinked(want, snap) /\ q = want.author[t]
    BY <1>1, <1>2, <1>4, LoadEdgesAre
  <2>2. ~Done(FromPerson(t, r))
    BY <1>1, <1>2, <1>4, <2>1, LoadEdgesAre DEF Done
  <2>3. AuthorKept(t, r)
    BY <1>1, <1>4, <2>2 DEF EdgesInv
  <2>4. AuthorOf(snap, t) # {}
    BY <2>3 DEF AuthorKept, AuthorOf
  <2>5. EdgesFrom("ArtifactFromPerson", t) \in PlannedPrunes(want, snap)
    BY <1>1, <2>1, <2>4, PruneEdgesAre
  <2> QED
    BY <2>3, <2>5 DEF AuthorKept, Pruned
<1>5. \A d \in Decisions : FromArtifact(d) \in loads => d \notin brain.source
  BY <1>1, <1>2, LoadEdgesAre DEF EdgesInv, SourceKept, SourceRelinked
<1> QED
  BY <1>3, <1>4, <1>5 DEF AuthorOf

LEMMA LoadsTaken ==
  ASSUME ForgeAssumption, RunInv, phase = "applying", prunes = {}, NEW F \in Files(NextStage, LoadOrder)
  PROVE  LoadAccepted(F)
<1> DEFINE g == Loaded(brain, F)
<1>1. /\ PlanInv /\ TextsInv /\ WellFormed(brain) /\ want \in Forges /\ brain \in Graphs
      /\ F \subseteq loads /\ F \subseteq NextStage /\ Planned
  BY StageIsLoads DEF RunInv, Planned, TypeOK, GraphInv, Files
<1>2. \A u \in F : u \in AllLoads(want, snap, snap) /\ (u[1] \notin Stages[1] => NodesLoaded)
  BY <1>1, NodesFirst DEF PlanInv
<1>3. Stages[1] = {"Person", "Artifact", "Note"}
  BY DEF Stages
<1>4. \A i \in Items : (brain.artifact[i] # None => g.artifact[i] # None)
                        /\ (NodesLoaded /\ i \in Present(want) => g.artifact[i] # None)
  BY <1>1, <1>2, NodesMirrored, LoadRowsAre, LoadedIs DEF Rewritten, Present
<1>5. \A d \in Decisions : (brain.note[d] # None => g.note[d] # None)
                            /\ (NodesLoaded /\ d \in Present(want) => g.note[d] # None)
  <2>1. \A d \in NotesWritten(want, snap) : want.ver[d] # None
    BY DEF NotesWritten, Fetched, Present
  <2> QED
    BY <1>1, <1>2, <2>1, NodesMirrored, LoadRowsAre, LoadedIs
<1>6. \A q \in People : (q \in brain.person => q \in g.person)
                         /\ (NodesLoaded /\ q \in Authors(want) => q \in g.person)
  BY NodesMirrored, LoadedIs
<1>7. ASSUME NEW p \in Pids, g.text[p] # None
      PROVE  p \in g.of /\ g.artifact[p[1]] # None
  <2>0. p[1] \in Items
    BY DEF Pids
  <2>1. CASE PassageRow(p) \in F
    <3>1. NodesLoaded
      BY <1>2, <1>3, <2>1 DEF PassageRow
    <3>2. p[1] \in Present(want)
      BY <1>1, <1>2, <2>1, LoadRowsAre DEF Rewritten
    <3> QED
      BY <1>1, <1>4, <1>7, <2>0, <3>1, <3>2, LoadOf
  <2>2. CASE PassageRow(p) \notin F
    <3>1. brain.text[p] # None
      BY <1>7, <2>2, LoadedIs
    <3> QED
      BY <1>1, <1>4, <1>7, <2>0, <3>1, LoadOf DEF WellFormed
  <2> QED
    BY <2>1, <2>2
<1>8. ASSUME NEW e \in g.project
      PROVE  g.artifact[e[1]] # None
  <2>1. CASE e \in brain.project
    BY <1>1, <1>4, <2>1 DEF WellFormed, Graphs
  <2>2. CASE e \in Items \X {"own", "agent"} /\ ForProject(e[1], e[2]) \in F
    <3>1. NodesLoaded
      BY <1>2, <1>3, <2>2 DEF ForProject
    <3>2. e[1] \in ProjectRelinked(want, snap)
      BY <1>1, <1>2, <2>2, LoadEdgesAre
    <3> QED
      BY <1>4, <2>2, <3>1, <3>2 DEF ProjectRelinked
  <2> QED
    BY <1>8, <2>1, <2>2, LoadedIs
<1>9. ASSUME NEW e \in g.author
      PROVE  g.artifact[e[1]] # None /\ e[2] \in g.person
  <2>1. CASE e \in brain.author
    <3>1. e[1] \in Items /\ e[2] \in People
      BY <1>1, <2>1 DEF Graphs, Items
    <3> QED
      BY <1>1, <1>4, <1>6, <2>1, <3>1 DEF WellFormed
  <2>2. CASE e \in Threads \X People /\ FromPerson(e[1], e[2]) \in F
    <3>1. NodesLoaded
      BY <1>2, <1>3, <2>2 DEF FromPerson
    <3>2. e[1] \in AuthorRelinked(want, snap) /\ e[2] = want.author[e[1]] /\ e[2] \in People
      BY <1>1, <1>2, <2>2, LoadEdgesAre
    <3>3. e[1] \in Items /\ e[1] \in Present(want) /\ e[2] \in Authors(want)
      BY <2>2, <3>2 DEF AuthorRelinked, Authors, Items
    <3> QED
      BY <1>4, <1>6, <3>1, <3>2, <3>3
  <2> QED
    BY <1>9, <2>1, <2>2, LoadedIs
<1>10. ASSUME NEW d \in g.source
       PROVE  g.note[d] # None /\ g.artifact[d] # None
  <2>0. \A n \in Decisions : n \in Items
    BY DEF ForgeAssumption, Items
  <2>1. CASE d \in brain.source
    <3>1. d \in Decisions
      BY <1>1, <2>1 DEF Graphs
    <3> QED
      BY <1>1, <1>4, <1>5, <2>0, <2>1, <3>1 DEF WellFormed
  <2>2. CASE d \in Decisions /\ FromArtifact(d) \in F
    <3>1. NodesLoaded
      BY <1>2, <1>3, <2>2 DEF FromArtifact
    <3>2. d \in SourceRelinked(want, snap)
      BY <1>1, <1>2, <2>2, LoadEdgesAre
    <3> QED
      BY <1>4, <1>5, <2>0, <3>1, <3>2 DEF SourceRelinked
  <2> QED
    BY <1>10, <2>1, <2>2, LoadedIs
<1>11. WellFormed(g)
  BY <1>7, <1>8, <1>9, <1>10 DEF WellFormed
<1>12. NewEdges(F) \cap brain.of = {}
  BY <1>1, PendingPassages DEF NewEdges, WellFormed, RunInv, GraphInv
<1> QED
  BY <1>1, <1>11, <1>12, PendingEdges DEF LoadAccepted, Graphs

LEMMA HealsTaken ==
  ASSUME ForgeAssumption, RunInv, Planned, NEW F \in SUBSET heals
  PROVE  HealAccepted(F) /\ GraphInv(Healed(brain, F))
<1> DEFINE g == Healed(brain, F)
<1>1. WellFormed(brain) /\ \A p \in Pids : p \in brain.of <=> brain.text[p] # None
  BY DEF RunInv, GraphInv
<1>2. /\ \A d \in Decisions : g.note[d] = brain.note[d]
      /\ \A p \in Pids : g.text[p] = brain.text[p]
      /\ g.artifact = brain.artifact /\ g.person = brain.person /\ g.of = brain.of
      /\ g.project = brain.project /\ g.author = brain.author /\ g.source = brain.source
  BY HealKeeps
<1>3. \A d \in brain.source : d \in Decisions
  BY DEF RunInv, TypeOK, Graphs
<1> HIDE DEF g
<1>4. WellFormed(g)
  BY <1>1, <1>2, <1>3 DEF WellFormed
<1> QED
  BY <1>1, <1>2, <1>4 DEF HealAccepted, GraphInv, g

-----------------------------------------------------------------------------
(* Every step keeps the invariant. *)

LEMMA EmptyGraphInv == ForgeAssumption => GraphInv(EmptyGraph) /\ Tidy(EmptyGraph)
<1> SUFFICES ASSUME ForgeAssumption PROVE GraphInv(EmptyGraph) /\ Tidy(EmptyGraph)
  OBVIOUS
<1>1. \A p \in Pids : p[1] \in Items
  BY DEF Pids
<1>2. \A d \in Decisions : d \in Items
  BY DEF ForgeAssumption, Items
<1> QED
  BY <1>1, <1>2 DEF EmptyGraph, GraphInv, WellFormed, Tidy

LEMMA InitRun == ForgeAssumption /\ Init => RunInv
BY InitTyped, EmptyGraphInv DEF Init, RunInv, Typed, SnapInv, Planned, TextInv

LEMMA ClearedRun ==
  ASSUME ForgeAssumption, RunInv, TypeOK', ClearPod, UNCHANGED brain,
         faults' = 0 => Tidy(brain)
  PROVE  RunInv'
BY EmptyGraphInv DEF RunInv, ClearPod, SnapInv, Planned, TextInv

LEMMA StepRun ==
  ASSUME ForgeAssumption, Typed, RunInv, [Next]_vars
  PROVE  RunInv'
<1>0. TypeOK /\ TypeOK' /\ GraphInv(brain) /\ GraphInv(snap)
  BY StepTyped DEF Typed, RunInv
<1>1. CASE Snapshot
  BY <1>0, <1>1 DEF Snapshot, RunInv, SnapInv, Planned, TextInv
<1>2. CASE RefuseNothingVisible
  BY <1>0, <1>2, ClearedRun DEF RefuseNothingVisible, RunInv, SnapInv, TextInv, Tidy
<1>3. CASE MakePlan
  <2>1. phase = "snapped" /\ phase' = "planned" /\ UNCHANGED <<brain, snap, faults>>
    BY <1>3 DEF MakePlan
  <2> QED
    BY <1>0, <1>3, <2>1, PlanMade DEF RunInv, SnapInv, TextInv
<1>4. CASE Embed \/ EmbedOutage
  <2>1. /\ phase = "planned" /\ phase' = "applying" /\ heals' \subseteq heals
        /\ UNCHANGED <<brain, snap, want, prunes, loads>> /\ (faults' = 0 => faults = 0)
    BY <1>0, <1>4 DEF Embed, EmbedOutage, TypeOK
  <2>2. PlanInv /\ RowsInv /\ TextsInv /\ EdgesInv
    BY <2>1 DEF RunInv, Planned
  <2>3. \A u : (Pruned(u)' <=> Pruned(u)) /\ (Done(u)' <=> Done(u))
    BY <2>1 DEF Pruned, Done
  <2>4. PlanInv'
    BY <2>1, <2>2 DEF PlanInv
  <2>5. RowsInv' /\ TextsInv'
    BY <2>1, <2>2, <2>3 DEF RowsInv, TextsInv
  <2>6. EdgesInv'
    BY <2>1, <2>2, <2>3 DEF EdgesInv, ProjectKept, AuthorKept, SourceKept
  <2> QED
    BY <1>0, <2>1, <2>4, <2>5, <2>6 DEF RunInv, SnapInv, TextInv
<1>5. CASE ApplyPrune
  <2>1. PICK F \in SUBSET prunes :
          F # {} /\ PruneAccepted(F) /\ brain' = Delete(brain, F) /\ prunes' = prunes \ F
    BY <1>5 DEF ApplyPrune, Files
  <2>2. phase = "applying" /\ UNCHANGED <<phase, snap, want, loads, heals, faults>>
    BY <1>5 DEF ApplyPrune
  <2>3. (PlanInv /\ RowsInv /\ TextsInv /\ EdgesInv)'
    BY <2>1, <2>2, PruneKeeps
  <2>4. GraphInv(brain)'
    BY <1>0, <2>1, PruneGraph
  <2> QED
    BY <1>0, <2>2, <2>3, <2>4 DEF RunInv, SnapInv, TextInv
<1>6. CASE ApplyLoad
  <2>1. PICK F \in SUBSET loads :
          LoadAccepted(F) /\ brain' = Loaded(brain, F) /\ loads' = loads \ F
    BY <1>6, StageIsLoads DEF ApplyLoad, Files
  <2>2. phase = "applying" /\ prunes = {} /\ UNCHANGED <<phase, snap, want, prunes, heals, faults>>
    BY <1>6 DEF ApplyLoad
  <2>3. (PlanInv /\ RowsInv /\ TextsInv /\ EdgesInv)'
    BY <2>1, <2>2, LoadKeeps
  <2>4. GraphInv(brain)'
    BY <2>1, <2>2, LoadOf DEF LoadAccepted, GraphInv, Planned
  <2> QED
    BY <1>0, <2>2, <2>3, <2>4 DEF RunInv, SnapInv, TextInv
<1>7. CASE ApplyHeal
  <2>1. PICK F \in SUBSET heals : brain' = Healed(brain, F) /\ heals' = heals \ F
    BY <1>7 DEF ApplyHeal, Files
  <2>2. phase = "applying" /\ UNCHANGED <<phase, snap, want, prunes, loads, faults>>
    BY <1>7 DEF ApplyHeal
  <2>3. PlanInv /\ RowsInv /\ TextsInv /\ EdgesInv /\ Planned
    BY <2>2 DEF RunInv, Planned
  <2>4. (PlanInv /\ RowsInv /\ TextsInv /\ EdgesInv)'
    BY <2>1, <2>2, <2>3, HealKeeps, PlanStays
  <2>5. GraphInv(brain)'
    BY <2>1, <2>3, HealsTaken
  <2> QED
    BY <1>0, <2>2, <2>4, <2>5 DEF RunInv, SnapInv, TextInv
<1>8. CASE Report
  <2>1. Applied /\ ClearPod /\ UNCHANGED <<brain, faults>>
    BY <1>8 DEF Report
  <2>2. faults = 0 => Tidy(snap)
    BY <2>1 DEF RunInv, TextInv, Applied
  <2> QED
    BY <1>0, <2>1, <2>2, AppliedTidy, ClearedRun
<1>9. CASE Fail
  <2>1. ClearPod /\ UNCHANGED brain /\ faults' # 0
    BY <1>0, <1>9 DEF Fail, TypeOK
  <2> QED
    BY <1>0, <2>1, ClearedRun
<1>10. CASE EditForge \/ TokenAccess \/ UNCHANGED vars
  <2>1. UNCHANGED <<brain, podVars, faults>>
    BY <1>10 DEF EditForge, TokenAccess, vars
  <2>2. UNCHANGED <<brain, phase, snap, want, prunes, loads, heals, faults>>
    BY <2>1 DEF podVars
  <2>3. Planned => (PlanInv /\ RowsInv /\ TextsInv /\ EdgesInv)'
    BY <2>2, PlanStays DEF RunInv
  <2> QED
    BY <1>0, <2>2, <2>3 DEF RunInv, SnapInv, TextInv, Planned
<1>11. CASE AgentLinks
  <2>1. PICK i \in Items : /\ brain.artifact[i] # None
                           /\ brain' = [brain EXCEPT !.project = @ \cup {<<i, "agent">>}]
    BY <1>11 DEF AgentLinks
  <2>2. UNCHANGED <<phase, snap, want, prunes, loads, heals, faults>>
    BY <1>11 DEF AgentLinks, podVars
  <2>3. /\ brain'.artifact = brain.artifact /\ brain'.note = brain.note /\ brain'.person = brain.person
        /\ brain'.text = brain.text /\ brain'.of = brain.of
        /\ brain'.author = brain.author /\ brain'.source = brain.source
        /\ brain'.project = brain.project \cup {<<i, "agent">>}
    BY <1>0, <2>1 DEF TypeOK, Graphs
  <2>4. Planned => (PlanInv /\ RowsInv /\ TextsInv /\ EdgesInv)'
    BY <2>2, <2>3, PlanStays DEF RunInv
  <2>5. GraphInv(brain)'
    BY <1>0, <2>1, <2>3 DEF GraphInv, WellFormed
  <2>6. SnapInv'
    BY <2>2, <2>3 DEF RunInv, SnapInv
  <2>7. TextInv'
    BY <2>2, <2>3 DEF RunInv, TextInv, Tidy
  <2> QED
    BY <1>0, <2>2, <2>4, <2>5, <2>6, <2>7 DEF RunInv, Planned
<1> QED
  BY <1>1, <1>2, <1>3, <1>4, <1>5, <1>6, <1>7, <1>8, <1>9, <1>10, <1>11 DEF Next, PodStep

-----------------------------------------------------------------------------
(* The theorems. *)

LEMMA RunHolds ==
  ASSUME ForgeAssumption
  PROVE  Spec => [](Typed /\ RunInv)
BY InitTyped, InitRun, StepTyped, StepRun, PTL DEF Spec

\* The graph server refuses no file for what the plan got wrong, whatever an earlier
\* run left and however the statements are cut into files (build_plan, apply.sh).
THEOREM FilesAccepted ==
  ASSUME ForgeAssumption
  PROVE  Spec => []OwnFilesAccepted
<1>1. ASSUME RunInv PROVE OwnFilesAccepted
  <2> SUFFICES ASSUME phase = "applying" PROVE OwnFilesAccepted
    BY DEF OwnFilesAccepted
  <2>1. \A F \in Files(prunes, DeleteOrder) : PruneAccepted(F)
    BY <1>1, PrunesTaken
  <2>2. prunes = {} => /\ \A F \in Files(NextStage, LoadOrder) : LoadAccepted(F)
                       /\ \A i \in Items : ForProject(i, "own") \in loads => <<i, "own">> \notin brain.project
    BY <1>1, LoadsTaken, PendingEdges
  <2>3. \A F \in Files(heals, LoadOrder) : HealAccepted(F)
    BY <1>1, HealsTaken DEF Files, Planned
  <2> QED
    BY <2>1, <2>2, <2>3 DEF OwnFilesAccepted
<1> QED
  BY RunHolds, <1>1, PTL

\* A run that applied all its files leaves the rows and edges of the forge it read, and
\* the texts as well until some run has stopped halfway.
THEOREM RunMirrors ==
  ASSUME ForgeAssumption
  PROVE  Spec => []CompleteRunMirrors
<1>1. ASSUME RunInv PROVE CompleteRunMirrors
  <2> SUFFICES ASSUME Applied PROVE RowsMirror(want, brain) /\ (faults = 0 => TextsMirror(want, brain))
    BY DEF CompleteRunMirrors
  <2>1. faults = 0 => Tidy(snap)
    BY <1>1 DEF RunInv, TextInv, Applied
  <2> QED
    BY <1>1, <2>1, AppliedRows, AppliedTexts
<1> QED
  BY RunHolds, <1>1, PTL

\* What a run promises: the two above, that a heal row holds the text the graph holds
\* (plan_heal), and that a complete run keeps the links of agents that it saw.
THEOREM RunIsRight ==
  ASSUME ForgeAssumption
  PROVE  Spec => []ForgeRight
<1>1. ASSUME RunInv PROVE HealKeepsText
  BY <1>1, PendingHeals DEF HealKeepsText, Planned
<1>2. ASSUME RunInv PROVE KeepsForeignLinks
  <2> SUFFICES ASSUME Applied, NEW i \in Present(want), <<i, "agent">> \in snap.project
               PROVE  <<i, "agent">> \in brain.project
    BY DEF KeepsForeignLinks
  <2>1. EdgesInv /\ want \in Forges /\ i \in Items /\ i \notin GoneItems(want, snap)
    BY <1>2 DEF RunInv, Planned, Applied, TypeOK, Present, GoneItems
  <2>2. ~Pruned(ArtifactRow(i))
    BY <2>1, PruneRowsAre DEF Pruned
  <2>3. CASE i \in ProjectRelinked(want, snap)
    BY <2>1, <2>3, LoadEdgesAre DEF EdgesInv, Done, Applied
  <2>4. CASE i \notin ProjectRelinked(want, snap)
    BY <2>1, <2>2, <2>4, PruneEdgesAre DEF EdgesInv, ProjectKept, Pruned
  <2> QED
    BY <2>3, <2>4
<1> QED
  BY FilesAccepted, RunMirrors, RunHolds, <1>1, <1>2, PTL DEF ForgeRight

\* A run plans to delete an artifact only when the forge does not have it, whatever the
\* token shows (run, refusal 5).
THEOREM OnlyGoneDeleted ==
  ASSUME ForgeAssumption
  PROVE  Spec => DeletesOnlyGone
<1>1. ASSUME [Next]_vars, phase = "snapped", phase' = "planned", NEW i \in Items, ArtifactRow(i) \in prunes'
      PROVE  forge.ver[i] = None
  <2>1. MakePlan
    BY <1>1 DEF Next, PodStep, Snapshot, RefuseNothingVisible, Embed, EmbedOutage, ApplyPrune, ApplyLoad,
       ApplyHeal, Report, Applied, Fail, ClearPod, EditForge, TokenAccess, AgentLinks, podVars, vars
  <2> DEFINE c == IF visible THEN forge ELSE NoForge
  <2>2. prunes' = PlannedPrunes(c, snap) /\ ~NothingVisible(snap)
    BY <2>1 DEF MakePlan
  <2>3. i \in GoneItems(c, snap)
    BY <1>1, <2>2 DEF PlannedPrunes, Deleted, Unlinked, PersonRow, ArtifactRow, NoteRow, PassageRow, EdgesFrom
  <2>4. visible
    BY <1>1, <2>2, <2>3 DEF NothingVisible, GoneItems
  <2> QED
    BY <2>3, <2>4 DEF GoneItems, Present
<1>2. [Next]_vars => [phase = "snapped" /\ phase' = "planned" =>
                        \A i \in Items : ArtifactRow(i) \in prunes' => forge.ver[i] = None]_vars
  BY <1>1
<1> QED
  BY <1>2, PTL DEF Spec, DeletesOnlyGone

=============================================================================
