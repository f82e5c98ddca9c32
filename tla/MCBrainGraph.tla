---------------------------- MODULE MCBrainGraph ----------------------------
EXTENDS Integers, BrainGraph, TLC

(* The distiller: three documents of two texts, three names. *)

\* Names 1 and 2 mean the same.
MCConcept  == <<1, 1, 2>>
\* What the two texts of a document mention.
MCTexts    == << <<{1, 3}, {3}>>, <<{2}, {2, 3}>>, <<{2, 3}, {}>> >>
MCMentions == [k \in Docs \X (1..MaxVersion) |-> MCTexts[k[1]][k[2]]]
MCAnswers  == [k \in Docs \X (1..MaxVersion) |->
                 CASE k = <<1, 2>> -> "garbled" [] k = <<3, 2>> -> "refused" [] OTHER -> "read"]
MCFirstDocs == {[d \in Docs |-> 1]}

(* The company view: one repository with an artifact, a record and a project row, a *)
(* second one with a project row only, and a vault note.                            *)

MCHomeOf     == [s \in {"p1", "p2", "a", "k"} |-> IF s = "p2" THEN "r2" ELSE "r1"]
MCFirstTiers == {[r \in Repos |-> IF r = "r1" THEN "internal" ELSE t] : t \in {"internal", "personal", "nobody"}}
MCFirstAbout == {S \X {"t"} : S \in {{"k"}, {"k", "a", "n"}, {"k", "p2"}}}

(* The tools server: two requests, two commits, five passages of three documents. *)

MCRecall == <<"notes", "passages">>

Question(profile, pin, rerank, note) ==
  [profile |-> profile, pin |-> pin, terms |-> TRUE, rerank |-> rerank, note |-> note]
MCQuestions ==
  [r \in Requests |->
     IF r = "q" THEN {Question("p1", 1, TRUE, FALSE)}
     ELSE {Question("p1", pin, FALSE, FALSE) : pin \in 0..2}
          \cup {Question("p0", 0, FALSE, FALSE), Question("read", 0, FALSE, TRUE)}]
MCRanked == [l \in Legs \cup {"notes", "passages", "card", "window", "whole"} |->
               CASE l = "vec"      -> <<5, 1>>
                 [] l = "kw"       -> <<4, 3, 2>>
                 [] l = "passages" -> <<1, 3>>
                 [] l = "window"   -> <<4>>
                 [] OTHER          -> <<2>>]
MCWeight    == [l \in Legs |-> IF l = "vec" THEN 10 ELSE 6]
MCRelevance == <<1, 3, 2, 2, 1>>
MCThere     == <<{2, 3, 5}, 1..5>>
MCBots      == <<{"d2"}, {"d3"}>>
MCDocOf     == <<"d1", "d3", "d2", "d3", "d1">>
MCTextOf    == <<"a", "b", "a", "c", "e">>
MCDateOf    == <<1, 1, 2, 1, 1>>

\* The vault importer: one note with chunks, alone or with a link to one of two stubs, which
\* are shorter than MIN_CHUNKED_NOTE_CHARS; it chunks and heals one note a run.
MCFirstVaults ==
  {[ver    |-> [n \in ShadowedNotes |-> IF n = "n1" THEN "two" ELSE v],
    target |-> [n \in ShadowedNotes |-> IF n = "n1" /\ v = "stub" THEN {"n2"} ELSE {}]] : v \in {"stub", "none"}}
MCNoteChunks == [v \in NoteVersions |-> IF v = "two" THEN <<"a", "b">> ELSE <<>>]
MCNoteDigest == [v \in NoteVersions |-> v]

ASSUME BrainAssumption ==
  /\ Company!SourceAssumption /\ Tools!ToolsAssumption
  /\ Vault!DataAssumption /\ Vault!DigestAssumption /\ Vault!BoundAssumption /\ Vault!FirstAssumption

-----------------------------------------------------------------------------
MCInit ==
  /\ BrainInit
  /\ user # "company" => tiers["r2"] = "nobody" /\ about = {"k"} \X {"t"}
  /\ user # "vault" => vault.ver["n2"] = "none"

AnyPodStep ==
  \/ user = "distiller" /\ PodStep /\ UNCHANGED <<user, companyVars, toolVars, vaultVars>>
  \/ user = "company" /\ Company!PodStep /\ UNCHANGED <<user, vars, toolVars, vaultVars>>
  \/ user = "vault" /\ Vault!PodStep /\ UNCHANGED <<user, vars, companyVars, toolVars>>

\* The CronJobs start their pods every hour, and a pod that lives goes on.
MCFairSpec == MCInit /\ [][BrainNext]_allVars /\ WF_allVars(AnyPodStep)

\* Once the others rest and faults cease, both graphs settle: the brain is what the vault
\* says, every document the model can read is distilled, and the company graph is the view
\* of the brain.
AllSettle ==
  <>[](CASE user = "distiller" -> Distilled
         [] user = "company"   -> Company!Settled
         [] user = "vault"     -> Vault!Settled
         [] OTHER              -> TRUE)

\* The distiller alone.
DistillerSpec == user = "distiller" /\ MCFairSpec
=============================================================================
