---------------------------- MODULE MCMeasures -----------------------------
(***************************************************************************)
(* The programs that measure and judge, each of which keeps to itself: the *)
(* store of the brain evaluation with two pods, an evaluation job, the     *)
(* arithmetic of its scores, the candidates it drafts and the files of its *)
(* cases; the merge check; and the exporters of costs, of panels and of    *)
(* mirrors.  A job is one step of a pod of the store, the scores are what  *)
(* it computes, and the others share nothing; so one of them moves in a    *)
(* behaviour, `part`, and the others stand at their start.                 *)
(***************************************************************************)
EXTENDS Integers, Measures

VARIABLES
  input,
  phase, undrafted, ungraded, refused, kept, uncut, cases,
  time, created, gone, mounted, used, at, page, listed, steady, shifted, priced, refreshes, costTroubles, costChanges,
  world, checking, dashboards, rest, results, exported, scrapes, saw, seen, lit, checks, panelChanges, panelTroubles,
  model, sources, public, pushed, lacking, app, forgeToken, step, entries, mirrors, names, budget, failures, found, metrics,
  copies, unaccounted, edited, fleetRuns, edits, fleetTroubles,
  file, meaning, fileEdits

candidateVars == <<phase, undrafted, ungraded, refused, kept, uncut, cases>>
costVars      == <<time, created, gone, mounted, used, at, page, listed, steady, shifted, priced, refreshes, costTroubles, costChanges>>
panelVars     == <<world, checking, dashboards, rest, results, exported, scrapes, saw, seen, lit, checks, panelChanges, panelTroubles>>
fleetVars     == <<model, sources, public, pushed, lacking, app, forgeToken, step, entries, mirrors, names, budget, failures, found, metrics,
                   copies, unaccounted, edited, fleetRuns, edits, fleetTroubles>>
fileVars      == <<file, meaning, fileEdits>>
allVars == <<part, storeVars, jobVars, input, candidateVars, mergeVars, costVars, panelVars, fleetVars, fileVars>>

-----------------------------------------------------------------------------
(* The evaluation: two cases, one of which only the first commit knows, and a profile *)
(* of stored queries beside one of brain-tools.                                        *)

MCProfiles == <<"p0", "rest">>
MCKnown    == <<{1, 2}, {2}>>

(* Its scores: notes n1 and n2, the shadow f1 of n1, the artifact a2 of n2, and x; three *)
(* cases of a gate; three private cases and a public one to look for.                    *)

MCRankings     == UNION {[1..n -> {"n1", "f1", "n2", "a2", "x"}] : n \in 0..3}
MCExpectations == UNION {[D -> {1, 2}] : D \in {{"n1"}, {"f1", "n2"}, {"a2", "n2", "x"}, {"n1", "f1"}}}
MCDiscount     == <<1000, 631, 500>>
MCScores       == [c \in 1..3 |-> IF c = 3 THEN {-1, 0, 100} ELSE {-1, 0, 50, 100}]
Words          == {"v", "w"}
MCFiles        == [words : UNION {[1..n -> Words] : n \in 0..4}, slugs : SUBSET {"f1", "x"}]
Private(fromHere, question, facts, slugs) ==
  [public |-> FALSE, fromHere |-> fromHere, question |-> question, facts |-> facts, slugs |-> slugs]
MCCases ==
  {Private(FALSE, <<"w", "v", "w">>, {<<"v", "v">>}, {"n1"}),
   Private(TRUE, <<"v">>, {<<"w", "w">>}, {"x"}),
   Private(TRUE, <<"v", "v", "v", "w">>, {}, {"n1"}),
   [Private(FALSE, <<"w", "v", "v", "w">>, {}, {"n1"}) EXCEPT !.public = TRUE]}

Scores == INSTANCE EvalScores WITH
  Shadows <- {"f1"}, TwinOf <- [s \in {"f1"} |-> "n1"],
  NoteToArtifact <- [n \in {"n1", "n2"} |-> IF n = "n1" THEN "f1" ELSE "a2"],
  Rankings <- MCRankings, Expectations <- MCExpectations, Discount <- MCDiscount,
  Scores <- MCScores, NoScore <- -1, CategoryOf <- [c \in 1..3 |-> IF c = 3 THEN "b" ELSE "a"],
  MinDelta <- 5, MinNetWins <- 1, MaxCategoryLosses <- 0,
  SourceFiles <- MCFiles, Cases <- MCCases, PrivateSlug <- {"n1", "f1"}, ShingleWords <- 3, MinPhraseWords <- 2

(* Its candidates: a long and a short Dutch note, a document of a repository, two topics that *)
(* share one of them, and a person; one case of a category, two about Dutch notes.            *)

Doc(kind, language, long, repo) == [kind |-> kind, language |-> language, long |-> long, repo |-> repo]
MCCategories == {"notes-nl", "notes-en", "cross-lingual", "docs-en", "about", "connect", "temporal", "unanswerable"}

Candidates == INSTANCE EvalCandidates WITH
  Document <- <<Doc("note", "nl", TRUE, "-"), Doc("note", "nl", FALSE, "-"), Doc("doc", "en", FALSE, "r")>>,
  Topics <- [t \in {11, 12} |-> IF t = 11 THEN {1, 2} ELSE {2, 3}], Related <- {<<11, 12>>}, People <- [p \in {21} |-> {2}],
  Ages <- [k \in {"recent"} |-> {3}],
  Templates <- {[kind |-> "recent", language |-> "nl", days |-> 1, spans |-> {1, 2, 4}]},
  Plan <- [c \in MCCategories |-> IF c \in {"notes-nl", "connect"} THEN 1 ELSE 0],
  Quota <- [c \in MCCategories |-> IF c = "notes-nl" THEN 2 ELSE 1],
  LongPicks <- 1, CrossPicks <- 0, PerRepo <- 1, AboutMin <- 2, PersonMin <- 1, ConnectMin <- 1, GradeTwoMax <- 1,
  ExpectedMax <- 1, PoolDocs <- 1, Pooled <- {2}, Unanswerable <- {0}, Models <- {1, 2}

(* Its cases as files: texts with a comment's sign, a number's digit, a line break and a *)
(* line that begins with a space.                                                       *)

Plain(type, of) == [type |-> type, of |-> of]
Pair(k, v)      == [key |-> k, value |-> v]
Judged(slug)    == Plain("map", <<Pair("slug", Plain("text", slug)), Pair("grade", Plain("number", <<"7">>))>>)
MCKeyOrder      == <<"id", "question", "expected", "key_facts", "temporal">>
MCWritten ==
  {[id |-> Plain("text", <<"7">>), question |-> Plain("text", <<"a", "sp", "#", "nl", "nl", "a">>),
    expected |-> Plain("list", <<Judged(<<"7">>), Judged(<<"a">>)>>)],
   [question |-> Plain("text", <<"a", "sp", "a">>), expected |-> Plain("list", << >>),
    key_facts |-> Plain("list", <<Plain("text", <<"a">>), Plain("text", <<"7", "sp", "#">>)>>),
    temporal |-> Plain("map", <<Pair("kind", Plain("text", <<"a">>)), Pair("days", Plain("number", <<"7">>))>>)],
   [question |-> Plain("text", <<"a", "nl", "sp", "a">>), key_facts |-> Plain("list", <<Plain("text", <<"a">>)>>)]}

CaseFiles == INSTANCE CaseFile WITH
  Cases <- MCWritten, KeyOrder <- MCKeyOrder, ListKeys <- {"expected", "key_facts"}, NoKey <- "-", MaxFileEdits <- 2

(* The merge check: two test paths, a gate and a judge; an agent and a person; a link to a *)
(* file whose name begins with assert.                                                     *)

File(lines)          == [kind |-> "file", lines |-> lines]
Kind(agent, subject) == [agent |-> agent, merge |-> FALSE, subject |-> subject, ticket |-> TRUE]
Opt(author, testEdits, protected, upToDate, style) ==
  [author |-> author, allowTestEdits |-> testEdits, protected |-> protected, requireUpToDate |-> upToDate, oldGit |-> FALSE,
   style |-> style, conventional |-> TRUE, title |-> "conventional", trailer |-> TRUE, bodyTicket |-> FALSE, body |-> "full"]

Link(to)     == [kind |-> "link", lines |-> {to}]
MCContents   == {File({"x"}), File({"x", "assert"}), File({"x", "skip"}), Link("assert")}
MCFirstTree  == [p \in Paths |-> IF p = "tests" THEN File({"x", "assert"})
                                 ELSE IF p = "gate" THEN File({"x"}) ELSE [kind |-> "absent", lines |-> {}]]
MCCommitKinds == {Kind(TRUE, "conventional"), Kind(FALSE, "fixup")}
MCOptions     == {Opt("auto", FALSE, FALSE, FALSE, "squash"), Opt("human", FALSE, TRUE, FALSE, "merge"),
                  Opt("agent", TRUE, TRUE, TRUE, "squash")}

(* Two servers, one with backups, and an address; a month of two hours. *)

PriceOf(hourly, cap) == [hourly |-> hourly, cap |-> cap]

Cost == INSTANCE CostExporter WITH
  Ids <- 1..3, KindOf <- <<"server", "server", "primary_ip">>, BackedUp <- {2}, NoPrice <- {}, Free <- {},
  Listings <- <<"server", "primary_ip", "snapshot">>, PerGB <- {"snapshot"},
  Price <- [server |-> PriceOf(4, 6), primary_ip |-> PriceOf(2, 20), snapshot |-> PriceOf(0, 12)],
  BackupPercentage <- 50, HoursPerMonth <- 6, PageSize <- 1, TicksPerHour <- 2, HoursOfMonth <- 2,
  LastTick <- 5, MaxRefreshes <- 2, MaxTroubles <- 1, MaxChanges <- 3,
  token <- mounted, snapshot <- priced, troubles <- costTroubles, changes <- costChanges

(* A graph with its panel's source, a number that may be empty, and a row; two dashboards. *)

Target(hidden, datasource) == [hidden |-> hidden, datasource |-> datasource]
PanelOf(type, noValue, targets) == [type |-> type, library |-> FALSE, datasource |-> "$ds", noValue |-> noValue, targets |-> targets]

Health == INSTANCE PanelHealth WITH
  Panels <- {"p1", "p2", "p3"}, DashboardOf <- [p \in {"p1", "p2", "p3"} |-> IF p = "p3" THEN "d2" ELSE "d1"],
  Panel <- [p \in {"p1", "p2", "p3"} |->
              IF p = "p1" THEN PanelOf("graph", "generic", <<Target(FALSE, "none"), Target(FALSE, "prom")>>)
              ELSE IF p = "p3" THEN PanelOf("row", "generic", << >>)
              ELSE PanelOf("stat", "sentence", <<Target(TRUE, "prom"), Target(FALSE, "prom"), Target(FALSE, "__expr__")>>)],
  Variables <- [d \in {"d1", "d2"} |-> [v \in {"$ds"} |-> [type |-> "datasource", current |-> "prom", all |-> "none"]]],
  Typeless <- {"row"}, Builtin <- {"__expr__"}, Mixed <- "mixed", NoSource <- "none",
  Window <- 2, Memory <- 3, MaxChecks <- 4, MaxChanges <- 2, MaxTroubles <- 1,
  phase <- checking, snapshot <- exported, changes <- panelChanges, troubles <- panelTroubles

(* Two repositories, at least one of them tracked, that lack two releases or none, and a budget for two copies. *)

Fleet == INSTANCE MirrorFleet WITH
  Repositories <- {"r1", "r2"}, Missing <- 2, CopyBudget <- 2, MaxRuns <- 2, MaxEdits <- 1, MaxTroubles <- 1,
  token <- forgeToken, runs <- fleetRuns, troubles <- fleetTroubles

ASSUME MeasuresAssumption == StoreAssumption /\ Eval!EvalAssumption /\ Merge!MergeAssumption

-----------------------------------------------------------------------------
MCInit ==
  /\ part \in {"store", "job", "scores", "candidates", "merge", "cost", "panels", "fleet", "files"}
  /\ Init /\ Eval!Init /\ Scores!Init /\ Candidates!Init /\ Merge!Init /\ Cost!Init /\ Health!Init /\ Fleet!Init /\ CaseFiles!Init
  /\ part # "store" => remote = {} /\ private /\ reachable
  /\ mounted = "good"
  /\ part # "files" => "id" \in DOMAIN meaning
  /\ part = "fleet" => \E r \in DOMAIN model : model[r] = "mirror"
  /\ part # "fleet" => model = [r \in {"r1", "r2"} |-> "mirror"] /\ pushed = {} /\ lacking = [r \in {"r1", "r2"} |-> 0] /\ app /\ forgeToken

MCNext ==
  \/ part = "store" /\ Next /\ UNCHANGED <<part, jobVars, input, candidateVars, mergeVars, costVars, panelVars, fleetVars, fileVars>>
  \/ part = "job" /\ Eval!Next /\ UNCHANGED <<part, storeVars, input, candidateVars, mergeVars, costVars, panelVars, fleetVars, fileVars>>
  \/ part = "scores" /\ Scores!Next /\ UNCHANGED <<part, storeVars, jobVars, candidateVars, mergeVars, costVars, panelVars, fleetVars, fileVars>>
  \/ part = "candidates" /\ Candidates!Next /\ UNCHANGED <<part, storeVars, jobVars, input, mergeVars, costVars, panelVars, fleetVars, fileVars>>
  \/ part = "merge" /\ Merge!Next /\ UNCHANGED <<part, storeVars, jobVars, input, candidateVars, costVars, panelVars, fleetVars, fileVars>>
  \/ part = "cost" /\ Cost!Next /\ UNCHANGED <<part, storeVars, jobVars, input, candidateVars, mergeVars, panelVars, fleetVars, fileVars>>
  \/ part = "panels" /\ Health!Next /\ UNCHANGED <<part, storeVars, jobVars, input, candidateVars, mergeVars, costVars, fleetVars, fileVars>>
  \/ part = "fleet" /\ Fleet!Next /\ UNCHANGED <<part, storeVars, jobVars, input, candidateVars, mergeVars, costVars, panelVars, fileVars>>
  \/ part = "files" /\ CaseFiles!Next /\ UNCHANGED <<part, storeVars, jobVars, input, candidateVars, mergeVars, costVars, panelVars, fleetVars>>

\* A job that lives goes on.
MCFairSpec ==
  /\ MCInit /\ [][MCNext]_allVars
  /\ WF_jobVars(part = "job" /\ Eval!PodStep)

-----------------------------------------------------------------------------
(* Properties: those of the store keep their names, and Measures has those of the job and *)
(* of the merge check.                                                                    *)

\* Every variable of the part that moves holds values of its kind.
TypesOK ==
  CASE part = "store"      -> TypeOK
    [] part = "job"        -> Eval!TypeOK
    [] part = "candidates" -> Candidates!TypeOK
    [] part = "merge"      -> Merge!TypeOK
    [] part = "cost"       -> Cost!TypeOK
    [] part = "panels"     -> Health!TypeOK
    [] part = "fleet"      -> Fleet!TypeOK
    [] OTHER               -> TRUE

\* The measuring programs do as they say: an evaluation job keeps the pace of the model
\* gateway; and what they publish is so: a set of cases that can be scored, the bill
\* of the month as it will come, panels that stopped showing data and no others, and
\* mirrors that were checked; and a case is read as people wrote it. Retrieval scores lie
\* between 0 and 1, and nDCG is whole exactly for the best order; a gate adopts only what is
\* better, on the cases both sides have scored; a case whose private text stands in this
\* repository is found, and no other.
MeasuresTrue ==
  CASE part = "job"        -> Eval!PaceKept
    [] part = "scores"     -> Scores!ScoresSound /\ Scores!AdoptedIsBetter /\ Scores!LeaksFound
    [] part = "candidates" -> Candidates!CandidatesRight
    [] part = "cost"       -> Cost!CostsRight
    [] part = "panels"     -> Health!PanelsRight
    [] part = "fleet"      -> Fleet!FleetRight
    [] part = "files"      -> CaseFiles!FilesRead
    [] OTHER               -> TRUE

\* Every job ends, however often it has to wait for room.
JobsEnd == Eval!JobsEnd
=============================================================================
