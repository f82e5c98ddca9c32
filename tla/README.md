# Formal verification of the homelab's programs

This directory models the programs of this repository that change state over
time and have to survive crashes, failed calls, each other and the people and
agents who write to the same places: what fills and reads the brain graph, what
copies things between Forgejo and GitHub, and the pages and services that show
what Forgejo is doing. Most of the repository is declarative configuration
(Kubernetes manifests, Talos, Terraform), which has no behaviour of its own; the
programs are Python, TypeScript, shell and JavaScript files mounted into CronJobs,
Deployments and Forgejo's web interface.

Run everything from this directory: `tlc -config X.cfg Module` for a run (the
table in section 3 names both), `tlapm XProofs.tla` for a proof module.
`PROJECT.json` lists components, runs, mutants, the source lines of every
definition, findings, hazards and theorems.

## 1. Inventory

Paths are relative to `src/kubernetes/apps/`.

| Component | State it keeps | Hard behaviour | Correct when | Here |
|---|---|---|---|---|
| Vault importer (`ai/omnigraph/vault-import/app`) | none; the graph's rows under `obsidian/` | dies between any two files; agents write meanwhile; edges load without deduplication; per-run budgets | a complete run leaves the graph equal to the vault; no file is refused; nothing of others is lost; it converges | modelled, proved |
| Forge importer (`ai/omnigraph/forge-import/app`) | none; the rows under `forge/` | as above, and a token that loses its access; decides by the artifact row alone | as above; deletes only what is gone | partly: one project |
| Embed step (`ai/omnigraph/embed-step/app`) | vectors of a pod's rows | an outage leaves rows without a vector | every row gets its vector in the end | partly: inside both importers |
| Distiller (`ai/omnigraph/distill/app`) | `Distillation` rows, a monthly key budget | parallel paid calls, a crash between links and state rows, refused documents, topics that merge | a recorded document has its links; one topic per concept; spend stays near the limit | partly, proved |
| Company view (`ai/omnigraph/company-view/app`) | a second graph | the brain changes between its queries; deletes come before loads | nothing tainted is ever loaded; it mirrors the view | modelled, proved |
| Brain tools server (`ai/brain-tools/app`) | two caches, a schema verdict | concurrent requests with deadlines share a load | an answer of a pinned commit is the same twice; every request ends | partly |
| Brain evaluation (`ai/omnigraph/brain-eval/app`) | a results repository, metrics, case files that people edit | paced, capped, failing calls; two jobs push to one branch; privacy is checked by reads that may fail; candidates are drafted, graded and cut; a YAML reader of its own | numbers are of stored results and of a judge that passed; nothing private leaves; a set of cases can be scored; a case is read as it was written | partly; store and job are proved |
| Release copier (`github-config/github-mirrors/app`) | none; drafts and releases on GitHub | dead runs, lost answers, refused deletes, a budget, a push mirror of its own pace | never an incomplete public release, never a new tag, `latest` never moves back, everything is copied; metrics say what was checked | modelled; one repository is proved |
| Secrets bridge (`github-secrets-bridge`) | fingerprints and seconds in a ConfigMap | others write the same secret; GitHub shows only the second of a write | what it takes for current has the value of the source | modelled, proved |
| CI console API (`forgejo/ci-console/app`) | sessions in memory | a worker and HTTP threads with little locking; runs that start between two pages | no run of the window is missing; none stays active for ever; the page shows what the session knows | partly, proved: one repository |
| CI console page (`forgejo/forgejo/app/custom/wg-ci.js`) | tokens in localStorage, optimistic rows | several tabs, one refresh token; a snapshot between aim and click | no token is spent twice; a click lands on what was shown | partly, proved |
| Pipeline and run-list pages (`wg-pipeline.js`, `wg-pipeline-canary.js`) | a panel, a poll cache | lists that grow while they are paged; names that do not identify a job | newest attempts at their own nodes; the panel stops asking | partly; the panel is proved |
| Configuration inventory (`repo-config/repo-config/inventory`) | a board in the metrics store | some reads fail and the run goes on | what it pushes is true and has every repository | modelled, proved |
| Graph write protocol (`omnigraph_write.sh`, `omnigraph_http.py`) | none | a timed-out write may have landed | no write is applied twice where it matters | not modelled |
| Scrub (`ai/omnigraph/scrub/app`) | none | the importers write the same rows again | no matching row stays | not modelled |
| Restore drills, WireGuard reconciler | scratch volumes; a digest file | dies before the clean-up | nothing is left behind; no failure is recorded as a success | not modelled |
| Cost exporter, panel check (`observability/hcloud-cost-exporter`, `observability/grafana-panel-health`) | the last snapshot, in memory | pages of a listing that changes, a refused token, a month that ends; queries that fail one by one | the bill published is the one that will come; a panel is reported when it stopped showing data, and no other | modelled; the third exporter is not |
| Merge check (`.agents/skills/product-owner/scripts/merge_check.py`) | none | renames, links, merges, a base that moved | what it lets through keeps tests, gates and a ticket's files | modelled, proved |
| Other exporters, provisioners, bootstrap, offsite scripts, repository checks, other guard scripts, manifests | none, or supervised | - | - | not modelled |

`PROJECT.json` lists every component with its files and, for each that is left
out, the reason.

How they interact. The graph server is shared by the importers, the distiller,
the company view, the tools server, the evaluation, scrub and agents: each plans
from what it read and writes later. Forgejo is read by the forge importer, the
copier, the console, the pages and the inventory; its push mirror feeds GitHub
while the copier runs. The page and the console's worker meet in one session
object. Nobody holds a lock across two programs: what keeps them right is that
each recomputes its plan from what it finds. The models follow that. A
component's module contains the environment it meets (agents, people, Forgejo,
GitHub, other pods of its own) as actions that do whatever the real ones can,
so it is checked against every interleaving with them.

## 2. Modules

| Module | Models | Run through | Proved in |
|---|---|---|---|
| `VaultImport` | vault importer, embed step, the graph under `obsidian/`, agents | `MCImporters`, `MCBrainGraph` | `VaultImportProofs` |
| `ForgeImport` | forge importer, embed step, the graph under `forge/`, agents | `MCImporters`, `MCForges` | `ForgeImportProofs` |
| `Distill` | the distiller, other writers, the key's budget | `MCBrainGraph` | `DistillProofs` |
| `CompanyView` | the company view, others' commits to the brain | `MCBrainGraph` | `CompanyViewProofs` |
| `BrainTools` | searches and reads, caches, deadlines, ranking | `MCBrainGraph` | `DistillProofs` |
| `EvalRun` | one job of the evaluation in every mode | `MCMeasures` | `EvalStoreProofs` |
| `EvalScores` | scores, quantiles, gate rule, leak search, as functions of an input | `MCMeasures` | - |
| `EvalStore` | the results repository, its privacy checks, pushes and rebases | `MCMeasures` | `EvalStoreProofs` |
| `EvalCandidates` | the candidates job: sources, drafts, grades, quotas, halves | `MCMeasures` | - |
| `CaseFile` | the file of a case: written, edited by people, read | `MCMeasures` | - |
| `GithubMirrors` | `reconcile_mirror` of one repository, GitHub, the push mirror | `MCForges` | `GithubMirrorsProofs` |
| `ReleaseShelf` | abstract: what the copier promises its readers | (refined by `GithubMirrors`) | `GithubMirrorsProofs` |
| `MirrorFleet` | a run over all mirrors: its budget, the drift report, the metrics | `MCMeasures` | - |
| `SecretsBridge` | the bridge's pods and GitHub's secret | `MCForges` | `GithubMirrorsProofs` |
| `CiConsole` | one session of the console: worker, HTTP threads, page | itself | `CiConsoleProofs` |
| `ConsoleTokens` | sign-in and refresh in several tabs | `MCPages` | `PagesProofs` |
| `ConsoleActions` | Stop and Re-run with the optimistic status and the click guard | `MCPages` | `PagesProofs` |
| `PullPanel` | the pull request's panel and the run's stage times | `MCPages` | `PagesProofs` |
| `PipelineGraph` | resolution of reusable workflows, matching of jobs with nodes | `MCPages` | - |
| `PollGovernor` | the canary's stand-in for `window.fetch` | `MCPages` | - |
| `RepoInventory` | a run of the inventory and its push | `MCPages` | `PagesProofs` |
| `CostExporter` | refreshes page by page, the month's bill, the token | `MCMeasures` | - |
| `PanelHealth` | checks of dashboards, scrapes, and the alert over them | `MCMeasures` | - |
| `MergeCheck` | the rows of a merge, from two trees and the commits between | `MCMeasures` | `EvalStoreProofs` |
| `ForgeRun` | vault and forge importer beside each other | `MCImporters` | (extended by `Forges`) |
| `Forges` | copier, forge importer and bridge beside each other | `MCForges` | `GithubMirrorsProofs` |
| `BrainGraph` | the users of the brain: distiller, company view, tools server, vault importer | `MCBrainGraph` | `DistillProofs` |
| `Pages` | the readers of Forgejo: the pages and the inventory | `MCPages` | `PagesProofs` |
| `Measures` | the store, the job and the merge check | `MCMeasures` | `EvalStoreProofs` |

The last five put several components into one run. These share no state but
what each model already lets others change, so a variable (`importer`, `actor`,
`user`, `reader`, `part`) says which of them moves in a behaviour; the others stand at
their start. A property of such a module says of the moving one what the
component's own property says. Their constants are arbitrary, so the proof modules
extend them and the theorems are about the joint specification; the MC modules extend
them too and add values, fairness and what all of them reach together.

### How state and actions correspond to the code

**VaultImport.** `vault` is the git repository, `brain` the graph: notes, chunk
passages, artifacts' digests, links, vectors. A pod is `phase` and what it keeps
in its volume. `CloneVault` is clone.sh, `Snapshot` snapshot.sh, `MakePlan`
build_plan with plan_chunks and plan_heal, `Embed`/`EmbedOutage` the embed step,
`ApplyPrune`, `ApplyNodes`, `ApplyUnits`, `ApplyEdges`, `ApplyHeal` one accepted
file each of apply.sh, `Refused` a file the server refuses, `Fail` a pod that
ends anywhere else. Load files are cut into `FileRows` rows, so every cut is
explored. The server is external: `Delete` removes a row with its edges, the
`Merge` operators upsert, the `Accepted` operators say what it refuses. The
snapshot's queries are one step.

**ForgeImport.** The same pod with the differences that matter: an artifact is
fetched and rewritten only if its own row is stale or it has no passage, decision
records also get a Note, threads have authors, prune files are cut by statement,
links to projects are deleted and reloaded with those agents wrote. `TokenAccess`
hides the repositories, `RefuseNothingVisible` is the refusal for that. The schema
(brain.pg) bounds the edges to a person and to a record's source, not those to a
project, so an agent that links again between prune and load leaves two of them.
Organizations take the code path of people.

**Distill.** Documents and names are numbers, in the order of their slugs. A pod
snapshots, selects up to `MaxDocuments`, submits calls while `spend` is under the
limit (`Workers` at a time, each of whose cost is added after its answer),
resolves names to topics, asks whether two names are one topic, plans deletes,
loads and state rows, and applies them in that order. The questions are part of
`MakePlan`: all are answered or at worst none is, and their cost, at most
`MaxQuestionCost` for each of `MostAsked`, goes to the same `spent` that the limit was
compared with before. `MostAsked` counts the aliases that match an extracted name,
`MergeCandidates` for every new name, and the audit; of the audit of aliases the model
has the cost only. A key whose budget is spent answers 400 to everything (`KeySpent`).

**CompanyView.** `Query` is one entry of BRAIN_QUERIES; `Distilled`, `Imported`,
`Retiered` are others' commits, at any time. `View` is build_view with the taint
rule, `PlanOf` plan_writes, `Unlink`, `DropNodes`, `LoadNodes`, `LoadEdges` the
files of apply.sh. Contents and vectors of rows are left out.

**BrainTools.** The graph is a sequence of commits. A request reads the commit it
pins, or the newest. Each upstream call may answer, fail, or be overtaken by the
request's deadline; a bot index is loaded by one request and awaited by others.

**EvalRun, EvalScores, EvalStore.** `EvalRun` has the retrieval, the control
pair, answers, verdicts, calibration and report of a job, with pacer, spend cap and
retries; `EvalScores` the arithmetic on inputs; `EvalStore` the containers around
the job: the privacy proofs, the choice and the move of the store, clone, commit,
push, rebase.

**EvalCandidates, CaseFile.** The candidates job is four steps: it selects sources
(documents are records of kind, language and length), drafts, grades, and cuts to the
quotas, one category in a step. `CaseFile` has a file as lines; `Dump` is dump_case,
`Load` and `Loads` are load_case with validate_case, and the edits are some of those that
mean the same in YAML: comments, blank lines, other quotes, literal and folded blocks with
lines indented as much or more, brackets, deeper indentation, lists that are not indented
under their key. Left out are block headers that load_case does not know (`|+`, `|2`),
texts over several lines without one, lists in lists, several spaces after a dash,
anchors and tags.

**GithubMirrors.** A release is its place in the order of `created_at`. Actions
follow reconcile_mirror and copy_release, with the budget, the count of failures
and `make_latest` computed from the run's listing. `CreateFails` covers a create
whose answer is lost and that landed, `PublishFails` a publication whose answer
is lost, `DiscardRefused` a delete that GitHub refuses, `Crash` a run past its
deadline. `ReleaseShelf` is the promise: complete releases appear one at a time,
only one in doubt goes again, `latest` moves to newer stable ones. `MirrorFleet` has
the run around it, where a mirror is how many releases it lacks.

**SecretsBridge.** Every call of a run of each of several pods, new values, new
keys, other writers. Values and seconds are numbers. A sealed box opens with the
key it was sealed for.

**CiConsole.** A run is a number, newest last; `run_signature` is abstracted to a
revision, odd while the run is active. `Discover`, `PollPage`, `Backfill`,
`CollectStale`, `ClearWatched`, `Refetch`, `EndPoll` are the worker between two
points where another thread can act; `NotModified`, `AnswerCached`,
`CopyRuns`/`StampVersion`/`Answer` and `Wake` the HTTP threads. Intervals are left
out: they decide how soon a poll comes, and here it may come at any time.
Versions count modulo `VersionCycle`, which only adds collisions.

**ConsoleTokens, ConsoleActions.** A request, what Forgejo makes of it, and its
answer are three steps. Tokens are numbered; `lock` is the Web Lock. In
`ConsoleActions` one row is the run in Forgejo, the session's copy, the page's
object and the button, each of which may be behind the one before.

**PullPanel, PipelineGraph, PollGovernor, RepoInventory.** The panel pages
through a task list that grows; polls overlap since an interval does not wait.
`PipelineGraph` has names as a word and a bracketed part. The governor withholds
or answers the view's polls, in ticks. The inventory's reads fail one by one.

**CostExporter, PanelHealth, MergeCheck.** Resources come and go between two pages of
a listing, a month is a few ticks, and the bill is summed a second time tick by tick to
compare; free primary addresses are not reported (`Unreported`), other free resources are.
Grafana is panels with queries whose results come and go; `Scrape` puts the
snapshot into the metrics store, over which `Stopped` is the alert rule. A branch and
its base are trees of paths with lines; git (diff, renames, merge) is external, each row
of the report is an operator, and what a reviewer means by a kept test is stated over
the trees and not over the diff. A link is a file whose one line is its target, which may
look like an assertion or not.

## 3. Runs

| Run (cfg, module) | Properties | Shows |
|---|---|---|
| `importers` (`MCImporters`) | CompleteRunMirrors, OwnFilesAccepted, HealKeepsText, KeepsForeignLinks (vault); ForgeRight (the same four of the forge), DeletesOnlyGone | whatever was left applied, the next complete run mirrors what it read; the server takes every file of a plan; a heal changes no text; agents' links come back; a blind token deletes nothing |
| `vault_foreign_links` (`MCImportersForeign`, `MCImporters`) | ForeignLinksComeBack | **violated**, finding 1 |
| `forge_stale` (`MCForgesStale`, `MCForges`) | TextsConverge | **violated**, finding 2 |
| `mirror_leak` (`MCForgesLeak`, `MCForges`) | AllCopied | **violated**, finding 3 |
| `console` (`CiConsole`) | CoveredUnlessFailed, AllConverge | no gap in the window while no call fails; every run is followed to its end; the page ends with the session's runs although bodies are stamped and cached under versions read later |
| `console_gap` (`CiConsoleGap`, `CiConsole`) | WindowCovered | **violated**, finding 4 |
| `console_wake` (`CiConsoleWake`, `CiConsole`) | RerunsShown | **violated**, finding 5 |
| `brain` (`MCBrainGraph`) | RecordedLinked, SpendBounded, TopicsTidy, KeepsForeignLinks (distiller); CompanySound (company view); EdgesLoadOnce (vault importer, company view); AnswersAlike, AnswersSound (tools); AllSettle | state rows never outrun links, topics stay one per concept, a run passes its spend limit by the calls in flight and the questions they lead to; the company graph is the view and no tainted topic crosses; no edge is loaded twice; two answers of one commit agree, have each text once, and every request ends; with a budget of one note and one healed row a run the graph settles on the vault, and so do distiller and company view |
| `forges` (`MCForges`) | NeverCreatesTag, ImplementsShelf (copier); CurrentIsRight (bridge); AllSettle | the copier implements the shelf; two pods of the bridge race each other and others; copier, forge importer and bridge settle |
| `distill_budget` (`MCBrainBudget`, `MCBrainGraph`) | RecordedLinked | **violated**, finding 6 |
| `pages` (`MCPages`) | TokenOnce, PageIsRight (clicks, nodes of a graph), RowsNewest (panel), BoardIsRight, AllSettle | two tabs share one sign-in; a click lands on what was shown; newest attempts in a panel whose list moves while it is read, and at their own nodes; nothing untrue on the board |
| `measures` (`MCMeasures`) | PushedWhenPrivate, ReportedIsStored, ResultsStay (store); ReportsSound, SpendCapped, JobsEnd (job); GatesHold (merge check); MeasuresTrue (the job's pace, the scores, candidates, case files, costs, panels, mirrors) | nothing private leaves and no result is lost while two pods push; published numbers are of stored results and a judge that passed; scores, gate and leak search mean what they should; what the merge check lets through keeps its promises; and what the measuring programs publish is so |

Every passing run also checks the type invariant of what moves in it.

### Bounds, and why they are enough

A pod keeps no state, so any half-applied graph is the start of a next run: one
trouble (a dead pod, an outage, an agent's write) at any step, with one edit,
reaches every kind of start, and a second adds nothing new in kind where the
property is about one run. `vault_foreign_links` needs two, `EvalStore` allows two.

- `importers`: two notes; one issue, one decision record and one author; versions
  with no, one and two chunks, so that a note grows, shrinks and loses its chunks;
  two rows a file, so that groups span files; two links of agents in the forge, so that
  one is there when the snapshot is taken and comes back between prune and load.
  Symmetry over notes is used in this run only, which checks no liveness.
- `brain`: three documents and three names of two concepts, so that names merge;
  a spend limit below the price of two calls, two workers, one candidate for a new
  topic and one question of the audit, each question at no cost or at 1; two repositories, one of
  every tier; two requests over two commits and three documents; a note with
  chunks, alone or with a link to one of two stubs, where a run may chunk one note and
  heal one row.
- `forges`: three releases of every kind, the oldest never copyable; a copy budget
  of one, so that the count of failures decides who comes next; two pods, two values
  and two seconds in the bridge, so that two writes can share a second.
- `console`: three runs, a fourth that may start or a re-run; pages of one and two
  runs, so that a page is full, a burst spans pages and a run leaves the first page.
- `pages`: two tabs and four tokens (a refresh, a sign-in and a lost answer); one
  run that changes twice; pages of one task for three tasks, so that rows move on
  while a scan reads; reusables nested to the code's depth; every public
  repository's facts one at a time beside a clean private one.
- `measures`: two pods and two pushes each in the store, so that a rebase meets
  another; two cases, of which the first commit knows one, and a cap below three
  calls; rankings of up to three of five documents, which is every order with a note
  and its twins in it; three documents and two topics that share one; two edits of
  two cases, which between them have every kind of value; a branch of two commits over four paths, one of every
  kind the check tells apart, with a link to a path that reads like an assertion; two servers, an address and a month of two hours, so
  that a resource meets its cap, the month's end and the boundary of a page; three
  panels on two dashboards, four checks, a window of two and a memory of three, so that a
  scrape leaves the memory; two repositories, at first at least one of them tracked, that lack two
  releases or none, and a budget of two copies, so that the budget runs out between
  two mirrors.

### Fairness

- Pods and runs (`PodStep`, `AnyPodStep`, `RunStep`, `Importing`, `Copying`, `Bridging`) are
  weakly fair: Kubernetes starts a run every hour, or several times an hour, and a
  live pod goes on. Faults, outages, edits and agents are bounded and not fair; a
  failing asset (`Broken`) fails in every run. `MirrorTag` is fair since the push
  mirror pushes on an interval and on commits.
- Console: the worker's steps, the page's and `Wake`'s are weakly fair, and the end
  of a run is (CI jobs have timeouts). `Discover` is strongly fair: it is possible
  only between two polls, and every cycle looks whether `REPOS_INTERVAL` has passed.
- Pages: answers come or fail (each request has a timeout or the browser's), renders
  and ticks follow their timers, a user who hid the tab shows it again. A tab's
  refresh is strongly fair, since it waits for a lock that others take and give
  back. Whether a user clicks is never assumed.

## 4. Proofs

There are 52 theorems in eight modules. A theorem holds for every value of the constants that its module's named
assumptions admit: sizes, bounds, budgets, pods, graphs and starts are arbitrary.
TLC evaluates each assumption in a passing run, on that run's constants. The types and
OnlyGoneDeleted and ClicksLand apart, no property is inductive by itself; what each needs on top is named here and stated with comments in its module. The inductive invariants were checked
with TLC on small constants before they were proved.

| Module | Theorems | Inductive invariant, and why it is needed |
|---|---|---|
| `VaultImportProofs` | `TypeCorrect`; `HealSafe` (HealKeepsText); `LinksOnce` (NoLinkLoadedTwice, a part of EdgesLoadOnce); `FilesAccepted` (OwnFilesAccepted); `RunMirrors` (CompleteRunMirrors); `ForeignKept` (KeepsForeignLinks) | `Typed`: a shadow artifact is planned only for a note the clone has. `HealInv`: a row to heal is one the plan neither writes nor deletes, so no file changes it before its load. `LinkInv`: a link to load is absent or still to be deleted by a prune. `RunInv`: a row the plan has not got to is as the snapshot has it, any other as the clone says, and what is still to be pruned or loaded finds the rows the server demands |
| `ForgeImportProofs` | `TypeCorrect`; `FilesAccepted` (OwnFilesAccepted) and `RunMirrors` (CompleteRunMirrors), parts of `RunIsRight` (ForgeRight), which adds HealKeepsText and KeepsForeignLinks; `OnlyGoneDeleted` (DeletesOnlyGone) | `GraphInv`: the rules the server keeps, and a PassageOf edge for every passage, so that a plan made from edges misses no passage. `PlanInv`: the files still to go are those of the plan that the snapshot and the collected forge make. `RowsInv`, `TextsInv`, `EdgesInv`: each row and edge is as the load left it, or gone when its delete went out, or else as the snapshot has it. `TextInv`: texts are those of the artifacts until some run stopped halfway, which is why an artifact with a fresh row need not be fetched (and why finding 2 happens after one) |
| `DistillProofs` | `TypeCorrect`; `SpendCapped` (SpendBounded); `ForeignLinksKept` (KeepsForeignLinks); `RecordedAreLinked` (RecordedLinked); `TopicsUnique` (OneTopicPerConcept); `RunTidy` (CompleteRunTidy), which together are `TopicsStayTidy` (TopicsTidy). Tools server: `AnswersAreAlike` (AnswersAlike). Of all users of the brain: `BrainTyped` (TypesOK), `CompanyIsSound` (CompanySound), `EdgesLoadedOnce` (EdgesLoadOnce) | `SpendInv`: what the calls in flight may still cost fits the overshoot, and once they are over the questions that the names read can lead to (`QuestionsCounted`: no more than that are asked, whatever is answered). `DropInv`: no topic with a foreign link of the snapshot is dropped. `GraphInv`, `UniqueInv`: links end in topics, aliases mean what their topic does, topics and planned topics are of distinct concepts. `LinkInv`: what a document's links come to in each phase, state rows last. `TidyInv`: the graph that carrying out the plan leads to. `ToolsInv` (tools): a search that pins a commit has its rows from there, all but those not yet come or refused, and its index from there or none; an entry of the cache, and whoever waits for a load, names a request that loads the index of that very commit (`Loads`), also after the entry was evicted or dropped; and past its deadline a request goes on only with an index that it did not load under its own signal (`LateInv`). `EachRuns`: a behaviour of `BrainGraph` is one of every user, so that what is proved of each holds beside the others |
| `CompanyViewProofs` | `TypeCorrect`; `EdgesClean` (EdgesLoadCleanly, the other part of EdgesLoadOnce); `TaintKept` (TaintedStaysOut) and `RunMirrors` (CompleteRunMirrors), which together are `RunIsSound` (CompanySound) | `ApplyInv`: what remains of the plan leads to the view of the answers, groups go in order, edges end in nodes; it is said of this run's plan, made from whatever an earlier one left. `MomentInv`: a link there at every moment is in the answers once its query was asked. `SteadyInv`: while nothing changes the answers are what the brain holds |
| `GithubMirrorsProofs` | `TypeCorrect`; `OnlyComplete` (PublicComplete); `TagsFirst` (NeverCreatesTag); `LatestForward` (LatestMovesForward); `ShelfRefined` (ImplementsShelf). Bridge: `BridgeTypeCorrect`; `CurrentHasTheValue`. Of `Forges`: `AllTyped` (TypesOK); `BridgeIsRight` (CurrentIsRight); `ImporterIsRight` (ForgeRight); `ImporterDeletesGone` (DeletesOnlyGone) | `CopyInv`: the release being copied is one the run listed, with a tag it saw, a draft until it is published, and no other missing one has been created meanwhile. `StableInv`: stable releases on GitHub are stable on Forgejo and in the listing. The refinement maps what a visitor sees (`Shown`), the release a run is about to discard although it is public (`InDoubt`) and `latest` to the shelf's variables; each action is a shelf step or a stutter. Bridge: `StateInv`, `PodInv`: what the ConfigMap and each pod have recorded is no newer than the last write, and is of its value when it is of its second, as long as no write got lost in the second of another. `EachRuns` as above |
| `CiConsoleProofs` | `TypeCorrect`; `NoGap` (CoveredUnlessFailed) | `TopInv`: runs are numbered without a gap. `PhaseInv`: where the worker is and what it has then. `GapInv`: a first load leaves no gap above the pages it has read, although new runs push others to later pages, and a later poll adds only runs above those it had |
| `EvalStoreProofs` | Store: `TypeCorrect`; `NothingLeaks` (PushedWhenPrivate); `ReportsAreTrue` (ReportedIsStored); `NothingIsLost` (ResultsStay). Job: `ShownIsSound` (ReportsSound); `SpendStaysCapped` (SpendCapped). Merge check: `GatesAlwaysHold` (GatesHold) | `PodInv`: what each pod's clone and commit hold at its place in the containers' order. `StoreInv`: results are numbered apart, and the marker of the move stands only over a branch that exists. `JobInv`: what a job holds at each of its places, which reads it has made of all there are, the verdicts of the control pair and the verdicts lost, so that a report finds a whole document and a judge that passed. `ShownInv`: what is shown as valid was made so, by this job or an earlier one. `CapInv`: a job passes its cap with one call at most. `MergeInv`: types, and a branch that is not behind has the base it started from; the rest is about the rows, as functions of the trees |
| `PagesProofs` | Tokens: `TokensTyped`; `SpentOnce` (TokenOnce). Actions: `ClicksLand` (a part of PageIsRight). Panel: `RowsAreNewest` (RowsNewest). Inventory: `BoardTrue` (BoardIsRight) | `LockInv`: only the holder of the lock refreshes. `FreshInv`: tokens on their way to localStorage are new and of one tab. `SpentInv`: stored tokens that were presented are the holder's, or their answer never came. `PanelInv`: a poll has read every task from the newest there was at its start down to some number (`ReadDownTo`), since tasks that come in between push rows only to pages it has not read, where it reads some twice and misses none; so the newest it has of a job is the newest there was. `ReadInv`: what the inventory has read of a repository is so or is marked unread, and it goes through all of them |

Hypotheses a reader should know of, beside the types of the constants:

- `DigestAssumption` (vault): notes with the same digest have the same chunks.
- `SourceAssumption` (company view): repositories, projects, artifacts, records and
  vault notes are different rows of the graph.
- `ConsoleAssumption`: `Old`, the runs that started before the window, are the
  oldest ones. `NoGap` assumes `WindowFits` as well: the 24 hours fit into
  `MAX_PAGES` pages. The code stops after them.
  CoveredUnlessFailed itself leaves out failed calls (finding 4) and bursts longer
  than a page (section 6).
- `ForgeAssumption`: decision records are documents, documents and threads are
  different rows, and no version, text or person is `None`.
- `BridgeAssumption`: `"someone"` is no pod, only the name of the other writers.
- `ToolsAssumption`: what a request may ask is a question (profile, pin, terms, rerank,
  note), there is a first commit, and `"timer"` is no request. Nothing is assumed of what
  commits hold, of rankings, weights or scores.
- `EvalAssumption`: there are profiles, cases, answers and commits, and one of the costs of
  a call is the highest. `MergeAssumption`: contents are files and links of finitely many
  lines; nothing is assumed of the line of a link. `PanelAssumption`: a
  page has a number of rows. `InventoryAssumption`: some packages are looked at.
- In the modules that put several components together the assumptions of the components
  are hypotheses of the theorems, with the constants they have there; the MC modules state
  the same as assumptions, so TLC evaluates them on the values of the run.
- `RecordedAreLinked` is `Spec /\ []~keySpent => []RecordedLinked`: as long as the
  budget of the key lasts. Finding 6 is what happens otherwise, and `brain`, which
  checks it without that hypothesis, has `MaxKeySpent = 0`.

### What is only model-checked, and why

- Liveness (`AllConverge`, `JobsEnd`, each AllSettle): fairness and ENABLED are
  outside this prover.
- `EvalScores`, `PipelineGraph` (the nodes' part of PageIsRight), `CaseFile`, the sums of
  `CostExporter` and the ranking in `BrainTools`
  (AnswerShape, the other part of AnswersSound): what a recursive definition, a sort or a
  fold computes for every input needs induction over data, which the prover cannot instantiate.
  The pace of a job (PaceKept) sums the tokens of a window in the same way.
- That no request of `BrainTools` is stuck (NobodyStuck, a part of AnswersSound) says
  ENABLED.
- `PollGovernor`, `EvalCandidates`,
  `PanelHealth` and `MirrorFleet` (MeasuresTrue): no proof yet; see section 7.
- TypesOK of `pages` and `measures`, which type these modules as well. The parts of the
  components with proofs are theorems there.

## 5. Findings

1. `vault_foreign_links`: a relink deletes all links of a note and reloads those to
   foreign nodes from the run's own snapshot. A run that dies in between has lost
   them; the runbook says a failed run repairs itself on the next one.
2. `forge_stale`: an artifact's row loads before its passages and alone decides
   whether the artifact is up to date. A pod that dies in between leaves stale
   passages until the source changes again.
3. `mirror_leak`: a draft left behind by a refused delete, a lost answer or a dead
   run has its tag and counts as copied for ever.
4. `console_gap`: a failed page during the first load counts as a load; the rest of
   the 24 hours is never read.
5. `console_wake`: refresh_watched reads the watched set and then clears it; a wake
   in between is lost and the re-run of an older run is not shown.
6. `distill_budget`: LiteLLM answers 400 when the budget of the key is spent, which
   the distiller takes for a document the model refuses: it deletes the document's
   links, records it as distilled, and no later run sends it again.

## 6. Other disagreements met while modelling

Not runs of their own. Where a definition is named, the module states what the doc
says, and the property that is checked is what holds instead.

- Vault budget. A note whose only artifact link goes to an agent's artifact stays in
  every run's work list (`vault_import.py:556-570`, `:584-586`) though nothing is
  written for it; as many of them as the budget would keep every other note out,
  against omnigraph.md:266. `Settled` has the condition `Cardinality(Opposed(brain))
  < NotesChunkedPerRun`.
- Release copier. A publication whose answer is lost is discarded: a release that
  was public goes until the next run copies it again. The shelf allows that step.
- Console bursts. backfill(repo, 1, True) stops with its first page
  (`ci_console_api.py:277-285`, `:312`): more new runs between two polls than a page
  holds leave a gap, against forgejo-ci-console.md:93-113.
- Secrets bridge. A write by somebody else between the PUT and the read of its second,
  or in the same second, is taken for the bridge's own (github-app-ploeg-hq.md:218-223
  says that it is written again).
- Tools server. An index that could not be loaded changes the answer and the answer
  does not say so (`PinnedReproducible`, omnigraph.md:646); a request may wait for a
  cold head cache for four deadlines of others (rfc-brain-retrieval.md:311).
- Distiller. The spend limit is compared before an extraction only. The questions whether
  two names are one topic (`distill.py:534`, `:578`, `:800`) follow the extractions and add
  to the same counter (`:375`), so a run that has reached its limit goes on paying
  (`SpendWithinLimit`, omnigraph.md:451). `SpendBounded` says how far.
- Company view. Read across several commits, a topic that was mixed at every moment
  can pass (`TaintRule`, omnigraph.md:682). TaintedStaysOut is what holds.
- Evaluation. The marker of the move is written only by the run that pushes an existing
  provisional store, and last: after a run that died before it, or when the repository
  had a main already, a run that cannot reach the repository does not fail but writes to
  the provisional store (omnigraph.md:561); a run that is reported invalid may have
  stored results (prometheusrule.yaml:86); the paraphrases of one case may fall into
  both halves of a split; a candidate's own document can be cut from its expected list
  by other documents that the judge grades 2.
- Case files. What looks like a comment inside a list in brackets cuts the list, in quotes
  too (`brain_eval.py:261-263`), and a comment after a key keeps the reader from the value
  below the key (`:411`), and a list that is not indented under its key is not taken for one
  (`:333`, `:399`). All three end in a refusal of a file YAML allows; `FilesRead` says
  that of the edits modelled nothing else is refused. One form is not refused and misread
  (`NeverMisread`, test_omnigraph_brain_eval.py:445): a folded block keeps its line breaks
  in YAML beside a line that is indented more, and the reader makes them spaces
  (`:320-321`). `FilesRead` says that no more than such breaks is lost.
- Mirrors. A token that cannot be revoked raises after its copies were made, so they are
  not taken from the budget and a run may make more than its 40 (github-mirrors.md:28). A
  run without the App's credentials sets the time of the last success though it read no
  mirror.
- Cost exporter. `api_authorized` is 0 from the start, or after a missing token, until a
  call succeeds, so the alert for a rejected token may fire when no call gets out at all. A
  resource deleted between two pages hides the next one from that refresh.
- Panel check. An error page in JSON without results reads as an empty panel; a dashboard
  that could not be read still leaves a full check; and a failed listing exports the old
  results again, so that one dark check can look like three hours of darkness. A dashboard
  that cannot be read (`panel_health_exporter.py:276-280`) also takes away what says that
  empty is fine, while the scrapes of the last hours and days still count, so a panel that
  declares itself healthy when empty is alerted about (`NeverAlertsOnEmpty`,
  information-radiators.md:249). `AlertsTrue` says that this is the only way.
- Merge check. A test that becomes a symbolic link is a change of type, which neither the
  deleted nor the edited tests look for (`merge_check.py:240-243`), and a link whose target
  reads like an assertion (`:71`, assert_helpers.py) stands in for the assertion it took:
  every row passes (`NoTestDeleted`, merge.md:51). `TestsKept` says that no more than the
  number of such lines is kept. Work that landed squashed is not recognised as landed; a line that softens
  a gate, in a file renamed into the gate's path, is no addition. `GatesHold` says what is
  promised without them.
- Sign-in. Any answer that is not ok, a 502 too, signs every tab out
  (forgejo-ci-console.md:43-47); a tab that comes back from the authorize screen stores
  its tokens without the lock, and another's failed refresh takes them away.
- Actions. A double click before the render posts twice; a second action on an
  optimistic row is dropped by the next snapshot; a 304 keeps an optimistic status
  past its 20 s.
- Panel. Polling stops when the tasks there are are terminal, although later jobs have
  none yet (`HonestTab`, wg-pipeline.js:1021); a run pushed past 300 rows is polled for
  ever; a failed last read clears the stage times and stops; of overlapping polls the
  last answer wins, whatever it had read.
- Graph of a run. `seen` is shared among siblings, so a reusable called twice is
  resolved once (against :231-237); names that are a prefix of others, equal legs of a
  reusable's matrix, and legs shared by two callers go to the wrong node or to none.
  `NodesGetTheirs` says what holds where names leave nothing open.
- Poll governor. A deleted artifact may be shown again for up to 15 s
  (`DeletionShown`, forgejo.md:245-287).
- Inventory. A package whose tags could not be read counts as not behind, so a
  repository that drifts is called under control until the next run (`UnderControl`,
  delivery-estate.md:124-125); the order of the verdicts differs from the doc's.

## 7. Not modelled, and the plan

Left out of the modelled components: formatting, markdown, ndjson, prompts, labels of
metrics, HTTP retries inside a call, and the paging of the importers' and the copier's
listings (an incomplete listing raises and ends the run, which is `Fail`). No property
depends on how long something takes but for the pacer's window, deadlines, the governor's
and the bill's ticks and the seconds of the bridge, which are counted. The second worker
two requests can start for one console session, several repositories in parallel lanes,
what the audit of the distiller's aliases drops, the aliases that the language model itself
offers, and bulk actions of the page are not in the models.

Next, in order:

1. Proofs: `MirrorFleet` (its budget and its metrics), `PanelHealth`; the types of these.
2. `GraphWrites`: two writers and one server, `read_set_conflict`, retries and
   timed-out writes that land late.
3. `Mirror`: what every importer promises, a run takes the graph to the source it
   collected in steps that never touch what others own, with `VaultImport` and
   `ForgeImport` shown to implement it.
4. The rehearsal of a schema change (`src/scripts/omnigraph_rehearsal.py`) and the delivery dashboards
   (`src/scripts/dashboards`), as functions of what they read.
5. Scrub, restore drills and the WireGuard reconciler.
