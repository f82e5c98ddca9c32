----------------------------- MODULE MirrorFleet -----------------------------
(***************************************************************************)
(* A run of the GitHub mirrors' reconciler over all repositories           *)
(* (src/kubernetes/apps/github-config/github-mirrors/app): it reads the    *)
(* model of repositories, checks every tracked mirror with a token of its  *)
(* own and one budget of copies for all, compares what is mirrored with    *)
(* what the model names, and pushes what it found, whatever went wrong.    *)
(*                                                                         *)
(* What the run does to the releases of one mirror is GithubMirrors; here  *)
(* a mirror is how many of its releases could be copied.  A repository has *)
(* one name on both forges.                                                *)
(***************************************************************************)
EXTENDS Integers, FiniteSetsExt, Functions

CONSTANTS
  Repositories,
  Missing,      \* how many releases a mirror may lack
  CopyBudget,   \* MAX_RELEASE_COPIES_PER_RUN
  MaxRuns, MaxEdits, MaxTroubles  \* bounds

VARIABLES
  model,      \* repos.yaml: each repository's GitHub entry
  sources,    \* repositories on Forgejo that are no pull mirrors
  public,     \* public repositories on GitHub that are no forks
  pushed,     \* repositories Forgejo pushes to GitHub
  lacking,    \* the releases a mirror lacks
  app, token, \* the credentials of GitHub and Forgejo
  step, entries, mirrors, names, budget, failures, found,  \* the run; names: repositories on Forgejo
  metrics,    \* what the metrics store has
  copies, unaccounted, edited,  \* history of the run: copies, those the budget has not seen, and any edit
  runs, edits, troubles

forgeVars  == <<model, sources, public, pushed, lacking, app, token>>
fleetRun   == <<step, entries, mirrors, names, budget, failures, found>>
fleetVars  == <<forgeVars, fleetRun, metrics, copies, unaccounted, edited, runs, edits, troubles>>

\* A GitHub entry of the model may name what it mirrors, and may be archived.
Entries == {"none", "plain", "mirror", "archived"}

Unknown == [credentials |-> FALSE, success |-> FALSE, ok |-> {}, broken |-> {}, noAccess |-> {},
            missing |-> [r \in Repositories |-> 0], knownGithub |-> FALSE, knownForgejo |-> FALSE,
            driftGithub |-> {}, driftForgejo |-> {}]

Init ==
  /\ model \in [Repositories -> {"none", "mirror", "archived"}] /\ sources = Repositories
  /\ public = Repositories /\ pushed \in {Repositories, {}}
  /\ lacking \in [Repositories -> {0, Missing}]
  /\ app \in BOOLEAN /\ token \in BOOLEAN
  /\ step = "idle" /\ entries = [r \in Repositories |-> "none"] /\ mirrors = {} /\ names = {} /\ budget = 0 /\ failures = 0
  /\ found = Unknown /\ metrics = Unknown
  /\ copies = 0 /\ unaccounted = 0 /\ edited = FALSE
  /\ runs = 0 /\ edits = 0 /\ troubles = 0

-----------------------------------------------------------------------------
(* The run. *)

\* tracked_mirrors
Tracked(text) == {r \in Repositories : text[r] = "mirror"}

Trouble == troubles < MaxTroubles /\ troubles' = troubles + 1

\* Metrics are pushed at the end of every run, also one that failed.
End(told) ==
  /\ step' = "idle" /\ metrics' = told /\ found' = told
  /\ UNCHANGED <<entries, mirrors, names, budget, failures>>

\* Without the App's credentials the run ends well and has read nothing of GitHub.
Start ==
  /\ step = "idle" /\ runs < MaxRuns /\ runs' = runs + 1
  /\ copies' = 0 /\ unaccounted' = 0 /\ edited' = FALSE
  /\ IF app
     THEN /\ step' = "mirrors" /\ entries' = model /\ mirrors' = Tracked(model)
          /\ budget' = CopyBudget /\ failures' = 0 /\ found' = [Unknown EXCEPT !.credentials = TRUE]
          /\ UNCHANGED <<names, metrics>>
     ELSE End([Unknown EXCEPT !.success = TRUE])
  /\ UNCHANGED <<forgeVars, edits, troubles>>

\* The model cannot be read, or OpenBao does not answer.
StartFails ==
  /\ step = "idle" /\ runs < MaxRuns /\ runs' = runs + 1 /\ Trouble
  /\ copies' = 0 /\ unaccounted' = 0 /\ edited' = FALSE
  /\ End(Unknown)
  /\ UNCHANGED <<forgeVars, edits>>

First == CHOOSE r \in mirrors : TRUE
Checked(r) == step = "mirrors" /\ mirrors # {} /\ r = First /\ mirrors' = mirrors \ {r}

\* Copies, oldest first, while there is budget; `refused` of them fail, or wait for their tag.
Copied(r, refused) == Max({0, Min({budget, lacking[r] - refused})})

Reconcile(r) ==
  /\ Checked(r) /\ r \in sources
  /\ \E refused \in 0..lacking[r] :
       /\ IF refused = 0 THEN UNCHANGED troubles ELSE Trouble
       /\ LET copied == Copied(r, refused) IN
          /\ budget' = budget - copied /\ copies' = copies + copied
          /\ lacking' = [lacking EXCEPT ![r] = @ - copied]
          /\ found' = [found EXCEPT !.ok = @ \cup {r}, !.missing[r] = lacking[r] - copied]
  /\ UNCHANGED <<model, sources, public, pushed, app, token, step, entries, names, failures, metrics, unaccounted, edited, runs, edits>>

\* The installation does not cover the repository.
NoAccess(r) ==
  /\ Checked(r) /\ r \in sources /\ Trouble
  /\ found' = [found EXCEPT !.ok = @ \cup {r}, !.noAccess = @ \cup {r}]
  /\ UNCHANGED <<forgeVars, step, entries, names, budget, failures, metrics, copies, unaccounted, edited, runs, edits>>

\* The repository is gone, or a call fails; one that revokes the token does so after the copies were made, and the
\* budget does not learn of them.
ReconcileFails(r) ==
  /\ Checked(r) /\ failures' = failures + 1
  /\ \/ /\ IF r \in sources THEN Trouble ELSE UNCHANGED troubles
        /\ found' = [found EXCEPT !.broken = @ \cup {r}]
        /\ UNCHANGED <<lacking, copies, unaccounted>>
     \/ r \in sources /\ Trouble /\ LET copied == Copied(r, 0) IN
        /\ found' = [found EXCEPT !.broken = @ \cup {r}, !.missing[r] = lacking[r] - copied]
        /\ lacking' = [lacking EXCEPT ![r] = @ - copied]
        /\ copies' = copies + copied /\ unaccounted' = unaccounted + copied
  /\ UNCHANGED <<model, sources, public, pushed, app, token, step, entries, names, budget, metrics, edited, runs, edits>>

\* Repositories of both forges that the model does not name on GitHub.
DriftedGithub(rs)  == {r \in rs \cap sources : entries[r] = "none"}
\* Repositories that are pushed to GitHub and that no entry mirrors, archived ones neither.
DriftedForgejo(rs) == {r \in rs \cap pushed : entries[r] \notin {"mirror", "archived"}}

DriftGithub ==
  /\ step = "mirrors" /\ mirrors = {}
  /\ step' = "drift" /\ names' = sources
  /\ \/ found' = [found EXCEPT !.knownGithub = TRUE, !.driftGithub = DriftedGithub(public)] /\ UNCHANGED troubles
     \/ Trouble /\ UNCHANGED found
  /\ UNCHANGED <<forgeVars, entries, mirrors, budget, failures, metrics, copies, unaccounted, edited, runs, edits>>

Verdict(told, failed) == [told EXCEPT !.success = (failed = 0)]

\* Push mirrors are read repository by repository; those that are gone or may not be read are left out.
DriftForgejo ==
  /\ step = "drift"
  /\ \E readable \in SUBSET (names \cap sources) :
       /\ IF readable = names \cap sources \/ ~token THEN UNCHANGED troubles ELSE Trouble
       /\ End(Verdict(IF token THEN [found EXCEPT !.knownForgejo = (readable = names), !.driftForgejo = DriftedForgejo(readable)]
                      ELSE found, failures))
  /\ UNCHANGED <<forgeVars, copies, unaccounted, edited, runs, edits>>

\* Forgejo fails while its repositories are listed or their push mirrors read.
DriftFails ==
  /\ (step = "mirrors" /\ mirrors = {}) \/ step = "drift"
  /\ Trouble /\ End(Verdict(found, failures + 1))
  /\ UNCHANGED <<forgeVars, copies, unaccounted, edited, runs, edits>>

\* The pod's deadline ends it, and nothing is pushed.
Crash ==
  /\ step # "idle" /\ Trouble /\ step' = "idle" /\ found' = Unknown
  /\ UNCHANGED <<forgeVars, entries, mirrors, names, budget, failures, metrics, copies, unaccounted, edited, runs, edits>>

RunStep ==
  \/ Start \/ StartFails \/ DriftGithub \/ DriftForgejo \/ DriftFails \/ Crash
  \/ \E r \in Repositories : Reconcile(r) \/ NoAccess(r) \/ ReconcileFails(r)

-----------------------------------------------------------------------------
(* People. *)

Edit ==
  /\ edits < MaxEdits /\ edits' = edits + 1 /\ edited' = TRUE
  /\ \E r \in Repositories :
       \/ (\E e \in Entries : model' = [model EXCEPT ![r] = e]) /\ UNCHANGED <<sources, public, pushed, lacking>>
       \/ pushed' = (IF r \in pushed THEN pushed \ {r} ELSE pushed \cup {r}) /\ UNCHANGED <<model, sources, public, lacking>>
       \/ public' = (IF r \in public THEN public \ {r} ELSE public \cup {r}) /\ UNCHANGED <<model, sources, pushed, lacking>>
       \/ sources' = sources \ {r} /\ UNCHANGED <<model, public, pushed, lacking>>
       \/ lacking' = [lacking EXCEPT ![r] = Missing] /\ UNCHANGED <<model, sources, public, pushed>>
  /\ UNCHANGED <<app, token, fleetRun, metrics, copies, unaccounted, runs, troubles>>

Next == RunStep \/ Edit

-----------------------------------------------------------------------------
(* Properties. *)

TypeOK ==
  /\ model \in [Repositories -> Entries] /\ sources \subseteq Repositories /\ public \subseteq Repositories /\ pushed \subseteq Repositories
  /\ lacking \in [Repositories -> 0..Missing] /\ step \in {"idle", "mirrors", "drift"}
  /\ mirrors \subseteq Repositories /\ names \subseteq Repositories /\ budget \in 0..CopyBudget /\ failures \in 0..(Cardinality(Repositories) + 1)

\* A run copies no more than its budget, beyond what it copied for mirrors whose token it
\* could not give back.
WithinBudget == copies <= CopyBudget + unaccounted

\* A run that ended in quiet has told the truth: every tracked mirror was checked or is
\* named as broken, one without missing releases has none, and a repository is called
\* drifted exactly if it is, where the forge could be read.
Told ==
  step = "idle" /\ ~edited /\ metrics = found /\ metrics.credentials =>
    /\ metrics.ok \cup metrics.broken \subseteq Tracked(entries)
    /\ metrics.success => metrics.ok = Tracked(model)
    /\ \A r \in metrics.ok \ metrics.noAccess : metrics.missing[r] = lacking[r]
    /\ metrics.knownGithub => metrics.driftGithub = {r \in public \cap sources : model[r] = "none"}
    /\ metrics.knownForgejo /\ pushed \subseteq sources => metrics.driftForgejo = {r \in pushed : model[r] \in {"none", "plain"}}
    /\ metrics.driftForgejo \subseteq {r \in pushed : model[r] \in {"none", "plain"}}

FleetRight == WithinBudget /\ Told
=============================================================================
