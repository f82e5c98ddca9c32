--------------------------- MODULE RepoInventory ---------------------------
(***************************************************************************)
(* The repository configuration inventory (src/kubernetes/apps/repo-config/ *)
(* repo-config/inventory/repo_config_inventory.py): once an hour a pod     *)
(* lists the organisation's repositories, reads the releases of the shared *)
(* packages, the files and the Dependency Dashboard of every repository,   *)
(* and the open updates of those that are behind, and pushes one verdict   *)
(* for each to the board.  Some reads may fail without the run failing.    *)
(*                                                                         *)
(* What a repository's files say is a record of facts; a pin is "none",    *)
(* "unversioned", or how many releases it is behind: "old" by three or     *)
(* more, "late" by less, "newest" by none.  The forge changes between the  *)
(* runs; what changes while it is read shows with the next.                *)
(***************************************************************************)
EXTENDS Naturals, FiniteSets

CONSTANTS
  Repositories, Private,    \* those of the organisation, and its private ones
  Packages,                 \* SHARED_PACKAGES
  FirstFacts,               \* what the files of the repositories may say at first: a set of functions
  LaterFacts,               \* and what those of one may come to say
  MaxChanges, MaxTroubles   \* bounds

VARIABLES
  facts,     \* Forgejo, and the model
  token,     \* whether the token sees private repositories
  step,      \* what the pod does
  active,    \* the repositories it has listed
  latest,    \* the packages whose releases it has, once it asked
  scans,     \* what it read of each repository
  updates,   \* and of the updates of each
  board,     \* the last push: a verdict for each repository, and the state of its updates
  changes, inventoryTroubles

inventoryVars == <<facts, token, step, active, latest, scans, updates, board, changes, inventoryTroubles>>

Pins == {"none", "unversioned", "old", "late", "newest"}

\* "unread" stands for a dashboard that could not be read.
Dashboards == {"none", "clean", "errors", "approve", "queued", "rebase"}
Pulls      == {"none", "success", "failure", "error", "pending"}

Facts == [gate : BOOLEAN, topic : BOOLEAN, absent : BOOLEAN, dashboard : Dashboards,
          pins : [Packages -> Pins], pull : Pulls]

InventoryAssumption ==
  /\ Packages # {}
  /\ FirstFacts \subseteq [Repositories -> Facts] /\ LaterFacts \subseteq Facts

Unread   == "unread"
NoBoard  == [r \in {} |-> Unread]
Unlisted == [r \in {} |-> Unread]

Init ==
  /\ facts \in FirstFacts
  /\ token \in {"full", "public"}
  /\ step = "idle" /\ active = {} /\ latest = {} /\ scans = Unlisted /\ updates = Unlisted
  /\ board = [verdicts |-> NoBoard, updates |-> NoBoard, releases |-> {}]
  /\ changes = 0 /\ inventoryTroubles = 0

Trouble == inventoryTroubles < MaxTroubles /\ inventoryTroubles' = inventoryTroubles + 1

World == <<facts, token, changes>>

-----------------------------------------------------------------------------
(* The forge. *)

Change ==
  /\ step = "idle" /\ changes < MaxChanges /\ changes' = changes + 1
  /\ \/ \E r \in Repositories : \E f \in LaterFacts : facts' = [facts EXCEPT ![r] = f]
        /\ UNCHANGED token
     \/ token' = (IF token = "full" THEN "public" ELSE "full") /\ UNCHANGED facts
  /\ UNCHANGED <<step, active, latest, scans, updates, board, inventoryTroubles>>

-----------------------------------------------------------------------------
(* run. *)

\* Mutant: what a run has read is kept for the next.
EndsWithScans == step' = "idle" /\ active' = {} /\ latest' = {} /\ UNCHANGED <<scans, updates>>

Ends == step' = "idle" /\ active' = {} /\ latest' = {} /\ scans' = Unlisted /\ updates' = Unlisted

\* The pod fails, or dies.
RunFails == step # "idle" /\ Trouble /\ Ends /\ UNCHANGED <<World, board>>

Visible == IF token = "full" THEN Repositories ELSE Repositories \ Private

\* The model has private repositories, so a token that sees none is a wrong one.
Credible == Private = {} \/ Visible \cap Private # {}

ListOrgRepositories ==
  /\ step = "idle"
  /\ IF Credible THEN step' = "latest" /\ active' = Visible ELSE UNCHANGED <<step, active>>
  /\ latest' = {} /\ scans' = Unlisted /\ updates' = Unlisted
  /\ UNCHANGED <<World, board, inventoryTroubles>>

\* latest_releases: a package whose tags cannot be read has no releases.
LatestReleases ==
  /\ step = "latest" /\ step' = "scan"
  /\ \/ latest' = Packages /\ UNCHANGED inventoryTroubles
     \/ Trouble /\ \E p \in Packages : latest' = Packages \ {p}
  /\ UNCHANGED <<World, active, scans, updates, board>>

Listed(f, r, value) == [x \in DOMAIN f \cup {r} |-> IF x = r THEN value ELSE f[x]]

ReadOf(r, dashboard) == [gate |-> facts[r].gate, dashboard |-> dashboard, pins |-> facts[r].pins]

\* Mutant: a dashboard that cannot be read is none.
NoDashboard == "none"

DashboardUnread == Unread

\* scan_repository: the files, any of which may fail the scan; the dashboard fails alone.
ScanRepository(r) ==
  /\ step = "scan" /\ r \in active \ DOMAIN scans
  /\ \/ scans' = Listed(scans, r, ReadOf(r, facts[r].dashboard)) /\ UNCHANGED inventoryTroubles
     \/ Trouble /\ scans' = Listed(scans, r, ReadOf(r, DashboardUnread))
     \/ Trouble /\ scans' = Listed(scans, r, [ReadOf(r, Unread) EXCEPT !.gate = FALSE, !.pins = [p \in Packages |-> Unread]])
  /\ UNCHANGED <<World, step, active, latest, updates, board>>

Scanned(r) == \A p \in Packages : scans[r].pins[p] # Unread

Scan ==
  \/ \E r \in active : ScanRepository(r)
  \/ /\ step = "scan" /\ active \subseteq DOMAIN scans /\ step' = "updates"
     /\ UNCHANGED <<World, active, latest, scans, updates, board, inventoryTroubles>>

\* releases_behind: unknown without releases or without a versioned pin.
Behind(pin, known) == IF known THEN IF pin = "old" THEN 3 ELSE IF pin = "late" THEN 1 ELSE 0 ELSE 0

BehindPackages(r) == {p \in Packages : Scanned(r) /\ Behind(scans[r].pins[p], p \in latest) > 0}

CheckState(pull) ==
  IF pull = "success" THEN "pr_green" ELSE IF pull \in {"failure", "error"} THEN "pr_red" ELSE "pr_pending"

\* dashboard_waits: what is listed with a pull request of its own does not wait.
Waits(dashboard) ==
  IF dashboard = "approve" THEN "awaits_approval" ELSE IF dashboard = "queued" THEN "queued" ELSE "no_pr"

UpdateStatus(pull, dashboard) == IF pull # "none" THEN CheckState(pull) ELSE Waits(dashboard)

HasUpdates == {r \in active : BehindPackages(r) # {} /\ scans[r].dashboard # Unread}

\* read_update_statuses: a repository whose pull requests cannot be read has none.
ReadUpdate(r) ==
  /\ step = "updates" /\ r \in HasUpdates \ DOMAIN updates
  /\ \/ updates' = Listed(updates, r, UpdateStatus(facts[r].pull, scans[r].dashboard)) /\ UNCHANGED inventoryTroubles
     \/ Trouble /\ updates' = Listed(updates, r, Unread)
  /\ UNCHANGED <<World, step, active, latest, scans, board>>

ReadUpdateStatuses ==
  \/ \E r \in active : ReadUpdate(r)
  \/ /\ step = "updates" /\ HasUpdates \subseteq DOMAIN updates /\ step' = "push"
     /\ UNCHANGED <<World, active, latest, scans, updates, board, inventoryTroubles>>

-----------------------------------------------------------------------------
(* control_state: the first check that fails is the verdict. *)

Verdict(absent, gate, topic, dashboard, unversioned, worst) ==
  IF absent THEN "opted out"
  ELSE IF ~gate THEN "no renovate"
  ELSE IF ~topic THEN "not scheduled"
  ELSE IF dashboard = Unread THEN Unread
  ELSE IF dashboard = "none" THEN "no dashboard"
  ELSE IF dashboard = "errors" THEN "renovate errors"
  ELSE IF dashboard = "approve" THEN "parked"
  ELSE IF unversioned \/ worst >= 3 THEN "drifting" ELSE "under control"

ControlState(r) ==
  IF ~Scanned(r) THEN Unread
  ELSE Verdict(facts[r].absent, scans[r].gate, facts[r].topic, scans[r].dashboard,
               \E p \in Packages : scans[r].pins[p] = "unversioned",
               IF \E p \in BehindPackages(r) : scans[r].pins[p] = "old" THEN 3 ELSE 0)

\* record_scans and Metrics.push: all of it or nothing; the board shows the last push.
Push ==
  /\ step = "push" /\ Ends
  /\ board' = [verdicts |-> [r \in active |-> ControlState(r)], updates |-> updates, releases |-> latest]
  /\ UNCHANGED <<World, inventoryTroubles>>

RunStep == ListOrgRepositories \/ LatestReleases \/ Scan \/ ReadUpdateStatuses \/ Push

Next == RunStep \/ RunFails \/ Change

Spec == Init /\ [][Next]_inventoryVars

\* The CronJob runs every hour.
FairSpec == Spec /\ WF_inventoryVars(RunStep)

-----------------------------------------------------------------------------
(* Properties. *)

TypeOK ==
  /\ facts \in [Repositories -> Facts] /\ active \subseteq Repositories /\ latest \subseteq Packages
  /\ DOMAIN scans \subseteq active /\ DOMAIN updates \subseteq active
  /\ step \in {"idle", "latest", "scan", "updates", "push"}
  /\ DOMAIN board.verdicts \subseteq Repositories

\* The verdict and the update state that a repository has.
TrueVerdict(r) ==
  Verdict(facts[r].absent, facts[r].gate, facts[r].topic, facts[r].dashboard,
          \E p \in Packages : facts[r].pins[p] = "unversioned", IF \E p \in Packages : facts[r].pins[p] = "old" THEN 3 ELSE 0)

TrueUpdate(r) == UpdateStatus(facts[r].pull, facts[r].dashboard)

\* What is pushed has a verdict for every repository of the organisation, and a verdict
\* or an update state is the one the repository has, or says that it could not be read,
\* whichever reads failed; unless the releases of a package are among them.
BoardIsRight ==
  [][board' # board =>
       /\ DOMAIN board'.verdicts = Repositories
       /\ board'.releases = Packages =>
            /\ \A r \in Repositories : board'.verdicts[r] \in {Unread, TrueVerdict(r)}
            /\ \A r \in DOMAIN board'.updates : board'.updates[r] \in {Unread, TrueUpdate(r)}]_board

\* "under control (Renovate runs, nothing waits for a tick, every shared pin is versioned
\* and fewer than three releases behind)": does not hold.  A package whose tags cannot be
\* read has no releases, so no repository is behind it.
UnderControl ==
  [][board' # board => \A r \in DOMAIN board'.verdicts :
       board'.verdicts[r] = "under control" => TrueVerdict(r) = "under control"]_board

\* Once the forge rests, the token is right and reads succeed, the board is right.
Settled ==
  token = "full" => \A r \in Repositories : r \in DOMAIN board.verdicts /\ board.verdicts[r] = TrueVerdict(r)

=============================================================================
