----------------------------- MODULE PullPanel -----------------------------
(***************************************************************************)
(* The pipeline panel of a pull request and the stage times of a run       *)
(* (src/kubernetes/apps/forgejo/forgejo/app/custom/wg-pipeline.js, initPR  *)
(* and followRunTimings).  Both page through Forgejo's list of tasks,      *)
(* newest first and of the whole repository, which grows while they read;  *)
(* both poll with an interval that does not wait for the last answer.      *)
(*                                                                         *)
(* `tasks` holds the list oldest first, so that a task keeps its number.   *)
(* Its run is 0 for a task of another commit; a job has a task once it has *)
(* started, and another one each time it is run again.                     *)
(***************************************************************************)
EXTENDS Naturals, Sequences, FiniteSets, FiniteSetsExt

CONSTANTS
  Jobs, Needs,            \* the workflow: its jobs, and the jobs each needs
  PageSize, MaxPages,     \* 50 and 6 in the code
  NoneTries, FlatTries,   \* 6 and 40
  MaxRuns, MaxTasks,      \* bounds: runs of the commit, tasks in the list
  MaxScans, MaxLost       \* bounds: polls at a time, answers that fail

VARIABLES
  view,      \* the page: a pull request's, or that of the run numbered 1
  runs, tasks, ended,   \* Forgejo
  panel,     \* what the page is doing, and what it shows
  tab,       \* the state of the "Actions" tab
  places,    \* the rows' names when they were last matched with the nodes
  shown,     \* the status every node shows
  scans,     \* the polls in flight
  lost

PanelAssumption == PageSize \in Nat

panelVars == <<view, runs, tasks, ended, panel, tab, places, shown, scans, lost>>

Forgejo == <<runs, tasks, ended>>
Page    == <<panel, tab, places, shown>>

Idle == [on |-> FALSE, page |-> 0, acc |-> {}, seen |-> FALSE, since |-> 0, over |-> FALSE, status |-> "unread"]

Init ==
  /\ view \in {"pull", "run"}
  /\ runs = (IF view = "run" THEN 1 ELSE 0) /\ tasks = << >> /\ ended = {}
  /\ panel = [at |-> IF view = "run" THEN "following" ELSE "asking", shows |-> "nothing", tries |-> 0, matched |-> FALSE]
  /\ tab = "waiting" /\ places = << >> /\ shown = [j \in Jobs |-> "waiting"]
  /\ scans = [k \in 1..MaxScans |-> Idle] /\ lost = 0

-----------------------------------------------------------------------------
(* Forgejo. *)

TasksOf(r, j) == {i \in DOMAIN tasks : tasks[i].run = r /\ tasks[i].job = j}
Over(r, j)    == TasksOf(r, j) # {} /\ Max(TasksOf(r, j)) \in ended
RunOver(r)    == \A j \in Jobs : Over(r, j)

\* The list keeps room for the jobs that have not started.
Unstarted == {x \in (1..runs) \X Jobs : TasksOf(x[1], x[2]) = {}}

CreateRun ==
  /\ runs < MaxRuns /\ Len(tasks) + Cardinality(Unstarted) + Cardinality(Jobs) <= MaxTasks
  /\ runs' = runs + 1
  /\ UNCHANGED <<view, tasks, ended, Page, scans, lost>>

Starts(r, j) ==
  /\ tasks' = Append(tasks, [run |-> r, job |-> j])
  /\ UNCHANGED <<view, runs, ended, Page, scans, lost>>

StartTask ==
  \E x \in Unstarted : (\A n \in Needs[x[2]] : Over(x[1], n)) /\ Starts(x[1], x[2])

\* A job is run again, or another commit's starts.
MoreTasks ==
  /\ Len(tasks) + Cardinality(Unstarted) < MaxTasks
  /\ \/ \E r \in 1..runs, j \in Jobs : Over(r, j) /\ Starts(r, j)
     \/ \E j \in Jobs : Starts(0, j)

EndTask ==
  \E i \in DOMAIN tasks \ ended :
    /\ ended' = ended \cup {i}
    /\ UNCHANGED <<view, runs, tasks, Page, scans, lost>>

-----------------------------------------------------------------------------
(* fetchTasks, fetchRunTimings, fetchCommitStatus. *)

Starting(k) ==
  /\ scans[k] = Idle
  /\ scans' = [scans EXCEPT ![k] = [Idle EXCEPT !.on = TRUE]]
  /\ UNCHANGED <<view, Forgejo, Page, lost>>

\* attempt, after 15 s if it is not the first; the next one waits for its answers.
Attempt == panel.at = "asking" /\ Starting(1)

\* Every 15 s, the answers to earlier polls not awaited.
Poll(k) == panel.at = "following" /\ Starting(k)

PageOf(p) ==
  {i \in DOMAIN tasks : Len(tasks) < i + p * PageSize /\ i + (p - 1) * PageSize <= Len(tasks)}

\* The rows of a commit, or of the run whose page it is.
Mine(acc) == {a \in acc : IF view = "run" THEN tasks[a.id].run = 1 ELSE tasks[a.id].run # 0}

\* The same task may be on two pages; it is kept as it was read first.
Added(acc, page) ==
  acc \cup {[id |-> i, over |-> i \in ended] : i \in page \ {a.id : a \in acc}}

ReadPage(k) ==
  LET scan == scans[k]
      p    == scan.page + 1
      page == PageOf(p)
      acc  == Added(scan.acc, page)
      here == Mine({[id |-> i, over |-> FALSE] : i \in page}) # {}
      last == p * PageSize >= Len(tasks) \/ p >= MaxPages
      done == IF view = "run" THEN last \/ (scan.seen /\ ~here) ELSE last \/ here
  IN  /\ scan.on /\ ~scan.over
      /\ scans' = [scans EXCEPT ![k] = [scan EXCEPT !.page = p, !.acc = acc, !.seen = @ \/ here, !.over = done,
                                                   !.since = IF p = 1 THEN Len(tasks) ELSE @]]
      /\ UNCHANGED <<view, Forgejo, Page, lost>>

\* apiJSON: what fails is null.
PageFails(k) ==
  /\ scans[k].on /\ ~scans[k].over /\ lost < MaxLost /\ lost' = lost + 1
  /\ scans' = [scans EXCEPT ![k].over = TRUE]
  /\ UNCHANGED <<view, Forgejo, Page>>

\* The commit's statuses are there as soon as the run is.
CommitStatus == IF runs = 0 THEN "none" ELSE IF \A r \in 1..runs : RunOver(r) THEN "ended" ELSE "pending"

ReadStatus(k) ==
  /\ panel.at = "asking" /\ scans[k].on /\ scans[k].status = "unread"
  /\ \/ scans' = [scans EXCEPT ![k].status = CommitStatus] /\ UNCHANGED lost
     \/ lost < MaxLost /\ lost' = lost + 1 /\ scans' = [scans EXCEPT ![k].status = "failed"]
  /\ UNCHANGED <<view, Forgejo, Page>>

-----------------------------------------------------------------------------
(* taskRows, latestTaskTimings, apply. *)

\* Mutant: the oldest attempt counts.
OldestOf(ids) == Min(ids)

NewestOf(ids) == Max(ids)

\* The rows of the latest run, one for every name: its newest task.
NewestRows(acc) ==
  LET mine == Mine(acc)
      run  == Max({tasks[a.id].run : a \in mine})
      ofRun(j) == {a \in mine : tasks[a.id].run = run /\ tasks[a.id].job = j}
  IN  UNION {{a \in ofRun(j) : a.id = NewestOf({b.id : b \in ofRun(j)})} : j \in Jobs}

\* Newest first.
Rows(acc) ==
  LET rows == NewestRows(acc)
  IN  [i \in 1..Cardinality(rows) |-> CHOOSE a \in rows : Cardinality({b \in rows : b.id > a.id}) = i - 1]

Named(rows)   == [i \in DOMAIN rows |-> tasks[rows[i].id].job]
AllOver(rows) == \A i \in DOMAIN rows : rows[i].over

Status(row) == IF row.over THEN "ended" ELSE "running"

Show(rows, at) ==
  /\ places' = at
  /\ shown' = [j \in Jobs |-> IF \E i \in DOMAIN at : at[i] = j
                              THEN Status(rows[CHOOSE i \in DOMAIN at : at[i] = j]) ELSE "waiting"]

\* The nodes are matched again when the number of rows has changed.
Apply(rows) == Show(rows, IF panel.matched /\ Len(rows) = Len(places) THEN places ELSE Named(rows))

Ready(k) == scans[k].on /\ scans[k].over /\ (panel.at = "asking" => scans[k].status # "unread")
Finish(k) == scans' = [scans EXCEPT ![k] = Idle]

\* render: no panel without the workflow's file; no polls if all tasks are over.
Render(k) ==
  LET rows == Rows(scans[k].acc)
  IN  /\ panel.at = "asking" /\ Ready(k) /\ Mine(scans[k].acc) # {}
      /\ tab' = (IF AllOver(rows) THEN "ended" ELSE "running")
      /\ \/ /\ panel' = [panel EXCEPT !.at = IF AllOver(rows) THEN "settled" ELSE "following", !.shows = "full"]
            /\ Show(rows, Named(rows)) /\ UNCHANGED lost
         \/ /\ lost < MaxLost /\ lost' = lost + 1
            /\ panel' = [panel EXCEPT !.at = "settled"] /\ UNCHANGED <<places, shown>>
      /\ Finish(k) /\ UNCHANGED <<view, Forgejo>>

\* Mutant: the next attempt is not counted.
SameTry == panel.tries

NextTry == panel.tries + 1

Again(limit) ==
  IF panel.tries < limit THEN [panel EXCEPT !.tries = NextTry] ELSE [panel EXCEPT !.at = "settled"]

\* renderFlat, and once more while the run is pending.
RenderFlat(k) ==
  /\ panel.at = "asking" /\ Ready(k) /\ Mine(scans[k].acc) = {} /\ scans[k].status \in {"pending", "ended"}
  /\ tab' = (IF scans[k].status = "ended" THEN "ended" ELSE "running")
  /\ panel' = [Again(IF scans[k].status = "pending" THEN FlatTries ELSE 0) EXCEPT !.shows = "flat",
                 !.at = IF scans[k].status = "ended" THEN "settled" ELSE @]
  /\ Finish(k) /\ UNCHANGED <<view, Forgejo, places, shown, lost>>

NothingFound(k) ==
  /\ panel.at = "asking" /\ Ready(k) /\ Mine(scans[k].acc) = {} /\ scans[k].status \in {"none", "failed"}
  /\ panel' = Again(NoneTries)
  /\ tab' = (IF panel.tries < NoneTries THEN tab ELSE "none")
  /\ Finish(k) /\ UNCHANGED <<view, Forgejo, places, shown, lost>>

\* A pull request's panel stops when every row it was given is over; an answer that was
\* on its way is still applied.
Follow(k) ==
  LET rows == Rows(scans[k].acc)
  IN  /\ view = "pull" /\ panel.at \in {"following", "settled"} /\ Ready(k)
      /\ IF Mine(scans[k].acc) = {} THEN UNCHANGED Page
         ELSE /\ Apply(rows)
              /\ panel' = [panel EXCEPT !.at = IF AllOver(rows) THEN "settled" ELSE @, !.matched = TRUE]
              /\ tab' = (IF AllOver(rows) THEN "ended" ELSE "running")
      /\ Finish(k) /\ UNCHANGED <<view, Forgejo, lost>>

\* A run's times stop when its job list and the times are final.
FollowTimes(k) ==
  LET mine == Mine(scans[k].acc)
      rows == Rows(scans[k].acc)
  IN  /\ view = "run" /\ Ready(k)
      /\ IF mine = {} THEN Show(<< >>, << >>) ELSE Show(rows, Named(rows))
      /\ panel' = [panel EXCEPT !.at = IF RunOver(1) /\ (mine = {} \/ AllOver(rows)) THEN "settled" ELSE @]
      /\ Finish(k) /\ UNCHANGED <<view, Forgejo, tab, lost>>

Answered(k) == Render(k) \/ RenderFlat(k) \/ NothingFound(k) \/ Follow(k) \/ FollowTimes(k)

ScanStep(k) == ReadPage(k) \/ ReadStatus(k) \/ Answered(k)

Next ==
  \/ CreateRun \/ StartTask \/ MoreTasks \/ EndTask \/ Attempt
  \/ \E k \in 1..MaxScans : Poll(k) \/ ScanStep(k) \/ PageFails(k)

Spec == Init /\ [][Next]_panelVars

\* Timers fire, requests are answered, and what has started ends.
FairSpec ==
  /\ Spec
  /\ WF_panelVars(StartTask \/ EndTask) /\ WF_panelVars(Attempt)
  /\ \A k \in 1..MaxScans : WF_panelVars(Poll(k)) /\ WF_panelVars(ScanStep(k))

-----------------------------------------------------------------------------
(* Properties. *)

TypeOK ==
  /\ runs \in 0..MaxRuns /\ Len(tasks) <= MaxTasks /\ ended \subseteq DOMAIN tasks
  /\ panel.at \in {"asking", "following", "settled"} /\ panel.shows \in {"nothing", "flat", "full"}
  /\ panel.tries <= FlatTries /\ tab \in {"waiting", "running", "ended", "none"}
  /\ shown \in [Jobs -> {"waiting", "running", "ended"}]
  /\ \A k \in 1..MaxScans : \A a \in scans[k].acc : a.id \in DOMAIN tasks

\* "Only the newest task per job name counts, so a rerun replaces the earlier attempt":
\* no row or time is that of a task which was already an old attempt when the poll began,
\* although the list moves from page to page while it is read and not all of it is.
RowsNewest ==
  \A k \in 1..MaxScans : Ready(k) /\ Mine(scans[k].acc) # {} =>
    \A row \in NewestRows(scans[k].acc) :
      \A n \in TasksOf(tasks[row.id].run, tasks[row.id].job) : n <= scans[k].since => n <= row.id

\* Looking for a run ends, and the page of a run stops polling once the run is over.
Settled == panel.at # "asking" /\ (view = "run" => panel.at = "settled")

\* "Poll while a run is pending or not-yet-created (queued), then settle on an honest tab
\* state": does not hold.  One answer that fails after the sixth attempt makes the page
\* say that there is no run, although it has shown one.
HonestTab == panel.shows = "flat" => tab # "none"

\* A node shows its own job: does not hold.  A job that is run again changes the order of
\* the rows and not their number.
NodesShowTheirOwn ==
  [][panel.at = "following" /\ panel'.at = "following" /\ places' = places /\ shown' # shown
       => \A k \in 1..MaxScans : scans[k].on /\ ~scans'[k].on => places = Named(Rows(scans[k].acc))]_panelVars
=============================================================================
