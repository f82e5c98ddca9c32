------------------------------- MODULE Pages -------------------------------
(***************************************************************************)
(* The readers of Forgejo: the CI console page's sign-in in several tabs   *)
(* and its optimistic Stop and Re-run, the pipeline panel of a pull        *)
(* request or a run, its matching of jobs with nodes, the poll governor of *)
(* Forgejo's own run view, and the repository configuration inventory.     *)
(* They meet in Forgejo only, which every model lets change as it can; so  *)
(* one of them moves in a behaviour, `reader`, and the others stand at     *)
(* their start.                                                            *)
(***************************************************************************)
EXTENDS Naturals, FiniteSets, ConsoleTokens

CONSTANTS
  Now, None, MaxRevisions, MaxVersions, MaxPosts, MaxActionTroubles,
  PanelJobs, Needs, PageSize, MaxPages, NoneTries, FlatTries, MaxRuns, MaxTasks, MaxScans, MaxLost,
  JobInterval, ArtifactsTTL, LastVersion, MaxHides, MaxLosses,
  Words, MaxDepth, MaxMissing,
  Repositories, Private, Packages, FirstFacts, LaterFacts, MaxChanges, MaxInventoryTroubles

VARIABLES
  reader,
  run, copy, sessionVersion, row, hold, answer, posts, button, fresh, confirm, missed, actionTroubles,
  view, runs, tasks, ended, panel, tab, places, nodes, scans, lost,
  there, deleting, onView, hidden, load, flights, finished, jobAge, cached, cacheAge, hides, losses,
  callers, files, names, pending, seen, items, claims, missing,
  facts, token, step, active, latest, reads, updates, board, edits, inventoryTroubles

actionVars    == <<run, copy, sessionVersion, row, hold, answer, posts, button, fresh, confirm, missed, actionTroubles>>
panelVars     == <<view, runs, tasks, ended, panel, tab, places, nodes, scans, lost>>
governorVars  == <<there, deleting, onView, hidden, load, flights, finished, jobAge, cached, cacheAge, hides, losses>>
graphVars     == <<callers, files, names, pending, seen, items, claims, missing>>
inventoryVars == <<facts, token, step, active, latest, reads, updates, board, edits, inventoryTroubles>>
allVars == <<reader, tokenVars, actionVars, panelVars, governorVars, graphVars, inventoryVars>>

-----------------------------------------------------------------------------
Actions == INSTANCE ConsoleActions WITH
  MaxTroubles <- MaxActionTroubles, forge <- run, known <- copy, version <- sessionVersion

Panel == INSTANCE PullPanel WITH Jobs <- PanelJobs, shown <- nodes

Governor == INSTANCE PollGovernor WITH shown <- onView

Graph == INSTANCE PipelineGraph

Inventory == INSTANCE RepoInventory WITH MaxTroubles <- MaxInventoryTroubles, scans <- reads, changes <- edits

-----------------------------------------------------------------------------
Starts ==
  /\ reader \in {"tokens", "actions", "panel", "governor", "graph", "inventory"}
  /\ Init /\ Actions!Init /\ Panel!Init /\ Governor!Init /\ Inventory!Init

GraphStarts ==
  IF reader = "graph" THEN Graph!Init
  ELSE /\ callers = << >> /\ files = << >> /\ names = << >> /\ pending = {} /\ seen = << >>
       /\ items = << >> /\ claims = None /\ missing = 0

PagesInit == Starts /\ GraphStarts

Others(moving) ==
  /\ moving # "tokens" => UNCHANGED tokenVars
  /\ moving # "actions" => UNCHANGED actionVars
  /\ moving # "panel" => UNCHANGED panelVars
  /\ moving # "governor" => UNCHANGED governorVars
  /\ moving # "graph" => UNCHANGED graphVars
  /\ moving # "inventory" => UNCHANGED inventoryVars
  /\ UNCHANGED reader

PagesNext ==
  \/ reader = "tokens" /\ Next /\ Others("tokens")
  \/ reader = "actions" /\ Actions!Next /\ Others("actions")
  \/ reader = "panel" /\ Panel!Next /\ Others("panel")
  \/ reader = "governor" /\ Governor!Next /\ Others("governor")
  \/ reader = "graph" /\ Graph!Next /\ Others("graph")
  \/ reader = "inventory" /\ Inventory!Next /\ Others("inventory")

PagesSpec == PagesInit /\ [][PagesNext]_allVars

-----------------------------------------------------------------------------
(* Properties: those of the modules, said of the one that moves; TokenOnce keeps its name. *)

\* Every variable of the one that moves holds values of its kind.
TypesOK ==
  /\ reader = "tokens" => TypeOK
  /\ reader = "actions" => Actions!TypeOK
  /\ reader = "panel" => Panel!TypeOK
  /\ reader = "governor" => Governor!TypeOK
  /\ reader = "graph" => Graph!TypeOK
  /\ reader = "inventory" => Inventory!TypeOK

\* No Stop is sent for a click that was aimed at Re-run, nor the other way round; and
\* where the names leave nothing open, every node gets the jobs its caller made.
PageIsRight ==
  /\ reader = "actions" => Actions!ClickLands
  /\ reader = "graph" => Graph!NodesGetTheirs

\* The panel shows the newest attempt of every job, of those there were when it asked.
RowsNewest == reader = "panel" => Panel!RowsNewest

\* What the inventory pushes has every repository, and nothing untrue of any.
BoardIsRight == Inventory!BoardIsRight
=============================================================================
