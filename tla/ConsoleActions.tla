---------------------------- MODULE ConsoleActions ----------------------------
(***************************************************************************)
(* Stopping and re-running a run from the CI console's page                *)
(* (src/kubernetes/apps/forgejo/forgejo/app/custom/wg-ci.js).  One row: the *)
(* run in Forgejo, the session's copy of it, the page's object, which may  *)
(* be shown with the status that an accepted action will bring, and the    *)
(* button in the document, which follows the object with the next render.  *)
(*                                                                         *)
(* Forgejo and the session behind ci-console-api are external: the session *)
(* learns of every change some time (CiConsole has when it does not), and  *)
(* counts a version for each.  `updated` of a run is the number of its     *)
(* changes; the page's own stamp is Now, which no run of Forgejo has.      *)
(***************************************************************************)
EXTENDS Naturals, FiniteSets

CONSTANTS
  MaxRevisions,   \* bound: changes of the run
  MaxVersions,    \* bound: versions of the session
  MaxPosts,       \* bound: actions in flight
  MaxTroubles,    \* bound: polls and posts that fail
  Now             \* the page's clock

VARIABLES
  forge, known, version,   \* the run; the session's copy; the session's version
  row,                     \* the page's object of the run, and the version it is of
  hold,                    \* state.optimistic: what was accepted, and for what object
  answer,                  \* the snapshot on its way, if a poll is
  posts,                   \* actions on their way
  button, fresh,           \* the button in the document; it changed within 1.5 s
  confirm,                 \* the armed Stop
  missed,                  \* an action was sent that was not aimed at
  actionTroubles

actionVars == <<forge, known, version, row, hold, answer, posts, button, fresh, confirm, missed, actionTroubles>>

Statuses == {"waiting", "running", "done", "cancelled"}
Active   == {"waiting", "running"}

ActionFor(status) == IF status \in Active THEN "cancel" ELSE "rerun"

NoHold   == [kind |-> "none", base |-> 0, live |-> FALSE]
NoAnswer == [version |-> 0, run |-> [status |-> "done", rev |-> 0]]

Init ==
  /\ \E status \in {"running", "done"} : forge = [status |-> status, rev |-> 1]
  /\ known = forge /\ version = 1
  /\ row = [status |-> forge.status, updated |-> 1, version |-> 1]
  /\ hold = NoHold /\ answer = NoAnswer /\ posts = {}
  /\ button = ActionFor(forge.status) /\ fresh = FALSE /\ confirm = "none"
  /\ missed = FALSE /\ actionTroubles = 0

Trouble == actionTroubles < MaxTroubles /\ actionTroubles' = actionTroubles + 1

World == <<forge, known, version>>
Dom   == <<button, fresh>>

-----------------------------------------------------------------------------
(* Forgejo and the session. *)

Changes(status) ==
  /\ forge.rev < MaxRevisions
  /\ forge' = [status |-> status, rev |-> forge.rev + 1]

\* A run is started, ends, and may be stopped or re-run by someone else.
Progress ==
  /\ \/ forge.status = "waiting" /\ Changes("running")
     \/ forge.status = "running" /\ Changes("done")
     \/ forge.status \in Active /\ Changes("cancelled")
     \/ forge.status \notin Active /\ Changes("waiting")
  /\ UNCHANGED <<known, version, row, hold, answer, posts, Dom, confirm, missed, actionTroubles>>

\* The session's next poll of the run.
Learn ==
  /\ known # forge /\ known' = forge /\ version' = version + 1
  /\ UNCHANGED <<forge, row, hold, answer, posts, Dom, confirm, missed, actionTroubles>>

\* Another run of the session changes.
OtherChange ==
  /\ version < MaxVersions /\ version' = version + 1
  /\ UNCHANGED <<forge, known, row, hold, answer, posts, Dom, confirm, missed, actionTroubles>>

-----------------------------------------------------------------------------
(* pollState. *)

\* The session answers 304 unless it has a newer version.
Poll ==
  /\ answer = NoAnswer /\ version # row.version
  /\ answer' = [version |-> version, run |-> known]
  /\ UNCHANGED <<World, row, hold, posts, Dom, confirm, missed, actionTroubles>>

\* withOptimisticStatus: what was accepted is over once it is held long enough, or the
\* run is not the one it was accepted for.
Overtaken(run) == ~hold.live \/ run.rev # hold.base

Optimistic(kind) == IF kind = "cancel" THEN "cancelled" ELSE "waiting"

\* applySnapshot: a new object of the run; answers to actions that are still awaited
\* will find the old one.
PollEnds ==
  /\ answer # NoAnswer
  /\ LET run    == answer.run
         shows  == hold # NoHold /\ ~Overtaken(run)
     IN  /\ hold' = IF shows THEN hold ELSE NoHold
         /\ row' = [status  |-> IF shows THEN Optimistic(hold.kind) ELSE run.status,
                    updated |-> IF shows THEN row.updated ELSE run.rev,
                    version |-> answer.version]
  /\ posts' = {[p EXCEPT !.orphan = TRUE, !.base = IF p.orphan THEN @ ELSE row.updated] : p \in posts}
  /\ answer' = NoAnswer
  /\ UNCHANGED <<World, Dom, confirm, missed, actionTroubles>>

PollFails ==
  /\ answer # NoAnswer /\ Trouble /\ answer' = NoAnswer
  /\ UNCHANGED <<World, row, hold, posts, Dom, confirm, missed>>

\* 20 s after the answer.
HoldEnds ==
  /\ hold.live /\ hold' = [hold EXCEPT !.live = FALSE]
  /\ UNCHANGED <<World, row, answer, posts, Dom, confirm, missed, actionTroubles>>

-----------------------------------------------------------------------------
(* The button. *)

\* render, and noteShownAction.
Render ==
  /\ button # ActionFor(row.status)
  /\ button' = ActionFor(row.status) /\ fresh' = TRUE
  /\ UNCHANGED <<World, row, hold, answer, posts, confirm, missed, actionTroubles>>

\* 1.5 s after the button changed; whoever had aimed at what it was has clicked by now.
GuardEnds ==
  /\ fresh /\ fresh' = FALSE
  /\ UNCHANGED <<World, row, hold, answer, posts, button, confirm, missed, actionTroubles>>

\* What a user who clicks can have seen.
Aims == IF fresh THEN {"cancel", "rerun"} ELSE {button}

\* performRunActions: what the run is now decides, not what the button says.
Perform(kind, aim) ==
  IF ActionFor(row.status) = kind
  THEN /\ Cardinality(posts) < MaxPosts
       /\ posts' = posts \cup {[n |-> CHOOSE n \in 1..MaxPosts : \A p \in posts : p.n # n,
                              kind |-> kind, at |-> "sent", orphan |-> FALSE, base |-> 0]}
       /\ missed' = (missed \/ kind # aim)
  ELSE UNCHANGED <<posts, missed>>

\* Mutant: no guard after a change.
NoGuard == FALSE

JustFlipped == fresh

\* handleRunAction.  A Stop has to be clicked twice, the second time 0.4 to 4 s later.
Click ==
  \E aim \in Aims :
    /\ IF JustFlipped \/ (confirm # "none" /\ button # "cancel")
       THEN confirm' = "none" /\ UNCHANGED <<posts, missed>>
       ELSE IF button = "cancel" /\ confirm = "none"
       THEN confirm' = "early" /\ UNCHANGED <<posts, missed>>
       ELSE IF confirm = "early"
       THEN UNCHANGED <<confirm, posts, missed>>
       ELSE confirm' = "none" /\ Perform(button, aim)
    /\ UNCHANGED <<World, row, hold, answer, Dom, actionTroubles>>

ConfirmTime ==
  /\ confirm # "none"
  /\ confirm' \in (IF confirm = "early" THEN {"armed"} ELSE {"none"})
  /\ UNCHANGED <<World, row, hold, answer, posts, Dom, missed, actionTroubles>>

-----------------------------------------------------------------------------
(* postAction. *)

\* Forgejo stops what is active and re-runs what is not; to stop what has ended is no
\* error.
Take(p) ==
  /\ p.at = "sent"
  /\ \E at \in {"ok", "refused"} :
       /\ posts' = (posts \ {p}) \cup {[p EXCEPT !.at = at]}
       /\ \/ at = "ok" /\ ActionFor(forge.status) = p.kind /\ Changes(Optimistic(p.kind)) /\ UNCHANGED actionTroubles
          \/ at = "ok" /\ p.kind = "cancel" /\ forge.status \notin Active /\ UNCHANGED <<forge, actionTroubles>>
          \/ at = "refused" /\ p.kind = "rerun" /\ forge.status \in Active /\ UNCHANGED <<forge, actionTroubles>>
          \/ at = "refused" /\ Trouble /\ UNCHANGED forge
          \/ \* The answer is lost.
             at = "refused" /\ Trouble /\ ActionFor(forge.status) = p.kind /\ Changes(Optimistic(p.kind))
          \/ at = "refused" /\ forge.rev = MaxRevisions /\ UNCHANGED <<forge, actionTroubles>>
  /\ UNCHANGED <<known, version, row, hold, answer, Dom, confirm, missed>>

\* The object the action was for is changed, which the page may have replaced meanwhile.
Answered(p) ==
  /\ p.at # "sent"
  /\ posts' = posts \ {p}
  /\ IF p.at = "ok"
     THEN /\ hold' = [kind |-> p.kind, base |-> IF p.orphan THEN p.base ELSE row.updated, live |-> TRUE]
          /\ row' = IF p.orphan THEN row ELSE [row EXCEPT !.status = Optimistic(p.kind), !.updated = Now]
     ELSE UNCHANGED <<hold, row>>
  /\ UNCHANGED <<World, answer, Dom, confirm, missed, actionTroubles>>

PageStep == Poll \/ PollEnds \/ Render \/ \E p \in posts : Take(p) \/ Answered(p)

Next == Progress \/ Learn \/ OtherChange \/ PageStep \/ PollFails \/ HoldEnds \/ GuardEnds \/ Click \/ ConfirmTime

\* The page polls and renders on timers, posts are answered, and the session learns of
\* every change.  Users need not click.
FairSpec ==
  /\ Init /\ [][Next]_actionVars
  /\ WF_actionVars(Poll \/ PollEnds) /\ WF_actionVars(Render) /\ WF_actionVars(Learn)
  /\ WF_actionVars(\E p \in posts : Take(p) \/ Answered(p))

-----------------------------------------------------------------------------
(* Properties. *)

Stamps == 0..MaxRevisions \cup {Now}

TypeOK ==
  /\ forge \in [status : Statuses, rev : 1..MaxRevisions] /\ known.rev <= forge.rev
  /\ row.status \in Statuses /\ row.updated \in Stamps /\ row.version <= version
  /\ hold \in [kind : {"none", "cancel", "rerun"}, base : Stamps, live : BOOLEAN]
  /\ \A p \in posts : p.at \in {"sent", "ok", "refused"} /\ p.base \in Stamps
  /\ button \in {"cancel", "rerun"}
  /\ confirm \in {"none", "early", "armed"}

\* "A click aimed at one action cannot land on the other": no Stop is sent for a click
\* on what the user saw as Re-run up to 1.5 s before, nor the other way round, although
\* the button follows the run with a delay and the run changes under both.
ClickLands == ~missed

\* In the end the row shows the status that Forgejo's run has, and its button offers
\* what goes with it, whatever was accepted, refused or lost, and although a poll that
\* finds nothing new brings no run.
Settled == row.status = forge.status /\ button = ActionFor(forge.status)

=============================================================================
