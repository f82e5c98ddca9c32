------------------------------ MODULE EvalStore ------------------------------
(***************************************************************************)
(* The store of the brain evaluation                                       *)
(* (src/kubernetes/apps/ai/omnigraph/brain-eval/app): a private Forgejo    *)
(* repository, or, until a run can reach it, a bare repository on a PVC.   *)
(*                                                                         *)
(* A pod goes through the init containers of its CronJob: it proves the    *)
(* repository private, picks and clones the store, writes results, proves  *)
(* the repository private again, commits and pushes.  Nothing retries a    *)
(* pod.  The two CronJobs and jobs made by hand run beside each other, and *)
(* people commit to the repository as well.                                *)
(*                                                                         *)
(* A store is what its main branch holds: result files, each a name and    *)
(* the run that wrote it, and people's commits.  Git is external: a push   *)
(* is taken when the branch is an ancestor of what is pushed, and a rebase *)
(* conflicts when both sides have written the same file.                   *)
(***************************************************************************)
EXTENDS Naturals, FiniteSets

CONSTANTS
  Pods,
  Attempts,      \* pushes of publish.sh
  MaxRuns,       \* bound: results written
  MaxTroubles    \* bound: pods that die, calls that fail, answers that are lost
                 \* and changes of the repository

StoreAssumption == MaxRuns \in Nat /\ MaxTroubles \in Nat /\ Attempts \in Nat \ {0}

VARIABLES
  remote,      \* main of the Forgejo repository, NoMain while it is empty
  private,     \* it is hidden from a reader that has not signed in
  reachable,   \* the deploy key reaches it
  old,         \* main of the provisional store
  moved,       \* moved-to-forgejo
  pods,        \* what the pods know and hold
  runs,        \* results written so far
  troubles

storeVars == <<remote, private, reachable, old, moved, pods, runs, troubles>>

Names   == 1..MaxRuns
Results == [name : Names, run : Names]
People  == [name : {0}, run : 1..MaxTroubles]          \* commits of people
NoMain  == {[name |-> 0, run |-> 0]}                    \* the branch does not exist
Files(main) == main \ NoMain

Steps == {"idle", "privacy-store", "store", "choose", "move", "mark", "clone", "eval",
          "privacy-publish", "publish", "pull", "report"}

NoPod == [at |-> "idle", kind |-> "none", remoteHasMain |-> FALSE, reached |-> FALSE,
          tracks |-> FALSE, base |-> {}, own |-> {}, wasPrivate |-> FALSE, attempt |-> 1]

Init ==
  /\ remote \in {NoMain, {}} /\ private \in BOOLEAN /\ reachable \in BOOLEAN
  /\ old = NoMain /\ moved = FALSE
  /\ pods = [p \in Pods |-> NoPod] /\ runs = 0 /\ troubles = 0

Trouble == troubles < MaxTroubles /\ troubles' = troubles + 1

Stores == <<remote, old, moved>>
World  == <<private, reachable>>

Set(p, r) == pods' = [pods EXCEPT ![p] = r]
Goes(p, to) == Set(p, [pods[p] EXCEPT !.at = to])
Stops(p) == Set(p, NoPod)

-----------------------------------------------------------------------------
(* repo-privacy. *)

\* The anonymous read: 404, 200, or no answer (0).
Status == IF private THEN 404 ELSE 200

\* Mutant: only a repository that anyone can read stops the pod.
ProvesNotReadable(status) == status # 200

\* Only a 404 proves the repository private.
Proves(status) == status = 404

After(at) == IF at = "privacy-store" THEN "store" ELSE "publish"

ReadPrivacy(p) ==
  /\ pods[p].at \in {"privacy-store", "privacy-publish"}
  /\ \E status \in {Status, 0} :
       /\ IF status = 0 THEN Trouble ELSE UNCHANGED troubles
       /\ IF Proves(status)
          THEN Set(p, [pods[p] EXCEPT !.at = After(@), !.wasPrivate = private])
          ELSE Stops(p)
  /\ UNCHANGED <<Stores, World, runs>>

-----------------------------------------------------------------------------
(* store.sh. *)

Start(p) ==
  /\ pods[p].at = "idle" /\ runs < MaxRuns
  /\ Goes(p, "privacy-store")
  /\ UNCHANGED <<Stores, World, runs, troubles>>

\* git ls-remote; a remote that does not answer is not used.
ListRemote(p) ==
  /\ pods[p].at = "store"
  /\ Set(p, [pods[p] EXCEPT !.at = "choose", !.reached = reachable,
                            !.remoteHasMain = reachable /\ remote # NoMain])
  /\ UNCHANGED <<Stores, World, runs, troubles>>

Opens(p, kind, main) ==
  Set(p, [pods[p] EXCEPT !.at = "eval", !.kind = kind, !.base = Files(main), !.tracks = main # NoMain])

Choose(p) ==
  /\ pods[p].at = "choose"
  /\ LET pod == pods[p]
     IN  CASE pod.reached /\ ~pod.remoteHasMain /\ old # NoMain -> Goes(p, "move")
           [] pod.reached /\ (pod.remoteHasMain \/ moved)       -> Goes(p, "clone")
           [] pod.reached                                       -> Opens(p, "forgejo", NoMain)
           [] moved                                             -> Stops(p)
           [] OTHER                                             -> Opens(p, "provisional", old)
  /\ UNCHANGED <<Stores, World, runs, troubles>>

\* Mutant: pushes are forced.
TakenAlways(main, pushed) == TRUE

\* A push fast-forwards main.
Taken(main, pushed) == Files(main) \subseteq pushed

MarkAt == {"mark"}

\* git push of every branch of the provisional store; a refusal fails the script.
Move(p) ==
  /\ pods[p].at = "move"
  /\ IF reachable /\ Taken(remote, old)
     THEN remote' = old /\ Goes(p, "mark")
     ELSE Stops(p) /\ UNCHANGED remote
  /\ moved' = (moved \/ "move" \in MarkAt)
  /\ UNCHANGED <<old, World, runs, troubles>>

Mark(p) ==
  /\ pods[p].at = "mark"
  /\ moved' = TRUE /\ Goes(p, "clone")
  /\ UNCHANGED <<remote, old, World, runs, troubles>>

Clone(p) ==
  /\ pods[p].at = "clone"
  /\ IF reachable /\ remote # NoMain THEN Opens(p, "forgejo", remote) ELSE Stops(p)
  /\ UNCHANGED <<Stores, World, runs, troubles>>

-----------------------------------------------------------------------------
(* The evaluation and publish.sh. *)

\* Mutant: the files of the store are counted, those of people too.
FreeNameCounted(p) == Cardinality(pods[p].base) + 1

\* result_path: the first name that the clone does not have.
FreeName(p) == CHOOSE n \in Names : /\ \A f \in pods[p].base : f.name # n
                                    /\ \A m \in 1..(n - 1) : \E f \in pods[p].base : f.name = m

\* The results and the commit message; or the run is invalid and the pod stops.
Evaluate(p) ==
  /\ pods[p].at = "eval"
  /\ \/ /\ runs < MaxRuns /\ runs' = runs + 1
        /\ Set(p, [pods[p] EXCEPT !.at = "privacy-publish", !.wasPrivate = FALSE,
                                  !.own = {[name |-> FreeName(p), run |-> runs']}])
     \/ Stops(p) /\ UNCHANGED runs
  /\ UNCHANGED <<Stores, World, troubles>>

Origin(p)  == IF pods[p].kind = "forgejo" THEN remote ELSE old
Reaches(p) == pods[p].kind = "provisional" \/ reachable
Pushed(p)  == pods[p].base \cup pods[p].own

\* Mutant: the last refusal goes unnoticed.
RefusedQuietly(p) == Goes(p, IF pods[p].attempt = Attempts THEN "report" ELSE "pull")

\* The fourth refusal ends the run, which pulls once more before it says so.
Refused(p) == Goes(p, "pull")

\* git push origin HEAD:refs/heads/main, whose answer may be lost.
Push(p) ==
  /\ pods[p].at = "publish"
  /\ LET taken == Reaches(p) /\ Taken(Origin(p), Pushed(p))
     IN  \/ /\ taken
            /\ IF pods[p].kind = "forgejo" THEN remote' = Pushed(p) /\ UNCHANGED old
               ELSE old' = Pushed(p) /\ UNCHANGED remote
            /\ \/ Goes(p, "report") /\ UNCHANGED troubles
               \/ Trouble /\ Refused(p)
         \/ ~taken /\ Refused(p) /\ UNCHANGED <<remote, old, troubles>>
  /\ UNCHANGED <<moved, World, runs>>

Conflict(p) == \E f \in Files(Origin(p)), g \in pods[p].own : f.name = g.name /\ f # g

\* A clone that tracks main pulls; one that began empty pulls when main has come.
Pulls(p) == pods[p].tracks \/ (Reaches(p) /\ Origin(p) # NoMain)

\* git pull --rebase, then the next attempt.
PullAndRetry(p) ==
  /\ pods[p].at = "pull"
  /\ LET next == [pods[p] EXCEPT !.at = "publish", !.attempt = @ + 1]
     IN  IF (Pulls(p) /\ (~Reaches(p) \/ Conflict(p))) \/ pods[p].attempt = Attempts THEN Stops(p)
         ELSE IF Pulls(p)
              THEN Set(p, [next EXCEPT !.base = Files(Origin(p)) \ pods[p].own, !.tracks = TRUE])
         ELSE Set(p, next)
  /\ UNCHANGED <<Stores, World, runs, troubles>>

Report(p) == pods[p].at = "report" /\ Stops(p) /\ UNCHANGED <<Stores, World, runs, troubles>>

\* A pod dies, or passes its deadline; its work goes with it.
PodFails(p) ==
  /\ pods[p].at # "idle" /\ Trouble /\ Stops(p)
  /\ UNCHANGED <<Stores, World, runs>>

-----------------------------------------------------------------------------
(* The others. *)

\* The repository is made public or private; the key stops working, or works.
Changes ==
  /\ Trouble
  /\ \/ private' = ~private /\ UNCHANGED reachable
     \/ reachable' = ~reachable /\ UNCHANGED private
  /\ UNCHANGED <<Stores, pods, runs>>

\* Somebody reviews a case in the repository.
Commit ==
  /\ remote # NoMain /\ Trouble
  /\ remote' = remote \cup {[name |-> 0, run |-> troubles']}
  /\ UNCHANGED <<old, moved, World, pods, runs>>

PodStep(p) ==
  \/ Start(p) \/ ReadPrivacy(p) \/ ListRemote(p) \/ Choose(p) \/ Move(p) \/ Mark(p) \/ Clone(p)
  \/ Evaluate(p) \/ Push(p) \/ PullAndRetry(p) \/ Report(p)

Next ==
  \/ \E p \in Pods : PodStep(p) \/ PodFails(p)
  \/ Changes \/ Commit

Spec == Init /\ [][Next]_storeVars

-----------------------------------------------------------------------------
(* Properties. *)

Mains == (SUBSET (Results \cup People)) \cup {NoMain}

\* Every variable holds values of its kind.
TypeOK ==
  /\ remote \in Mains /\ old \in Mains
  /\ private \in BOOLEAN /\ reachable \in BOOLEAN /\ moved \in BOOLEAN
  /\ pods \in [Pods -> [at : Steps, kind : {"none", "forgejo", "provisional"},
                        remoteHasMain : BOOLEAN, reached : BOOLEAN, tracks : BOOLEAN,
                        base : SUBSET (Results \cup People), own : SUBSET Results,
                        wasPrivate : BOOLEAN, attempt : 1..Attempts]]
  /\ runs \in 0..MaxRuns /\ troubles \in 0..MaxTroubles

\* Nothing is pushed to the repository by a pod that has not found it private, and not
\* by then a reading from before its results: whatever the read answered.
PushedWhenPrivate ==
  \A p \in Pods : pods[p].at \in {"move", "publish", "pull"} => pods[p].wasPrivate

\* What the repository holds stays: no push of one pod, or of the provisional store,
\* takes the results of another or the commits of people away.
ResultsStay ==
  [][remote # NoMain => remote \subseteq remote' /\ remote' # NoMain]_remote

\* A pod that reports has its results in a store; the marker says that main is in the
\* repository, wherever the pod died that moved it; and no two runs share a file.
ReportedIsStored ==
  /\ \A p \in Pods : pods[p].at = "report" => pods[p].own \subseteq remote \cup old
  /\ moved => remote # NoMain
  /\ \A f, g \in Files(remote) : f.name = g.name /\ f.name # 0 => f = g
=============================================================================
