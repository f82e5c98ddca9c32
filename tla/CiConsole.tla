------------------------------ MODULE CiConsole ------------------------------
(***************************************************************************)
(* The CI console's API (src/kubernetes/apps/forgejo/ci-console/app), which *)
(* polls Forgejo's Actions runs for one login and serves them to its page  *)
(* (src/kubernetes/apps/forgejo/forgejo/app/custom/wg-ci.js).              *)
(*                                                                         *)
(* The session's worker polls a repository: the newest runs, further pages *)
(* when all of them are new, then single runs that are active or watched.  *)
(* Meanwhile HTTP threads answer GET /state from the same fields, mostly   *)
(* without the lock, and POST /wake adds to the watched set.               *)
(*                                                                         *)
(* One repository is modelled.  A run is a number, newest last; what       *)
(* run_signature tells apart is its revision: 0 for no run, odd while it   *)
(* is active, even once it has finished.  Times only decide how soon the   *)
(* worker polls: here it may poll whenever it is idle.  An answer and the  *)
(* absorb that follows are one step, since only this worker writes runs.   *)
(***************************************************************************)
EXTENDS Integers, FiniteSets

CONSTANTS
  LastRun,      \* runs are 1..LastRun
  FirstRuns,    \* runs Forgejo has at the start
  Old,          \* runs older than WINDOW and KEEP_SECONDS
  HotPage, FullPage, MaxPages, MaxWatched, KeepPerRepo,
  VersionCycle, \* bound: versions count modulo this
  None,
  MaxReruns,    \* bound: runs started again from the page
  MaxChanges,   \* bound: runs started, from the page or not
  MaxFailures,  \* bound: calls that fail
  MaxRestarts,  \* bound: sessions lost (restart of the pod, the reaper)
  MaxTroubles   \* bound: failures and restarts together

Runs == 1..LastRun

ASSUME ConsoleAssumption ==
  /\ LastRun \in Nat /\ FirstRuns \in 0..LastRun
  /\ Old \subseteq Runs /\ \A r \in Old : 1..r \subseteq Old
  /\ {HotPage, FullPage, MaxPages, MaxWatched} \subseteq Nat \ {0} /\ HotPage < FullPage
  /\ KeepPerRepo \in Nat
  /\ VersionCycle \in Nat /\ VersionCycle > 1 /\ None \notin Nat
  /\ MaxReruns \in Nat /\ MaxChanges \in Nat
  /\ MaxFailures \in Nat /\ MaxRestarts \in Nat /\ MaxTroubles \in Nat

VARIABLES
  forge,      \* revision of every run on Forgejo
  known,      \* runs of the session
  discovered, \* the session has the repository
  loaded, error, watched, dirty, version,
  pc,         \* where the worker is
  pageNo, stopOnKnown,  \* arguments of backfill
  seen,       \* runs of the first page
  stale,      \* runs refresh_watched still has to fetch
  cache,      \* cached_body, with its version, and cached_version
  req,        \* the GET /state in progress
  page,       \* the browser: stateVersion and its runs
  wakes,      \* POST /wake under way
  asked,      \* the page has polled since the last discovery
  outrun,     \* more runs have started between two polls than a page holds
  reruns, failures, restarts

repoVars   == <<discovered, loaded, error, watched>>
workerVars == <<pc, pageNo, stopOnKnown, seen, stale>>
webVars    == <<cache, req, page>>
bounds     == <<reruns, failures, restarts>>
pastVars   == <<asked, outrun>>
vars == <<forge, known, repoVars, dirty, version, workerVars, webVars, wakes, pastVars, bounds>>

Revisions == 0..(2 + 2 * MaxReruns)
Active(rev) == rev % 2 = 1
Finished(rev) == rev > 0 /\ ~Active(rev)
NoRuns == [r \in Runs |-> 0]

Top == Cardinality({r \in Runs : forge[r] # 0})
Changing == (Top - FirstRuns) + reruns < MaxChanges
Room == failures + restarts < MaxTroubles
Failing == failures < MaxFailures /\ Room /\ failures' = failures + 1
Bumped == (version + 1) % VersionCycle

\* runs_page: newest first.
PageOf(number, limit) == {r \in Runs : r <= Top - (number - 1) * limit /\ r > Top - number * limit}

\* Of a copy of the runs the model keeps whether it still is what the session holds.
Outdate ==
  IF known' = known THEN UNCHANGED webVars
  ELSE /\ cache' = [cache EXCEPT !.current = FALSE]
       /\ req' = [req EXCEPT !.current = FALSE]
       /\ page' = [page EXCEPT !.current = FALSE]

Added(items) == {r \in items : known[r] = 0}

\* run_signature
Differing(items) == {r \in items : known[r] # forge[r]}

Absorb(items) ==
  /\ known' = [r \in Runs |-> IF r \in Differing(items) THEN forge[r] ELSE known[r]]
  /\ dirty' = (dirty \/ Differing(items) # {})
  /\ Outdate

NoCache == [version |-> None, have |-> None, current |-> FALSE]
NoRequest == [at |-> "none", have |-> None, current |-> FALSE]

Init ==
  /\ forge = [r \in Runs |-> IF r <= FirstRuns THEN 2 ELSE 0]
  /\ known = NoRuns /\ discovered = FALSE /\ loaded = FALSE /\ error = FALSE
  /\ watched = {} /\ dirty = FALSE /\ version = 1
  /\ pc = "idle" /\ pageNo = 0 /\ stopOnKnown = FALSE /\ seen = {} /\ stale = {}
  /\ cache = NoCache /\ req = NoRequest
  /\ page = [have |-> None, current |-> FALSE]
  /\ wakes = {} /\ asked = TRUE /\ outrun = FALSE
  /\ reruns = 0 /\ failures = 0 /\ restarts = 0

-----------------------------------------------------------------------------
(* The worker: one cycle after the other. *)

DiscoverBump == Bumped

\* Every REPOS_INTERVAL (600 s).  The page polls every 2 s, and the worker stops
\* 120 s after the last poll: there is a poll in between.
Discover ==
  /\ pc = "idle" /\ asked
  /\ discovered' = TRUE
  /\ version' = DiscoverBump
  /\ asked' = FALSE
  /\ UNCHANGED <<outrun, forge, known, loaded, error, watched, dirty, workerVars, webVars, wakes, bounds>>

\* Mutant: the first load, too, reads one page only.
ReadOnHot(items) == loaded /\ Cardinality(items) = HotPage /\ Added(items) = items

\* A full first page within WINDOW, later a page of nothing but new runs.
ReadOn(items) ==
  IF loaded THEN Cardinality(items) = HotPage /\ Added(items) = items
  ELSE Cardinality(items) = FullPage /\ items \cap Old = {}

\* A page after a hot page of new runs only that does not reach back to the runs the
\* session had: more runs have started since the last poll than FULL_PAGE.
Outruns(items) ==
  stopOnKnown /\ \A r \in {0} \cup {s \in Runs \ seen : known[s] # 0}, i \in items : r + 1 < i

\* sync_repo, up to the first page.
PollPage ==
  /\ pc = "idle" /\ discovered
  /\ LET items == PageOf(1, IF loaded THEN HotPage ELSE FullPage)
         more  == ReadOn(items)
     IN  /\ Absorb(items)
         /\ seen' = items
         /\ pc' = IF more THEN "back" ELSE "collect"
         /\ pageNo' = (IF more THEN IF loaded THEN 1 ELSE 2 ELSE 0)
         /\ stopOnKnown' = (more /\ loaded)
  /\ UNCHANGED <<forge, repoVars, version, stale, wakes, pastVars, bounds>>

Backfill ==
  /\ pc = "back"
  /\ LET items == PageOf(pageNo, FullPage)
         done  == \/ Cardinality(items) < FullPage \/ pageNo >= MaxPages
                  \/ items \cap Old # {}
                  \/ stopOnKnown /\ Added(items) # items
     IN  /\ Absorb(items)
         /\ pc' = IF done THEN "collect" ELSE "back"
         /\ pageNo' = IF done THEN 0 ELSE pageNo + 1
         /\ stopOnKnown' = (stopOnKnown /\ ~done)
         /\ outrun' = (outrun \/ Outruns(items))
  /\ UNCHANGED <<forge, repoVars, version, seen, stale, wakes, asked, bounds>>

\* Mutant: active runs that left the first page are not looked at.
StaleNone == {}

StaleRuns == {r \in Runs : Active(known[r])} \ seen

\* stale[:MAX_WATCHED]: active runs come first.
Picked ==
  LET all == StaleRuns \cup (watched \ seen)
  IN  {s \in SUBSET all : /\ \/ Cardinality(s) = MaxWatched
                             \/ Cardinality(all) < MaxWatched /\ s = all
                          /\ StaleRuns \subseteq s \/ s \subseteq StaleRuns}

\* refresh_watched reads the watched set ...
CollectStale ==
  /\ pc = "collect"
  /\ stale' \in Picked
  /\ seen' = {} /\ pc' = "clear"
  /\ UNCHANGED <<forge, known, repoVars, dirty, version, pageNo, stopOnKnown, webVars, wakes, pastVars, bounds>>

\* ... and then empties it, neither under the lock.
ClearWatched ==
  /\ pc = "clear"
  /\ watched' = {} /\ pc' = "refetch"
  /\ UNCHANGED <<forge, known, discovered, loaded, error, dirty, version, pageNo, stopOnKnown, seen, stale,
                 webVars, wakes, pastVars, bounds>>

Refetch ==
  /\ pc = "refetch"
  /\ \E r \in stale : Absorb({r}) /\ stale' = stale \ {r}
  /\ UNCHANGED <<forge, repoVars, version, pc, pageNo, stopOnKnown, seen, wakes, pastVars, bounds>>

RefetchFails ==
  /\ pc = "refetch" /\ Failing
  /\ \E r \in stale : stale' = stale \ {r}
  /\ UNCHANGED <<forge, known, repoVars, dirty, version, pc, pageNo, stopOnKnown, seen,
                 webVars, wakes, pastVars, reruns, restarts>>

\* prune
Pruned(runs) ==
  {r \in Old : Finished(runs[r]) /\ Cardinality({s \in Runs : runs[s] # 0 /\ s > r}) >= KeepPerRepo}

\* The end of a cycle: prune, and a new version if anything has changed.
EndCycle(runs, changed) ==
  /\ known' = [r \in Runs |-> IF r \in Pruned(runs) THEN 0 ELSE runs[r]]
  /\ version' = IF dirty \/ changed \/ Pruned(runs) # {} THEN Bumped ELSE version
  /\ dirty' = FALSE
  /\ pc' = "idle" /\ pageNo' = 0 /\ stopOnKnown' = FALSE /\ seen' = {} /\ stale' = {}
  /\ Outdate
  /\ UNCHANGED <<forge, wakes, pastVars, reruns, restarts>>

EndPoll ==
  /\ pc = "refetch" /\ stale = {}
  /\ loaded' = TRUE /\ error' = FALSE
  /\ EndCycle(known, <<loaded, error>> # <<TRUE, FALSE>>)
  /\ UNCHANGED <<discovered, watched, failures>>

\* The handlers at the end of sync_repo count the repository as loaded.  Only an
\* HTTP error of a single run is passed over (RefetchFails).
PollFails ==
  /\ pc = "back" \/ (pc = "idle" /\ discovered) \/ (pc = "refetch" /\ stale # {})
  /\ Failing
  /\ loaded' = TRUE /\ error' = TRUE
  /\ EndCycle(known, <<loaded, error>> # <<TRUE, TRUE>>)
  /\ UNCHANGED <<discovered, watched>>

\* Mutant: the runs of a dropped repository stay.
DroppedRepoOnly == known

\* drop_repo
Dropped == NoRuns

\* 404: the repository goes until it is discovered again.
PollNotFound ==
  /\ pc = "back" \/ (pc = "idle" /\ discovered)
  /\ Failing
  /\ discovered' = FALSE /\ loaded' = FALSE /\ error' = FALSE /\ watched' = {}
  /\ EndCycle(Dropped, TRUE)

-----------------------------------------------------------------------------
(* The page, and the HTTP threads that answer it. *)

\* do_GET: 304.
NotModified ==
  /\ req.at = "none" /\ page.have = version /\ asked' = TRUE
  /\ UNCHANGED <<outrun, forge, known, repoVars, dirty, version, workerVars, webVars, wakes, bounds>>

\* snapshot: the cached body.
AnswerCached ==
  /\ req.at = "none" /\ page.have # version /\ cache.version = version
  /\ page' = [have |-> cache.have, current |-> cache.current] /\ asked' = TRUE
  /\ UNCHANGED <<outrun, forge, known, repoVars, dirty, version, workerVars, cache, req, wakes, bounds>>

\* snapshot: the runs, under the lock ...
CopyRuns ==
  /\ req.at = "none" /\ page.have # version /\ cache.version # version
  /\ req' = [at |-> "copied", have |-> None, current |-> TRUE]
  /\ UNCHANGED <<forge, known, repoVars, dirty, version, workerVars, cache, page, wakes, pastVars, bounds>>

\* ... the version, without it ...
StampVersion ==
  /\ req.at = "copied"
  /\ req' = [req EXCEPT !.at = "stamped", !.have = version]
  /\ UNCHANGED <<forge, known, repoVars, dirty, version, workerVars, cache, page, wakes, pastVars, bounds>>

\* ... and the cache, under the version of that moment.
Answer ==
  /\ req.at = "stamped"
  /\ cache' = [version |-> version, have |-> req.have, current |-> req.current]
  /\ page' = [have |-> req.have, current |-> req.current]
  /\ req' = NoRequest /\ asked' = TRUE
  /\ UNCHANGED <<outrun, forge, known, repoVars, dirty, version, workerVars, wakes, bounds>>

\* The page starts a finished run again and, once Forgejo has agreed, sends a wake.
Rerun ==
  /\ page.have # None
  /\ reruns < MaxReruns /\ Changing /\ reruns' = reruns + 1
  /\ \E r \in Runs :
       /\ Finished(known[r]) /\ Finished(forge[r])
       /\ forge' = [forge EXCEPT ![r] = @ + 1]
       /\ wakes' = wakes \cup {r}
  /\ UNCHANGED <<known, repoVars, dirty, version, workerVars, webVars, pastVars, failures, restarts>>

\* The page ignores a wake that fails (with MaxFailures = 0 none does).
Wake ==
  /\ \E r \in wakes :
       /\ wakes' = wakes \ {r}
       /\ \/ watched' = IF discovered THEN watched \cup {r} ELSE watched
          \/ MaxFailures > 0 /\ watched' = watched
  /\ UNCHANGED <<forge, known, discovered, loaded, error, dirty, version, workerVars, webVars, pastVars, bounds>>

\* The pod restarts, or the reaper forgets the session of a hidden tab.
Restart ==
  /\ restarts < MaxRestarts /\ Room /\ restarts' = restarts + 1
  /\ known' = NoRuns /\ discovered' = FALSE /\ loaded' = FALSE /\ error' = FALSE
  /\ watched' = {} /\ dirty' = FALSE /\ version' = 1
  /\ pc' = "idle" /\ pageNo' = 0 /\ stopOnKnown' = FALSE /\ seen' = {} /\ stale' = {}
  /\ cache' = NoCache /\ req' = NoRequest /\ asked' = TRUE
  /\ page' = [page EXCEPT !.current = FALSE]
  /\ UNCHANGED <<forge, wakes, outrun, reruns, failures>>

-----------------------------------------------------------------------------
(* Forgejo. *)

NewRun ==
  /\ Top < LastRun /\ Changing
  /\ forge' = [forge EXCEPT ![Top + 1] = 1]
  /\ UNCHANGED <<known, repoVars, dirty, version, workerVars, webVars, wakes, pastVars, bounds>>

Finish(r) ==
  /\ Active(forge[r])
  /\ forge' = [forge EXCEPT ![r] = @ + 1]
  /\ UNCHANGED <<known, repoVars, dirty, version, workerVars, webVars, wakes, pastVars, bounds>>

WorkerStep == PollPage \/ Backfill \/ CollectStale \/ ClearWatched \/ Refetch \/ EndPoll
PageStep == NotModified \/ AnswerCached \/ CopyRuns \/ StampVersion \/ Answer

Next ==
  \/ Discover \/ WorkerStep \/ RefetchFails \/ PollFails \/ PollNotFound
  \/ PageStep \/ Rerun \/ Wake \/ Restart
  \/ NewRun \/ \E r \in Runs : Finish(r)

Spec == Init /\ [][Next]_vars

\* The worker's loop goes on while the page polls, and looks at repos_at in every
\* cycle; the page polls every 2 s; runs end.
FairSpec ==
  /\ Spec
  /\ WF_vars(WorkerStep) /\ SF_vars(Discover) /\ WF_vars(PageStep) /\ WF_vars(Wake)
  /\ WF_vars(\E r \in Runs : Finish(r))

-----------------------------------------------------------------------------
(* Properties. *)

Versions == 0..(VersionCycle - 1) \cup {None}

\* Types of all variables; refresh_watched never fetches more than MAX_WATCHED, and
\* the session holds runs of repositories it has only.
TypeOK ==
  /\ forge \in [Runs -> Revisions] /\ known \in [Runs -> Revisions]
  /\ ~discovered => known = NoRuns
  /\ discovered \in BOOLEAN /\ loaded \in BOOLEAN /\ error \in BOOLEAN /\ dirty \in BOOLEAN
  /\ watched \in SUBSET Runs /\ wakes \in SUBSET Runs /\ seen \in SUBSET Runs
  /\ version \in Versions \ {None}
  /\ pc \in {"idle", "back", "collect", "clear", "refetch"}
  /\ pageNo \in Nat /\ pageNo <= MaxPages + 1 /\ stopOnKnown \in BOOLEAN
  /\ stale \in SUBSET Runs /\ Cardinality(stale) <= MaxWatched
  /\ page \in [have : Versions, current : BOOLEAN]
  /\ cache \in [version : Versions, have : Versions, current : BOOLEAN]
  /\ req \in [at : {"none", "copied", "stamped"}, have : Versions, current : BOOLEAN]
  /\ asked \in BOOLEAN /\ outrun \in BOOLEAN
  /\ reruns \in 0..MaxReruns /\ failures \in 0..MaxFailures /\ restarts \in 0..MaxRestarts

\* Between polls the session of a loaded repository holds every run of the last 24
\* hours that is older than the newest run it holds: "the snapshot covers the full
\* 24 hours for every repository".
WindowCovered ==
  pc = "idle" /\ loaded =>
    \A r \in Runs \ Old : (\E s \in Runs : s > r /\ known[s] # 0) => known[r] # 0

\* The same while no call has failed and no more than FULL_PAGE runs have started between
\* two polls: bursts of new runs, new runs between two pages and lost sessions leave no
\* gap.  (A longer burst does: backfill(repo, 1, True) stops at its first page, which
\* holds the runs of the hot page.)
CoveredUnlessFailed == failures = 0 /\ ~outrun => WindowCovered

\* Once Forgejo rests, the session holds its newest runs as they are, whatever
\* happened to them between two polls, and no run stays active in it: a run that
\* leaves the first page is followed to its end.  And the page ends up with the runs of
\* the session, although a snapshot can be cached under, or stamped with, a version it
\* does not have, and although a new session counts its versions from 1 again.
AllConverge ==
  <>[](/\ \A r \in Runs : ~Active(known[r]) /\ (r \in PageOf(1, HotPage) => known[r] = forge[r])
       /\ page.current)

\* Every run the session holds ends up as it is on Forgejo, those the page started
\* again included: "After a stop or re-run the page calls /wake, which polls that
\* repository and run".
RerunsShown == <>[](\A r \in Runs : known[r] # 0 => known[r] = forge[r])
=============================================================================
