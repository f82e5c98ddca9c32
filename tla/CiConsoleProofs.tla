---------------------------- MODULE CiConsoleProofs ----------------------------
(***************************************************************************)
(* Proofs about CiConsole for any number of runs, page sizes and bounds:   *)
(* types, and that the session has no gap in the window of 24 hours while  *)
(* no call fails and no burst of runs is longer than a page.               *)
(***************************************************************************)
EXTENDS CiConsole, FiniteSetTheorems, TLAPS

Phases == {"idle", "back", "collect", "clear", "refetch"}

\* The parts of TypeOK, and what they rest on.
ForgeType ==
  /\ forge \in [Runs -> Revisions] /\ reruns \in 0..MaxReruns
  /\ \A r \in Runs : forge[r] <= 2 + 2 * reruns

KnownType ==
  /\ known \in [Runs -> Revisions] /\ discovered \in BOOLEAN
  /\ ~discovered => known = NoRuns
  /\ pc # "idle" => discovered

WorkerType ==
  /\ loaded \in BOOLEAN /\ error \in BOOLEAN /\ dirty \in BOOLEAN
  /\ watched \in SUBSET Runs /\ wakes \in SUBSET Runs /\ seen \in SUBSET Runs
  /\ pc \in Phases
  /\ pageNo \in Nat /\ pageNo <= MaxPages + 1 /\ stopOnKnown \in BOOLEAN
  /\ stale \in SUBSET Runs /\ Cardinality(stale) <= MaxWatched
  /\ asked \in BOOLEAN /\ outrun \in BOOLEAN
  /\ failures \in 0..MaxFailures /\ restarts \in 0..MaxRestarts

WebType ==
  /\ version \in 0..(VersionCycle - 1)
  /\ page \in [have : Versions, current : BOOLEAN]
  /\ cache \in [version : Versions, have : Versions, current : BOOLEAN]
  /\ req \in [at : {"none", "copied", "stamped"}, have : Versions, current : BOOLEAN]

TypeInv == ForgeType /\ KnownType /\ WorkerType /\ WebType

USE ConsoleAssumption DEF repoVars, workerVars, webVars, bounds, pastVars, Phases

LEMMA TypeInvImplies == TypeInv => TypeOK
<1>1. version \in 0..(VersionCycle - 1) => version \in Versions \ {None}
  BY DEF Versions
<1> QED
  BY <1>1 DEF TypeInv, ForgeType, KnownType, WorkerType, WebType, TypeOK

LEMMA ConstantsAre ==
  /\ 0 \in Revisions /\ 1 \in Revisions /\ 2 \in Revisions /\ Revisions \subseteq Nat
  /\ NoRuns \in [Runs -> Revisions]
  /\ 0..(VersionCycle - 1) \subseteq Versions /\ None \in Versions /\ 1 \in 0..(VersionCycle - 1)
  /\ IsFiniteSet(Runs) /\ Runs \subseteq Nat
  /\ MaxWatched \in Nat /\ MaxPages \in Nat /\ MaxPages >= 1 /\ HotPage \in Nat /\ FullPage \in Nat
  /\ HotPage >= 1 /\ HotPage < FullPage
<1>1. IsFiniteSet(Runs)
  BY FS_Interval DEF Runs
<1>2. MaxReruns \in Nat
  OBVIOUS
<1>3. 0 \in Revisions /\ 1 \in Revisions /\ 2 \in Revisions /\ Revisions \subseteq Nat
  BY <1>2 DEF Revisions
<1>4. NoRuns \in [Runs -> Revisions]
  BY <1>3 DEF NoRuns
<1>5. 0..(VersionCycle - 1) \subseteq Versions /\ None \in Versions /\ 1 \in 0..(VersionCycle - 1)
  BY DEF Versions
<1>6. MaxWatched \in Nat /\ MaxPages \in Nat /\ MaxPages >= 1 /\ HotPage \in Nat /\ FullPage \in Nat
      /\ HotPage >= 1 /\ HotPage < FullPage
  OBVIOUS
<1> QED
  BY <1>1, <1>3, <1>4, <1>5, <1>6 DEF Runs

LEMMA InitTypes == Init => TypeInv
<1> SUFFICES ASSUME Init PROVE TypeInv
  OBVIOUS
<1>1. ForgeType
  BY ConstantsAre DEF Init, ForgeType
<1>2. KnownType
  BY ConstantsAre DEF Init, KnownType
<1>3. WorkerType
  <2>1. Cardinality({}) = 0
    BY FS_EmptySet
  <2>2. 0 <= MaxWatched /\ 0 <= MaxPages + 1 /\ 0 \in 0..MaxFailures /\ 0 \in 0..MaxRestarts
    BY ConstantsAre
  <2> QED
    BY <2>1, <2>2 DEF Init, WorkerType
<1>4. WebType
  BY ConstantsAre DEF Init, WebType, NoCache, NoRequest
<1> QED
  BY <1>1, <1>2, <1>3, <1>4 DEF TypeInv

\* Forgejo counts a run's revisions up, and only as often as the page starts it again.
LEMMA ForgeTypes ==
  ASSUME TypeInv, [Next]_vars
  PROVE  ForgeType'
<1> USE DEF TypeInv, ForgeType
<1>1. CASE UNCHANGED <<forge, reruns>>
  BY <1>1
<1>2. CASE Rerun
  <2>1. PICK r \in Runs : Finished(known[r]) /\ Finished(forge[r]) /\ forge' = [forge EXCEPT ![r] = @ + 1]
    BY <1>2 DEF Rerun
  <2>2. reruns' = reruns + 1 /\ reruns' \in 0..MaxReruns /\ reruns \in Nat
    BY <1>2 DEF Rerun
  <2>3. forge[r] \in Nat /\ forge[r] + 1 <= 2 + 2 * reruns' /\ forge[r] + 1 \in Revisions
    BY <2>2, ConstantsAre DEF Revisions
  <2>4. \A s \in Runs : forge[s] \in Nat /\ forge[s] <= 2 + 2 * reruns'
    <3> SUFFICES ASSUME NEW s \in Runs PROVE forge[s] \in Nat /\ forge[s] <= 2 + 2 * reruns'
      OBVIOUS
    <3>1. forge[s] \in Nat /\ forge[s] <= 2 + 2 * reruns
      BY ConstantsAre
    <3> QED
      BY <2>2, <3>1
  <2> QED
    BY <2>1, <2>2, <2>3, <2>4
<1>3. CASE NewRun
  <2>1. forge' = [forge EXCEPT ![Top + 1] = 1] /\ reruns' = reruns
    BY <1>3 DEF NewRun
  <2>2. 1 <= 2 + 2 * reruns /\ 1 \in Revisions
    BY ConstantsAre
  <2> HIDE DEF TypeInv
  <2> QED
    BY <2>1, <2>2 DEF TypeInv
<1>4. ASSUME NEW r \in Runs, Finish(r)
      PROVE  ForgeType'
  <2>1. /\ forge[r] % 2 = 1 /\ forge' = [forge EXCEPT ![r] = @ + 1] /\ reruns' = reruns
        /\ forge[r] \in Nat /\ reruns \in Nat
    <3>1. forge[r] \in Revisions /\ reruns \in Nat
      OBVIOUS
    <3>2. forge[r] \in Nat
      BY <3>1, ConstantsAre
    <3> QED
      BY <1>4, <3>1, <3>2 DEF Finish, Active
  <2>2. forge[r] # 2 + 2 * reruns
    BY <2>1
  <2>3. forge[r] + 1 <= 2 + 2 * reruns /\ forge[r] + 1 \in Revisions
    BY <2>1, <2>2 DEF Revisions
  <2> QED
    BY <2>1, <2>3
<1>5. \/ UNCHANGED <<forge, reruns>>
      \/ Rerun \/ NewRun \/ \E r \in Runs : Finish(r)
  BY DEF Next, vars, Discover, WorkerStep, PollPage, Backfill, CollectStale, ClearWatched, Refetch, EndPoll,
     EndCycle, RefetchFails, PollFails, PollNotFound, PageStep, NotModified, AnswerCached, CopyRuns,
     StampVersion, Answer, Wake, Restart
<1> QED
  BY <1>1, <1>2, <1>3, <1>4, <1>5

LEMMA AbsorbTypes ==
  ASSUME TypeInv, NEW items, Absorb(items)
  PROVE  /\ known' \in [Runs -> Revisions] /\ dirty' \in BOOLEAN
         /\ \A r \in Runs : known'[r] = IF r \in items THEN forge[r] ELSE known[r]
BY DEF TypeInv, ForgeType, KnownType, WorkerType, Absorb, Differing

\* The session holds runs of a repository that it has, and only as Forgejo had them.
LEMMA KnownTypes ==
  ASSUME TypeInv, [Next]_vars
  PROVE  KnownType'
<1>1. CASE UNCHANGED <<known, discovered, pc>>
  BY <1>1 DEF TypeInv, KnownType
<1>2. CASE Discover
  BY <1>2 DEF TypeInv, KnownType, Discover
<1>3. CASE PollPage \/ Backfill \/ Refetch
  <2>1. discovered = TRUE /\ discovered' = discovered
    BY <1>3 DEF PollPage, Backfill, Refetch, TypeInv, KnownType
  <2>2. PICK items : Absorb(items)
    BY <1>3 DEF PollPage, Backfill, Refetch
  <2>3. known' \in [Runs -> Revisions]
    BY <2>2, AbsorbTypes
  <2> QED
    BY <2>1, <2>3 DEF KnownType
<1>4. CASE CollectStale \/ ClearWatched \/ RefetchFails
  BY <1>4 DEF TypeInv, KnownType, CollectStale, ClearWatched, RefetchFails
<1>5. CASE EndPoll \/ PollFails \/ PollNotFound
  <2>1. PICK runs \in {known, Dropped}, changed \in BOOLEAN : EndCycle(runs, changed)
    BY <1>5 DEF EndPoll, PollFails, PollNotFound
  <2>2. runs \in [Runs -> Revisions]
    BY <2>1, ConstantsAre DEF TypeInv, KnownType, Dropped
  <2>3. known' \in [Runs -> Revisions] /\ pc' = "idle"
    BY <2>1, <2>2, ConstantsAre DEF EndCycle
  <2>4. discovered' \in BOOLEAN /\ (~discovered' => known' = NoRuns)
    <3>1. CASE EndPoll \/ PollFails
      BY <3>1 DEF EndPoll, PollFails, TypeInv, KnownType
    <3>2. CASE PollNotFound
      BY <3>2 DEF PollNotFound, EndCycle, Dropped, NoRuns
    <3> QED
      BY <1>5, <3>1, <3>2
  <2> QED
    BY <2>3, <2>4 DEF KnownType
<1>6. CASE Restart
  BY <1>6, ConstantsAre DEF Restart, KnownType
<1>7. \/ UNCHANGED <<known, discovered, pc>>
      \/ Discover \/ PollPage \/ Backfill \/ Refetch \/ CollectStale \/ ClearWatched \/ RefetchFails
      \/ EndPoll \/ PollFails \/ PollNotFound \/ Restart
  BY DEF Next, vars, WorkerStep, PageStep, NotModified, AnswerCached, CopyRuns, StampVersion, Answer,
     Rerun, Wake, NewRun, Finish
<1> QED
  BY <1>1, <1>2, <1>3, <1>4, <1>5, <1>6, <1>7

\* The worker never fetches more than MAX_WATCHED runs.
LEMMA WorkerTypes ==
  ASSUME TypeInv, [Next]_vars
  PROVE  WorkerType'
<1> USE DEF TypeInv, WorkerType
<1>1. CASE UNCHANGED <<loaded, error, dirty, watched, wakes, workerVars, pastVars, failures, restarts>>
  BY <1>1
<1>2. CASE Discover
  BY <1>2 DEF Discover
<1>3. CASE PollPage
  <2>1. PICK items : Absorb(items) /\ items = PageOf(1, IF loaded THEN HotPage ELSE FullPage)
    BY <1>3 DEF PollPage
  <2>2. dirty' \in BOOLEAN
    BY <2>1, AbsorbTypes
  <2>3. seen' \in SUBSET Runs
    BY <1>3 DEF PollPage, PageOf
  <2>4. /\ pc' \in {"back", "collect"} /\ pageNo' \in {0, 1, 2} /\ stopOnKnown' \in BOOLEAN
    BY <1>3 DEF PollPage
  <2>5. pageNo' \in Nat /\ pageNo' <= MaxPages + 1
    BY <2>4, ConstantsAre
  <2> QED
    BY <1>3, <2>2, <2>3, <2>4, <2>5 DEF PollPage
<1>4. CASE Backfill
  <2>1. PICK items : Absorb(items)
    BY <1>4 DEF Backfill
  <2>2. dirty' \in BOOLEAN
    BY <2>1, AbsorbTypes
  <2>3. pc' \in {"back", "collect"} /\ stopOnKnown' \in BOOLEAN /\ outrun' \in BOOLEAN
    BY <1>4 DEF Backfill
  <2>4. pageNo' \in Nat /\ pageNo' <= MaxPages + 1
    BY <1>4, ConstantsAre DEF Backfill
  <2> QED
    BY <1>4, <2>2, <2>3, <2>4 DEF Backfill
<1>5. CASE CollectStale
  <2>1. stale' \in SUBSET Runs /\ (Cardinality(stale') = MaxWatched \/ Cardinality(stale') < MaxWatched)
    BY <1>5 DEF CollectStale, Picked, StaleRuns
  <2>2. Cardinality(stale') <= MaxWatched
    <3>1. IsFiniteSet(stale')
      BY <2>1, ConstantsAre, FS_Subset
    <3>2. Cardinality(stale') \in Nat /\ MaxWatched \in Nat
      BY <3>1, FS_CardinalityType, ConstantsAre
    <3> QED
      BY <2>1, <3>2
  <2> QED
    BY <1>5, <2>1, <2>2 DEF CollectStale
<1>6. CASE ClearWatched
  BY <1>6 DEF ClearWatched
<1>7. CASE Refetch \/ RefetchFails
  <2>1. PICK r \in stale : stale' = stale \ {r}
    BY <1>7 DEF Refetch, RefetchFails
  <2>2. stale' \in SUBSET Runs /\ Cardinality(stale') <= MaxWatched
    <3>1. IsFiniteSet(stale)
      BY ConstantsAre, FS_Subset
    <3>2. Cardinality(stale') = Cardinality(stale) - 1 /\ Cardinality(stale) \in Nat
      BY <2>1, <3>1, FS_RemoveElement, FS_CardinalityType
    <3> QED
      BY <2>1, <3>2, ConstantsAre
  <2>3. dirty' \in BOOLEAN
    BY <1>7, AbsorbTypes DEF Refetch, RefetchFails
  <2>4. failures' \in 0..MaxFailures
    <3>1. CASE Refetch
      BY <3>1 DEF Refetch
    <3>2. CASE RefetchFails
      <4>1. failures < MaxFailures /\ failures' = failures + 1 /\ failures \in 0..MaxFailures
        BY <3>2 DEF RefetchFails, Failing
      <4> QED
        BY <4>1
    <3> QED
      BY <1>7, <3>1, <3>2
  <2> QED
    BY <1>7, <2>2, <2>3, <2>4 DEF Refetch, RefetchFails
<1>8. CASE EndPoll \/ PollFails \/ PollNotFound
  <2>1. /\ dirty' = FALSE /\ pc' = "idle" /\ pageNo' = 0 /\ stopOnKnown' = FALSE /\ seen' = {} /\ stale' = {}
        /\ UNCHANGED <<wakes, pastVars, restarts>>
    BY <1>8 DEF EndPoll, PollFails, PollNotFound, EndCycle
  <2>2. loaded' \in BOOLEAN /\ error' \in BOOLEAN /\ watched' \in SUBSET Runs
    BY <1>8 DEF EndPoll, PollFails, PollNotFound
  <2>3. failures' \in 0..MaxFailures
    <3>1. CASE failures' = failures
      BY <3>1
    <3>2. CASE Failing
      <4>1. failures < MaxFailures /\ failures' = failures + 1 /\ failures \in 0..MaxFailures
        BY <3>2 DEF Failing
      <4> QED
        BY <4>1
    <3> QED
      BY <1>8, <3>1, <3>2 DEF EndPoll, PollFails, PollNotFound
  <2>4. Cardinality({}) = 0 /\ 0 <= MaxWatched /\ 0 <= MaxPages + 1
    BY FS_EmptySet, ConstantsAre
  <2> QED
    BY <2>1, <2>2, <2>3, <2>4
<1>9. CASE PageStep
  BY <1>9 DEF PageStep, NotModified, AnswerCached, CopyRuns, StampVersion, Answer
<1>10. CASE Rerun \/ Wake
  BY <1>10 DEF Rerun, Wake
<1>11. CASE Restart
  <2>1. Cardinality({}) = 0 /\ 0 <= MaxWatched /\ 0 <= MaxPages + 1
    BY FS_EmptySet, ConstantsAre
  <2>2. restarts' \in 0..MaxRestarts
    BY <1>11 DEF Restart
  <2> QED
    BY <1>11, <2>1, <2>2 DEF Restart
<1>12. CASE NewRun \/ \E r \in Runs : Finish(r)
  BY <1>12 DEF NewRun, Finish
<1>13. CASE UNCHANGED vars
  BY <1>13 DEF vars
<1> QED
  BY <1>2, <1>3, <1>4, <1>5, <1>6, <1>7, <1>8, <1>9, <1>10, <1>11, <1>12, <1>13 DEF Next, WorkerStep

\* Versions stay in their cycle, and what is cached or shown carries one.
LEMMA WebTypes ==
  ASSUME TypeInv, [Next]_vars
  PROVE  WebType'
<1> USE ConstantsAre DEF TypeInv, WebType
<1>1. Bumped \in 0..(VersionCycle - 1)
  BY DEF Bumped
<1>2. version' \in 0..(VersionCycle - 1)
  <2>1. version' \in {version, Bumped, 1}
    BY DEF Next, vars, WorkerStep, PageStep, Discover, DiscoverBump, PollPage, Backfill, CollectStale,
       ClearWatched, Refetch, RefetchFails, EndPoll, PollFails, PollNotFound, EndCycle, NotModified,
       AnswerCached, CopyRuns, StampVersion, Answer, Rerun, Wake, Restart, NewRun, Finish
  <2> QED
    BY <1>1, <2>1
<1>3. \A v \in 0..(VersionCycle - 1) : v \in Versions
  OBVIOUS
<1>4. CASE webVars' = webVars
  BY <1>2, <1>4
<1>5. CASE Outdate
  <2>1. CASE webVars' = webVars
    BY <1>2, <2>1
  <2>2. CASE /\ cache' = [cache EXCEPT !.current = FALSE]
             /\ req' = [req EXCEPT !.current = FALSE]
             /\ page' = [page EXCEPT !.current = FALSE]
    <3>1. cache' \in [version : Versions, have : Versions, current : BOOLEAN]
      BY <2>2
    <3>2. req' \in [at : {"none", "copied", "stamped"}, have : Versions, current : BOOLEAN]
      BY <2>2
    <3>3. page' \in [have : Versions, current : BOOLEAN]
      BY <2>2
    <3> QED
      BY <1>2, <3>1, <3>2, <3>3
  <2> QED
    BY <1>5, <2>1, <2>2 DEF Outdate
<1>6. CASE AnswerCached
  BY <1>2, <1>6 DEF AnswerCached
<1>11. CASE CopyRuns
  <2>1. [at |-> "copied", have |-> None, current |-> TRUE]
          \in [at : {"none", "copied", "stamped"}, have : Versions, current : BOOLEAN]
    OBVIOUS
  <2> QED
    BY <1>2, <1>11, <2>1 DEF CopyRuns
<1>7. CASE StampVersion
  BY <1>2, <1>3, <1>7 DEF StampVersion
<1>8. CASE Answer
  BY <1>2, <1>3, <1>8 DEF Answer, NoRequest
<1>9. CASE Restart
  BY <1>2, <1>9 DEF Restart, NoCache, NoRequest
<1>10. \/ webVars' = webVars \/ Outdate
       \/ AnswerCached \/ CopyRuns \/ StampVersion \/ Answer \/ Restart
  BY DEF Next, vars, WorkerStep, PageStep, Discover, PollPage, Backfill, CollectStale, Absorb,
     ClearWatched, Refetch, RefetchFails, EndPoll, PollFails, PollNotFound, EndCycle, NotModified,
     Rerun, Wake, NewRun, Finish
<1> QED
  BY <1>4, <1>5, <1>6, <1>7, <1>8, <1>9, <1>10, <1>11

LEMMA TypesHold == Spec => []TypeInv
<1>1. TypeInv /\ [Next]_vars => TypeInv'
  BY ForgeTypes, KnownTypes, WorkerTypes, WebTypes DEF TypeInv
<1> QED
  BY <1>1, InitTypes, PTL DEF Spec

\* Every variable of the console, its page and Forgejo holds values of its kind; the
\* session holds runs of repositories it has only, and fetches at most MAX_WATCHED.
THEOREM TypeCorrect == Spec => []TypeOK
BY TypesHold, TypeInvImplies, PTL

-----------------------------------------------------------------------------
(* Runs, pages and what the session holds. *)

\* Forgejo numbers runs without a gap.
TopInv == Top \in 0..LastRun /\ \A r \in Runs : forge[r] # 0 <=> r <= Top

Held == {r \in Runs : known[r] # 0}

\* Every run of the window that is older than one of K is in K.
Covered(K) == \A r \in Runs \ Old, s \in K : r < s => r \in K

\* Where the worker is, and what it has then.
PhaseInv ==
  /\ TopInv
  /\ \A r \in Held \cup wakes \cup watched \cup stale : r <= Top
  /\ pc = "idle" /\ ~loaded => Held = {}
  /\ stopOnKnown => loaded /\ pc = "back"
  /\ pc = "back" => pageNo >= 1 /\ (stopOnKnown \/ (~loaded /\ pageNo >= 2))
  /\ stale # {} => pc \in {"clear", "refetch"}

\* The first load leaves no gap above the page it has read; a later poll has found new
\* runs only, above those it had.  A run that is to be polled by its number is in the
\* session already, or will be when the first load ends.
GapInv ==
  /\ pc = "back" /\ stopOnKnown =>
       /\ pageNo = 1 /\ seen # {} /\ seen \subseteq Held /\ Covered(Held \ seen)
       /\ \A r \in Held \ seen, s \in seen : r < s
  /\ pc = "back" /\ ~stopOnKnown =>
       \A s \in Held, r \in Runs : r < s /\ r > Top - (pageNo - 1) * FullPage => r \in Held
  /\ pc # "back" => Covered(Held)
  /\ \A r \in wakes \cup watched \cup stale :
       \/ r \in Old \cup Held
       \/ ~loaded /\ pc = "idle"
       \/ ~loaded /\ pc = "back" /\ \E s \in Held : r <= s

\* The window is no longer than the pages a first load reads.
WindowFits == \A r \in Runs \ Old : LastRun - r < MaxPages * FullPage

Inv == TypeInv /\ PhaseInv /\ (failures = 0 /\ ~outrun => GapInv)

LEMMA TopIs ==
  ASSUME NEW f, NEW n \in 0..LastRun, \A r \in Runs : f[r] # 0 <=> r <= n
  PROVE  Cardinality({r \in Runs : f[r] # 0}) = n
<1>1. {r \in Runs : f[r] # 0} = 1..n
  BY DEF Runs
<1>2. Cardinality(1..n) = n
  BY FS_Interval
<1> QED
  BY <1>1, <1>2

LEMMA TopNext ==
  ASSUME TypeInv, TopInv, [Next]_vars
  PROVE  TopInv' /\ Top <= Top'
<1>1. Top \in 0..LastRun /\ LastRun \in Nat
  BY DEF TopInv
<1>2. ASSUME \A r \in Runs : forge'[r] # 0 <=> forge[r] # 0 PROVE TopInv' /\ Top <= Top'
  <2>1. \A r \in Runs : forge'[r] # 0 <=> r <= Top
    BY <1>2 DEF TopInv
  <2>2. Top' = Top
    BY <1>1, <2>1, TopIs DEF Top
  <2> QED
    BY <1>1, <2>1, <2>2 DEF TopInv
<1>3. CASE NewRun
  <2>1. Top < LastRun /\ forge' = [forge EXCEPT ![Top + 1] = 1] /\ forge \in [Runs -> Revisions]
    BY <1>3 DEF NewRun, TypeInv, ForgeType
  <2>2. \A r \in Runs : forge'[r] # 0 <=> r <= Top + 1
    <3> SUFFICES ASSUME NEW r \in Runs PROVE forge'[r] # 0 <=> r <= Top + 1
      OBVIOUS
    <3>1. r \in Nat
      BY DEF Runs
    <3>2. CASE r = Top + 1
      BY <2>1, <3>1, <3>2
    <3>3. CASE r # Top + 1
      <4>1. forge'[r] = forge[r]
        BY <2>1, <3>3
      <4> QED
        BY <1>1, <3>1, <3>3, <4>1 DEF TopInv
    <3> QED
      BY <3>2, <3>3
  <2>3. Top + 1 \in 0..LastRun
    BY <1>1, <2>1
  <2>4. Top' = Top + 1
    BY <2>2, <2>3, TopIs DEF Top
  <2> QED
    BY <1>1, <2>2, <2>3, <2>4 DEF TopInv
<1>4. CASE Rerun \/ \E r \in Runs : Finish(r)
  <2>1. PICK r \in Runs : forge' = [forge EXCEPT ![r] = @ + 1] /\ forge[r] # 0
    <3>1. \A q \in Runs : forge[q] \in Nat
      BY ConstantsAre DEF TypeInv, ForgeType
    <3>2. CASE Rerun
      <4>1. PICK r \in Runs : Finished(forge[r]) /\ forge' = [forge EXCEPT ![r] = @ + 1]
        BY <3>2 DEF Rerun
      <4>2. forge[r] # 0
        BY <3>1, <4>1 DEF Finished
      <4> QED
        BY <4>1, <4>2
    <3>3. CASE \E r \in Runs : Finish(r)
      <4>1. PICK r \in Runs : Active(forge[r]) /\ forge' = [forge EXCEPT ![r] = @ + 1]
        BY <3>3 DEF Finish
      <4>2. forge[r] # 0
        BY <3>1, <4>1 DEF Active
      <4> QED
        BY <4>1, <4>2
    <3> QED
      BY <1>4, <3>2, <3>3
  <2>2. forge \in [Runs -> Revisions] /\ forge[r] \in Nat
    BY ConstantsAre DEF TypeInv, ForgeType
  <2>3. \A q \in Runs : forge'[q] # 0 <=> forge[q] # 0
    BY <2>1, <2>2
  <2> QED
    BY <1>2, <2>3
<1>5. CASE forge' = forge
  BY <1>2, <1>5
<1>6. \/ forge' = forge
      \/ Rerun \/ NewRun \/ \E r \in Runs : Finish(r)
  BY DEF Next, vars, Discover, WorkerStep, PollPage, Backfill, CollectStale, ClearWatched, Refetch, EndPoll,
     EndCycle, RefetchFails, PollFails, PollNotFound, PageStep, NotModified, AnswerCached, CopyRuns,
     StampVersion, Answer, Wake, Restart
<1> QED
  BY <1>3, <1>4, <1>5, <1>6

\* A page that is not full reaches back to the first run.
LEMMA PagesAre ==
  ASSUME TopInv, NEW n \in Nat, n >= 1, NEW limit \in Nat, limit >= 1
  PROVE  /\ PageOf(n, limit) \in SUBSET Runs
         /\ \A r \in Runs : r \in PageOf(n, limit) <=> r <= Top - (n - 1) * limit /\ r > Top - n * limit
         /\ \A r \in PageOf(n, limit) : r <= Top
         /\ Cardinality(PageOf(n, limit)) # limit => \A r \in Runs : r > Top - n * limit
         /\ Cardinality(PageOf(n, limit)) \in Nat
<1> DEFINE items == PageOf(n, limit)
           low   == Top - n * limit
<1>1. n * limit \in Nat /\ (n - 1) * limit \in Nat /\ Top \in Nat /\ Top <= LastRun /\ low \in Int
  BY DEF TopInv
<1>2. (n - 1) * limit = n * limit - limit
  BY <1>1
<1>3. Top - (n - 1) * limit = low + limit
  BY <1>1, <1>2
<1>4. items \in SUBSET Runs /\ \A r \in Runs : r \in items <=> r <= low + limit /\ r > low
  BY <1>3 DEF PageOf
<1>5. \A r \in items : r <= Top
  <2>1. \A r \in Runs : r \in Nat
    BY DEF Runs
  <2> QED
    BY <1>1, <1>4, <2>1, <1>2
<1>6. ASSUME ~(\A r \in Runs : r > low) PROVE Cardinality(items) = limit
  <2> HIDE DEF low, items
  <2>1. PICK r \in Runs : ~(r > low)
    BY <1>6
  <2>2. low >= 1 /\ low + limit <= LastRun
    <3>1. r \in Nat /\ r >= 1
      BY DEF Runs
    <3>2. low + limit = Top - (n - 1) * limit
      BY <1>3
    <3> QED
      BY <1>1, <2>1, <3>1, <3>2
  <2>3. items = (low + 1)..(low + limit)
    <3>1. ASSUME NEW q \in items PROVE q \in (low + 1)..(low + limit)
      <4>1. q \in Nat /\ q <= low + limit /\ q > low
        BY <1>4 DEF Runs
      <4> QED
        BY <1>1, <4>1
    <3>2. ASSUME NEW q \in (low + 1)..(low + limit) PROVE q \in items
      <4>1. q \in Runs /\ q <= low + limit /\ q > low
        BY <1>1, <2>2 DEF Runs
      <4> QED
        BY <1>4, <4>1
    <3> QED
      BY <3>1, <3>2
  <2>4. Cardinality((low + 1)..(low + limit)) = limit
    <3>1. low + 1 \in Int /\ low + limit \in Int /\ ~(low + 1 > low + limit)
      BY <1>1
    <3> QED
      BY <1>1, <3>1, FS_Interval
  <2> QED
    BY <2>3, <2>4
<1>7. Cardinality(items) \in Nat
  BY <1>4, ConstantsAre, FS_Subset, FS_CardinalityType
<1> QED
  BY <1>3, <1>4, <1>5, <1>6, <1>7

LEMMA AbsorbHolds ==
  ASSUME TypeInv, TopInv, NEW items \in SUBSET Runs, \A r \in items : r <= Top, Absorb(items)
  PROVE  Held' = Held \cup items
<1>1. \A r \in Runs : known'[r] = IF r \in items THEN forge[r] ELSE known[r]
  BY AbsorbTypes
<1>2. \A r \in items : forge[r] # 0
  BY DEF TopInv
<1> QED
  BY <1>1, <1>2 DEF Held

-----------------------------------------------------------------------------
(* The steps. *)

GapOK == failures = 0 /\ ~outrun => GapInv

\* Steps that leave the worker where it is and the session as it is.
LEMMA QuietStep ==
  ASSUME Inv, [Next]_vars, UNCHANGED <<known, loaded, pc, pageNo, stopOnKnown, seen>>,
         stale' \subseteq stale, wakes' \cup watched' \subseteq wakes \cup watched \cup Held,
         failures' = 0 => failures = 0, outrun' = outrun
  PROVE  PhaseInv' /\ GapOK'
<1>1. TopInv' /\ Top <= Top' /\ Top \in Nat /\ Top' \in Nat
  BY TopNext DEF Inv, PhaseInv, TopInv
<1>2. Held' = Held
  BY DEF Held
<1>3. \A r \in Runs : r \in Nat
  BY DEF Runs
<1>4. PhaseInv'
  <2>1. \A r \in Held \cup wakes' \cup watched' \cup stale' : r \in Runs /\ r <= Top
    BY DEF Inv, PhaseInv, TypeInv, WorkerType, Held
  <2>2. \A r \in Held' \cup wakes' \cup watched' \cup stale' : r <= Top'
    BY <1>1, <1>2, <1>3, <2>1
  <2> QED
    BY <1>1, <1>2, <2>2 DEF Inv, PhaseInv
<1>5. ASSUME GapInv PROVE GapInv'
  <2>1. CASE pc = "back" /\ ~stopOnKnown
    <3>1. \A s \in Held', r \in Runs : r < s /\ r > Top' - (pageNo' - 1) * FullPage => r \in Held'
      <4> SUFFICES ASSUME NEW s \in Held, NEW r \in Runs, r < s, r > Top' - (pageNo' - 1) * FullPage
                   PROVE  r \in Held
        BY <1>2
      <4>1. (pageNo - 1) * FullPage \in Int /\ pageNo' = pageNo
        BY ConstantsAre DEF Inv, TypeInv, WorkerType
      <4>2. r > Top - (pageNo - 1) * FullPage
        BY <1>1, <1>3, <4>1
      <4> QED
        BY <1>5, <2>1, <4>2 DEF GapInv
    <3> QED
      BY <1>2, <1>5, <2>1, <3>1 DEF GapInv
  <2>2. CASE ~(pc = "back" /\ ~stopOnKnown)
    BY <1>2, <1>5, <2>2 DEF GapInv
  <2> QED
    BY <2>1, <2>2
<1> QED
  BY <1>4, <1>5 DEF GapOK, Inv

\* The first page of a poll.
LEMMA PollPageStep ==
  ASSUME Inv, PollPage
  PROVE  PhaseInv' /\ GapOK'
<1> DEFINE limit == IF loaded THEN HotPage ELSE FullPage
           items == PageOf(1, limit)
           low   == Top - limit
<1>1. /\ pc = "idle" /\ Absorb(items) /\ seen' = items
      /\ pc' = IF ReadOn(items) THEN "back" ELSE "collect"
      /\ pageNo' = (IF ReadOn(items) THEN IF loaded THEN 1 ELSE 2 ELSE 0)
      /\ stopOnKnown' = (ReadOn(items) /\ loaded)
      /\ UNCHANGED <<forge, loaded, watched, stale, wakes, outrun, failures>>
  BY DEF PollPage
<1>2. limit \in Nat /\ limit >= 1 /\ Top \in Nat /\ Top <= LastRun /\ loaded \in BOOLEAN /\ low \in Int
  BY ConstantsAre DEF Inv, PhaseInv, TopInv, TypeInv, WorkerType
<1>3. /\ items \in SUBSET Runs
      /\ \A r \in Runs : r \in items <=> r <= Top /\ r > low
      /\ \A r \in items : r <= Top
      /\ Cardinality(items) # limit => \A r \in Runs : r > low
  <2>1. 1 * limit = limit /\ (1 - 1) * limit = 0 /\ Top - 0 = Top
    BY <1>2
  <2> HIDE DEF limit
  <2> QED
    BY <1>2, <2>1, PagesAre DEF Inv, PhaseInv
<1>4. Held' = Held \cup items /\ Top' = Top /\ TopInv'
  BY <1>1, <1>3, AbsorbHolds DEF Inv, PhaseInv, TopInv, Top
<1>5. \A r \in Runs : r \in Nat /\ r >= 1
  BY DEF Runs
<1>6. stale = {}
  BY <1>1 DEF Inv, PhaseInv
<1>7. \A r \in Held \cup wakes \cup watched : r \in Runs /\ r <= Top
  BY DEF Inv, PhaseInv, TypeInv, WorkerType, Held
<1> HIDE DEF items, low, limit
<1>8. PhaseInv'
  <2>1. \A r \in Held' \cup wakes' \cup watched' \cup stale' : r <= Top'
    BY <1>1, <1>3, <1>4, <1>6, <1>7
  <2>2. pc' # "idle" /\ (stopOnKnown' => loaded' /\ pc' = "back")
    BY <1>1, <1>2
  <2>3. pc' = "back" => pageNo' >= 1 /\ (stopOnKnown' \/ (~loaded' /\ pageNo' >= 2))
    <3>1. CASE ReadOn(items) /\ loaded
      <4>1. pageNo' = 1 /\ stopOnKnown'
        BY <1>1, <3>1
      <4> QED
        BY <4>1
    <3>2. CASE ReadOn(items) /\ ~loaded
      <4>1. pageNo' = 2 /\ ~loaded'
        BY <1>1, <3>2
      <4> QED
        BY <4>1
    <3>3. CASE ~ReadOn(items)
      BY <1>1, <3>3
    <3> QED
      BY <3>1, <3>2, <3>3
  <2> QED
    BY <1>1, <1>4, <1>6, <2>1, <2>2, <2>3 DEF PhaseInv
<1>9. ASSUME GapInv PROVE GapInv'
  <2>1. Covered(Held) /\ (\A r \in wakes \cup watched : r \in Old \cup Held \/ ~loaded)
    BY <1>1, <1>9 DEF GapInv
  <2>2. CASE loaded /\ ReadOn(items)
    <3>1. Cardinality(items) = HotPage /\ \A r \in items : r \notin Held
      BY <2>2 DEF ReadOn, Added, Held
    <3>2. items # {}
      BY <3>1, ConstantsAre, FS_EmptySet
    <3>3. Held' \ seen' = Held /\ seen' \subseteq Held'
      BY <1>1, <1>4, <3>1
    <3>4. \A r \in Held, s \in items : r < s
      <4> SUFFICES ASSUME NEW r \in Held, NEW s \in items PROVE r < s
        OBVIOUS
      <4>1. r \in Nat /\ s \in Nat /\ s > low /\ r <= Top /\ r \in Runs
        BY <1>3, <1>5, <1>7
      <4>2. ~(r > low)
        BY <1>3, <3>1, <4>1
      <4> QED
        BY <1>2, <4>1, <4>2
    <3> QED
      BY <1>1, <1>4, <1>6, <2>1, <2>2, <3>2, <3>3, <3>4 DEF GapInv
  <2>3. CASE loaded /\ ~ReadOn(items)
    <3>1. (\A r \in Runs : r > low) \/ \E o \in items : o \in Held
      BY <1>3, <2>3 DEF ReadOn, Added, Held, limit
    <3>2. Covered(Held')
      <4> SUFFICES ASSUME NEW r \in Runs \ Old, NEW s \in Held', r < s PROVE r \in Held'
        BY DEF Covered
      <4>1. r \in Nat /\ s \in Nat /\ s <= Top
        BY <1>3, <1>4, <1>5, <1>7
      <4>2. CASE r > low
        BY <1>2, <1>3, <1>4, <4>1, <4>2
      <4>3. CASE ~(r > low)
        <5>1. PICK o \in items : o \in Held
          BY <3>1, <4>3
        <5>2. r < o
          BY <1>2, <1>3, <1>5, <4>1, <4>3, <5>1
        <5> QED
          BY <1>4, <2>1, <5>1, <5>2 DEF Covered
      <4> QED
        BY <4>2, <4>3
    <3> QED
      BY <1>1, <1>4, <1>6, <2>1, <2>3, <3>2 DEF GapInv
  <2>4. CASE ~loaded
    <3>1. Held' = items
      BY <1>1, <1>4, <2>4 DEF Inv, PhaseInv
    <3>2. \A r \in Runs : r > low /\ r <= Top => r \in items
      BY <1>3
    <3>3. CASE ReadOn(items)
      <4>1. limit = FullPage /\ (2 - 1) * FullPage = FullPage
        BY <2>4, ConstantsAre DEF limit
      <4>2. \A s \in items, r \in Runs : r < s /\ r > Top - (2 - 1) * FullPage => r \in items
        <5> SUFFICES ASSUME NEW s \in items, NEW r \in Runs, r < s, r > low PROVE r \in items
          BY <4>1 DEF low
        <5> QED
          BY <1>2, <1>3, <1>5, <3>2
      <4>3. ASSUME NEW r \in wakes \cup watched PROVE \E s \in items : r <= s
        <5>1. r \in Nat /\ r >= 1 /\ r <= Top
          BY <1>5, <1>7
        <5>2. Top \in Runs /\ Top > low
          BY <1>2, <5>1 DEF Runs, low
        <5>3. Top \in items
          BY <1>2, <3>2, <5>2
        <5> QED
          BY <5>1, <5>3
      <4> QED
        BY <1>1, <1>4, <1>6, <2>4, <3>1, <3>3, <4>2, <4>3 DEF GapInv
    <3>4. CASE ~ReadOn(items)
      <4>1. (\A r \in Runs : r > low) \/ \E o \in items : o \in Old
        BY <1>3, <2>4, <3>4 DEF ReadOn, limit
      <4>2. \A r \in Runs \ Old : r > low
        <5> SUFFICES ASSUME NEW r \in Runs \ Old, NEW o \in items, o \in Old PROVE r > low
          BY <4>1
        <5>1. r \notin 1..o
          OBVIOUS
        <5>2. r > o
          BY <1>3, <1>5, <5>1
        <5> QED
          BY <1>2, <1>3, <1>5, <5>2
      <4>3. Covered(items)
        <5> SUFFICES ASSUME NEW r \in Runs \ Old, NEW s \in items, r < s PROVE r \in items
          BY DEF Covered
        <5> QED
          BY <1>2, <1>3, <1>5, <3>2, <4>2
      <4>4. \A r \in wakes \cup watched : r \in Old \cup items
        BY <1>7, <3>2, <4>2
      <4> QED
        BY <1>1, <1>6, <2>4, <3>1, <3>4, <4>3, <4>4 DEF GapInv
    <3> QED
      BY <3>3, <3>4
  <2> QED
    BY <2>2, <2>3, <2>4
<1> QED
  BY <1>1, <1>8, <1>9 DEF Inv, GapOK

\* A further page: of the first load, or behind a page of nothing but new runs.
LEMMA BackfillStep ==
  ASSUME Inv, WindowFits, Backfill
  PROVE  PhaseInv' /\ GapOK'
<1> DEFINE items == PageOf(pageNo, FullPage)
           low   == Top - pageNo * FullPage
           done  == \/ Cardinality(items) < FullPage \/ pageNo >= MaxPages
                    \/ items \cap Old # {}
                    \/ (stopOnKnown /\ Added(items) # items)
<1>1. /\ pc = "back" /\ Absorb(items)
      /\ pc' = IF done THEN "collect" ELSE "back"
      /\ pageNo' = IF done THEN 0 ELSE pageNo + 1
      /\ stopOnKnown' = (stopOnKnown /\ ~done)
      /\ outrun' = (outrun \/ Outruns(items))
      /\ UNCHANGED <<forge, loaded, watched, stale, wakes, seen, failures>>
  BY DEF Backfill
<1>2. /\ pageNo \in Nat /\ pageNo >= 1 /\ Top \in Nat /\ Top <= LastRun /\ LastRun \in Nat
      /\ FullPage \in Nat /\ FullPage >= 1 /\ MaxPages \in Nat
      /\ stopOnKnown \in BOOLEAN /\ outrun \in BOOLEAN /\ seen \in SUBSET Runs
  BY <1>1, ConstantsAre DEF Inv, PhaseInv, TopInv, TypeInv, WorkerType
<1>3. low \in Int /\ pageNo * FullPage \in Nat /\ Top - (pageNo - 1) * FullPage = low + FullPage
  <2>1. pageNo * FullPage \in Nat /\ (pageNo - 1) * FullPage = pageNo * FullPage - FullPage
    BY <1>2
  <2> QED
    BY <1>2, <2>1
<1>4. /\ items \in SUBSET Runs
      /\ \A r \in Runs : r \in items <=> r <= low + FullPage /\ r > low
      /\ \A r \in items : r <= Top
      /\ Cardinality(items) # FullPage => \A r \in Runs : r > low
      /\ Cardinality(items) \in Nat
  BY <1>2, <1>3, PagesAre DEF Inv, PhaseInv
<1>5. Held' = Held \cup items /\ Top' = Top /\ TopInv'
  BY <1>1, <1>4, AbsorbHolds DEF Inv, PhaseInv, TopInv, Top
<1>6. \A r \in Runs : r \in Nat /\ r >= 1
  BY DEF Runs
<1>7. stale = {}
  BY <1>1 DEF Inv, PhaseInv
<1>8. \A r \in Held \cup wakes \cup watched : r \in Runs /\ r <= Top
  BY DEF Inv, PhaseInv, TypeInv, WorkerType, Held
<1>9. (stopOnKnown => loaded) /\ (~stopOnKnown => ~loaded /\ pageNo >= 2)
  BY <1>1 DEF Inv, PhaseInv
<1>10. Added(items) # items => \E o \in items : o \in Held
  <2>1. items \subseteq Runs
    BY <1>4
  <2> QED
    BY <2>1 DEF Added, Held
<1>11. pageNo >= MaxPages => \A r \in Runs \ Old : r > low
  <2> SUFFICES ASSUME pageNo >= MaxPages, NEW r \in Runs \ Old PROVE r > low
    OBVIOUS
  <2>1. LastRun - r < MaxPages * FullPage /\ r \in Nat
    BY <1>6 DEF WindowFits
  <2>2. MaxPages * FullPage <= pageNo * FullPage /\ MaxPages * FullPage \in Nat
    <3>1. \A a, b, c \in Nat : a >= b => b * c <= a * c
      OBVIOUS
    <3> QED
      BY <1>2, <3>1
  <2> QED
    BY <1>2, <1>3, <2>1, <2>2
<1> HIDE DEF items, low
<1>12. PhaseInv'
  <2>1. \A r \in Held' \cup wakes' \cup watched' \cup stale' : r <= Top'
    BY <1>1, <1>4, <1>5, <1>7, <1>8
  <2>2. pc' # "idle" /\ (stopOnKnown' => loaded' /\ pc' = "back")
    BY <1>1, <1>9
  <2>3. pc' = "back" => pageNo' >= 1 /\ (stopOnKnown' \/ (~loaded' /\ pageNo' >= 2))
    <3> SUFFICES ASSUME ~done PROVE pageNo' >= 1 /\ (stopOnKnown' \/ (~loaded' /\ pageNo' >= 2))
      BY <1>1
    <3>1. pageNo' = pageNo + 1 /\ (stopOnKnown' <=> stopOnKnown) /\ (loaded' <=> loaded)
      BY <1>1
    <3> QED
      BY <1>2, <1>9, <3>1
  <2> QED
    BY <1>1, <1>5, <1>7, <2>1, <2>2, <2>3 DEF PhaseInv
<1>13. ASSUME GapInv, ~outrun, ~Outruns(items) PROVE GapInv'
  <2>1. CASE stopOnKnown
    <3>1. /\ pageNo = 1 /\ seen # {} /\ seen \subseteq Held /\ Covered(Held \ seen) /\ loaded
          /\ \A r \in Held \ seen, s \in seen : r < s
          /\ \A r \in wakes \cup watched : r \in Old \cup Held
      BY <1>1, <1>9, <1>13, <2>1 DEF GapInv
    <3>2. low + FullPage = Top /\ \A r \in Runs : r \in items <=> r <= Top /\ r > low
      <4>1. low + FullPage = Top
        BY <1>2, <1>3, <3>1
      <4> QED
        BY <1>4, <4>1
    <3>3. PICK o \in {0} \cup (Held \ seen), i \in items : ~(o + 1 < i)
      BY <1>13, <2>1 DEF Outruns, Held
    <3>4. o \in Nat /\ i \in Nat /\ i <= o + 1 /\ i > low
      BY <1>4, <1>6, <1>8, <3>2, <3>3
    <3>5. \E s \in items : s \in Held
      <4>1. PICK s \in seen : TRUE
        BY <3>1
      <4>2. s \in Held /\ s \in Nat /\ s <= Top
        BY <1>6, <1>8, <3>1
      <4>3. CASE s \in items
        BY <4>2, <4>3
      <4>4. CASE s \notin items
        <5>1. s <= low
          BY <1>2, <1>3, <1>8, <3>2, <4>2, <4>4
        <5>2. o = 0 \/ (o \in Held \ seen /\ o < s)
          BY <3>1, <3>3, <4>1
        <5>3. FALSE
          <6>1. s >= 1 /\ s \in Nat
            BY <1>6, <1>8, <4>2
          <6>2. o < s
            BY <3>4, <5>2, <6>1
          <6> QED
            BY <1>3, <3>4, <5>1, <6>1, <6>2
        <5> QED
          BY <5>3
      <4> QED
        BY <4>3, <4>4
    <3>6. done
      BY <2>1, <3>5 DEF Added, Held
    <3>7. Covered(Held')
      <4> SUFFICES ASSUME NEW r \in Runs \ Old, NEW s \in Held', r < s PROVE r \in Held'
        BY DEF Covered
      <4>1. r \in Nat /\ s \in Nat /\ s <= Top
        BY <1>4, <1>5, <1>6, <1>8
      <4>2. CASE r > low
        BY <1>2, <1>5, <3>2, <4>1, <4>2
      <4>3. CASE ~(r > low)
        <5>1. r <= o
          BY <1>3, <3>4, <4>1, <4>3
        <5>2. o \in Held \ seen
          BY <1>6, <3>3, <4>1, <5>1
        <5>3. r \in Held
          <6>1. CASE r = o
            BY <5>2, <6>1
          <6>2. CASE r < o
            BY <3>1, <5>2, <6>2 DEF Covered
          <6> QED
            BY <3>4, <4>1, <5>1, <6>1, <6>2
        <5> QED
          BY <1>5, <5>3
      <4> QED
        BY <4>2, <4>3
    <3> QED
      BY <1>1, <1>5, <1>7, <3>1, <3>6, <3>7 DEF GapInv
  <2>2. CASE ~stopOnKnown
    <3>1. \A s \in Held, r \in Runs : r < s /\ r > low + FullPage => r \in Held
      BY <1>1, <1>3, <1>13, <2>2 DEF GapInv
    <3>2. \A s \in Held', r \in Runs : r < s /\ r > low => r \in Held'
      <4> SUFFICES ASSUME NEW s \in Held', NEW r \in Runs, r < s, r > low PROVE r \in Held'
        OBVIOUS
      <4>1. r \in Nat /\ s \in Nat
        BY <1>4, <1>5, <1>6, <1>8
      <4>2. CASE r <= low + FullPage
        BY <1>4, <1>5, <4>2
      <4>3. CASE r > low + FullPage
        <5>1. s \in Held
          BY <1>2, <1>3, <1>4, <1>5, <4>1, <4>3
        <5> QED
          BY <1>5, <3>1, <4>3, <5>1
      <4> QED
        BY <1>2, <1>3, <4>1, <4>2, <4>3
    <3>3. /\ ~loaded
          /\ \A r \in wakes \cup watched : r \in Old \cup Held \/ \E s \in Held : r <= s
      BY <1>1, <1>9, <1>13, <2>2 DEF GapInv
    <3>4. CASE ~done
      <4>1. pageNo' - 1 = pageNo /\ Top' - (pageNo' - 1) * FullPage = low
        BY <1>1, <1>2, <1>5, <3>4 DEF low
      <4>2. \A r \in wakes \cup watched : r \in Old \cup Held' \/ \E s \in Held' : r <= s
        BY <1>5, <3>3
      <4>3. pc' = "back" /\ ~stopOnKnown'
        BY <1>1, <2>2, <3>4
      <4> QED
        BY <1>1, <1>7, <3>2, <3>3, <4>1, <4>2, <4>3 DEF GapInv
    <3>5. CASE done
      <4>1. \A r \in Runs \ Old : r > low
        <5>1. CASE Cardinality(items) < FullPage
          BY <1>2, <1>4, <5>1
        <5>2. CASE pageNo >= MaxPages
          BY <1>11, <5>2
        <5>3. CASE items \cap Old # {}
          <6>1. PICK o \in items : o \in Old
            BY <5>3
          <6> SUFFICES ASSUME NEW r \in Runs \ Old PROVE r > low
            OBVIOUS
          <6>2. r \notin 1..o
            BY <6>1
          <6>3. r > o /\ o > low /\ o \in Nat /\ r \in Nat
            BY <1>4, <1>6, <6>1, <6>2
          <6> QED
            BY <1>3, <6>3
        <5> QED
          BY <2>2, <3>5, <5>1, <5>2, <5>3
      <4>2. Covered(Held')
        BY <3>2, <4>1 DEF Covered
      <4>3. \A r \in wakes \cup watched : r \in Old \cup Held'
        <5> SUFFICES ASSUME NEW r \in wakes \cup watched, r \notin Old, NEW s \in Held, r <= s
                     PROVE  r \in Held'
          BY <1>5, <3>3
        <5>1. r \in Runs /\ r \in Nat /\ s \in Nat /\ r > low
          BY <1>6, <1>8, <4>1
        <5>2. CASE r = s
          BY <1>5, <5>2
        <5>3. CASE r < s
          BY <1>5, <3>2, <5>1, <5>3
        <5> QED
          BY <5>1, <5>2, <5>3
      <4> QED
        BY <1>1, <1>7, <2>2, <3>5, <4>2, <4>3 DEF GapInv
    <3> QED
      BY <3>4, <3>5
  <2> QED
    BY <1>2, <2>1, <2>2
<1>14. ASSUME failures' = 0, ~outrun' PROVE GapInv'
  <2>1. failures = 0 /\ ~outrun /\ ~Outruns(items)
    BY <1>1, <1>14
  <2> QED
    BY <1>13, <2>1 DEF Inv
<1> QED
  BY <1>12, <1>14 DEF GapOK

\* refresh_watched fetches runs that the session has or that the page asked for.
LEMMA WatchedStep ==
  ASSUME Inv, CollectStale \/ ClearWatched
  PROVE  PhaseInv' /\ GapOK'
<1>1. /\ pc \in {"collect", "clear"} /\ pc' \in {"clear", "refetch"}
      /\ UNCHANGED <<forge, known, loaded, stopOnKnown, wakes, outrun, failures>>
  BY DEF CollectStale, ClearWatched
<1>2. stale' \cup watched' \subseteq stale \cup watched \cup Held
  <2>1. CASE CollectStale
    <3>1. stale' \subseteq StaleRuns \cup (watched \ seen) /\ watched' = watched
      BY <2>1 DEF CollectStale, Picked
    <3>2. StaleRuns \subseteq Held
      <4>1. \A r \in Runs : Active(known[r]) => known[r] # 0
        BY DEF Active
      <4> QED
        BY <4>1 DEF StaleRuns, Held
    <3> QED
      BY <3>1, <3>2
  <2>2. CASE ClearWatched
    BY <2>2 DEF ClearWatched
  <2> QED
    BY <2>1, <2>2
<1>3. Held' = Held /\ Top' = Top /\ TopInv'
  BY <1>1 DEF Held, Top, Inv, PhaseInv, TopInv
<1>4. PhaseInv'
  BY <1>1, <1>2, <1>3 DEF Inv, PhaseInv
<1>5. ASSUME GapInv PROVE GapInv'
  <2>1. Covered(Held) /\ \A r \in wakes \cup watched \cup stale : r \in Old \cup Held
    BY <1>1, <1>5 DEF GapInv
  <2> QED
    BY <1>1, <1>2, <1>3, <2>1 DEF GapInv
<1> QED
  BY <1>1, <1>4, <1>5 DEF Inv, GapOK

LEMMA RefetchStep ==
  ASSUME Inv, Refetch
  PROVE  PhaseInv' /\ GapOK'
<1>1. PICK r \in stale : Absorb({r}) /\ stale' = stale \ {r}
  BY DEF Refetch
<1>2. /\ pc = "refetch"
      /\ UNCHANGED <<forge, loaded, pc, pageNo, stopOnKnown, watched, wakes, outrun, failures>>
  BY DEF Refetch
<1>3. r \in Runs /\ r <= Top
  BY DEF Inv, TypeInv, WorkerType, PhaseInv
<1>4. Held' = Held \cup {r} /\ Top' = Top /\ TopInv'
  BY <1>1, <1>2, <1>3, AbsorbHolds DEF Inv, PhaseInv, TopInv, Top
<1>5. PhaseInv'
  BY <1>1, <1>2, <1>3, <1>4 DEF Inv, PhaseInv
<1>6. ASSUME GapInv PROVE GapInv'
  <2>1. Covered(Held) /\ \A q \in wakes \cup watched \cup stale : q \in Old \cup Held
    BY <1>2, <1>6 DEF GapInv
  <2>2. Covered(Held')
    <3> SUFFICES ASSUME NEW q \in Runs \ Old, NEW s \in Held', q < s PROVE q \in Held'
      BY DEF Covered
    <3>1. CASE s \in Held
      BY <1>4, <2>1, <3>1 DEF Covered
    <3>2. CASE s \notin Held
      <4>1. s = r /\ s \in Old /\ s \in Nat /\ q \in Nat /\ q >= 1
        BY <1>1, <1>3, <1>4, <2>1, <3>2 DEF Runs
      <4>2. q \in 1..s
        BY <4>1
      <4> QED
        BY <4>1, <4>2
    <3> QED
      BY <3>1, <3>2
  <2> QED
    BY <1>1, <1>2, <1>4, <2>1, <2>2 DEF GapInv
<1> QED
  BY <1>2, <1>5, <1>6 DEF Inv, GapOK

\* A cycle that ends prunes runs outside the window only.
LEMMA EndStep ==
  ASSUME Inv, EndPoll \/ PollFails \/ PollNotFound
  PROVE  PhaseInv' /\ GapOK'
<1>1. PICK runs \in {known, Dropped}, changed \in BOOLEAN : EndCycle(runs, changed)
  BY DEF EndPoll, PollFails, PollNotFound
<1>2. /\ known' = [r \in Runs |-> IF r \in Pruned(runs) THEN 0 ELSE runs[r]]
      /\ pc' = "idle" /\ stopOnKnown' = FALSE /\ stale' = {}
      /\ UNCHANGED <<forge, wakes, outrun>>
      /\ watched' \subseteq watched
  BY <1>1 DEF EndCycle, EndPoll, PollFails, PollNotFound
<1>3. Held' \subseteq Held /\ Top' = Top /\ TopInv'
  BY <1>1, <1>2 DEF Held, Dropped, NoRuns, Top, Inv, PhaseInv, TopInv
<1>4. ~loaded' => Held' = {}
  <2>1. CASE EndPoll \/ PollFails
    BY <2>1 DEF EndPoll, PollFails
  <2>2. CASE PollNotFound
    BY <2>2 DEF PollNotFound, EndCycle, Dropped, NoRuns, Held
  <2> QED
    BY <2>1, <2>2
<1>5. PhaseInv'
  BY <1>2, <1>3, <1>4 DEF Inv, PhaseInv
<1>6. CASE PollFails \/ PollNotFound
  <2>1. failures' = failures + 1
    BY <1>6 DEF PollFails, PollNotFound, Failing
  <2>2. failures \in Nat
    BY DEF Inv, TypeInv, WorkerType
  <2>3. failures' # 0
    BY <2>1, <2>2
  <2> QED
    BY <1>5, <2>3 DEF GapOK
<1>7. CASE EndPoll
  <2>1. /\ pc = "refetch" /\ failures' = failures
        /\ known' = [r \in Runs |-> IF r \in Pruned(known) THEN 0 ELSE known[r]]
    BY <1>7 DEF EndPoll, EndCycle
  <2>2. \A r \in Held : r \in Held' \/ r \in Old
    BY <2>1 DEF Held, Pruned
  <2>3. ASSUME GapInv PROVE GapInv'
    <3>1. Covered(Held) /\ \A r \in wakes \cup watched \cup stale : r \in Old \cup Held
      BY <2>1, <2>3 DEF GapInv
    <3>2. Covered(Held')
      BY <1>3, <2>2, <3>1 DEF Covered
    <3> QED
      BY <1>2, <2>2, <3>1, <3>2 DEF GapInv
  <2> QED
    BY <1>2, <1>5, <2>1, <2>3 DEF Inv, GapOK
<1> QED
  BY <1>6, <1>7

\* A new session holds nothing.
LEMMA RestartStep ==
  ASSUME Inv, Restart
  PROVE  PhaseInv' /\ GapOK'
<1>1. /\ known' = NoRuns /\ loaded' = FALSE /\ pc' = "idle" /\ stopOnKnown' = FALSE
      /\ watched' = {} /\ stale' = {}
      /\ UNCHANGED <<forge, wakes, failures>>
  BY DEF Restart
<1>2. Held' = {} /\ Top' = Top /\ TopInv'
  BY <1>1 DEF Held, NoRuns, Top, Inv, PhaseInv, TopInv
<1>3. PhaseInv'
  BY <1>1, <1>2 DEF Inv, PhaseInv
<1>4. GapInv'
  BY <1>1, <1>2 DEF GapInv, Covered
<1> QED
  BY <1>3, <1>4 DEF GapOK

LEMMA InitInv == Init => Inv
<1> SUFFICES ASSUME Init PROVE Inv
  OBVIOUS
<1>1. TypeInv
  BY InitTypes
<1>2. Held = {}
  BY DEF Init, NoRuns, Held
<1>3. TopInv
  <2>1. FirstRuns \in 0..LastRun /\ \A r \in Runs : forge[r] # 0 <=> r <= FirstRuns
    BY DEF Init
  <2>2. Top = FirstRuns
    BY <2>1, TopIs DEF Top
  <2> QED
    BY <2>1, <2>2 DEF TopInv
<1>4. PhaseInv
  BY <1>2, <1>3 DEF Init, PhaseInv
<1>5. GapInv
  BY <1>2 DEF Init, GapInv, Covered
<1> QED
  BY <1>1, <1>4, <1>5 DEF Inv

LEMMA NextInv ==
  ASSUME WindowFits, Inv, [Next]_vars
  PROVE  Inv'
<1>1. TypeInv'
  BY ForgeTypes, KnownTypes, WorkerTypes, WebTypes DEF Inv, TypeInv
<1>2. failures \in Nat
  BY DEF Inv, TypeInv, WorkerType
<1>3. CASE PollPage \/ Backfill
  BY <1>1, <1>3, PollPageStep, BackfillStep DEF Inv, GapOK
<1>4. CASE CollectStale \/ ClearWatched \/ Refetch
  BY <1>1, <1>4, WatchedStep, RefetchStep DEF Inv, GapOK
<1>5. CASE EndPoll \/ PollFails \/ PollNotFound \/ Restart
  BY <1>1, <1>5, EndStep, RestartStep DEF Inv, GapOK
<1>6. CASE Discover \/ PageStep \/ NewRun \/ (\E r \in Runs : Finish(r)) \/ UNCHANGED vars
  <2>1. /\ UNCHANGED <<known, loaded, pc, pageNo, stopOnKnown, seen, stale, wakes, watched, failures>>
        /\ outrun' = outrun
    BY <1>6 DEF Discover, PageStep, NotModified, AnswerCached, CopyRuns, StampVersion, Answer, NewRun,
       Finish, vars
  <2> QED
    BY <1>1, <2>1, QuietStep DEF Inv, GapOK
<1>7. CASE RefetchFails
  <2>1. /\ UNCHANGED <<known, loaded, pc, pageNo, stopOnKnown, seen, wakes, watched>>
        /\ outrun' = outrun /\ stale' \subseteq stale /\ failures' = failures + 1
    BY <1>7 DEF RefetchFails, Failing
  <2> QED
    BY <1>1, <1>2, <2>1, QuietStep DEF Inv, GapOK
<1>8. CASE Rerun \/ Wake
  <2>1. /\ UNCHANGED <<known, loaded, pc, pageNo, stopOnKnown, seen, stale, failures>> /\ outrun' = outrun
    BY <1>8 DEF Rerun, Wake
  <2>2. wakes' \cup watched' \subseteq wakes \cup watched \cup Held
    <3>1. CASE Rerun
      <4>1. PICK r \in Runs : Finished(known[r]) /\ wakes' = wakes \cup {r} /\ watched' = watched
        BY <3>1 DEF Rerun
      <4>2. r \in Held
        <5>1. known[r] \in Nat
          BY ConstantsAre DEF Inv, TypeInv, KnownType
        <5> QED
          BY <4>1, <5>1 DEF Finished, Held
      <4> QED
        BY <4>1, <4>2
    <3>2. CASE Wake
      BY <3>2 DEF Wake
    <3> QED
      BY <1>8, <3>1, <3>2
  <2> QED
    BY <1>1, <2>1, <2>2, QuietStep DEF Inv, GapOK
<1> QED
  BY <1>3, <1>4, <1>5, <1>6, <1>7, <1>8 DEF Next, WorkerStep

LEMMA InvCovers == Inv => CoveredUnlessFailed
<1> SUFFICES ASSUME Inv, failures = 0, ~outrun, pc = "idle",
                    NEW r \in Runs \ Old, NEW s \in Runs, s > r, known[s] # 0
             PROVE  known[r] # 0
  BY DEF CoveredUnlessFailed, WindowCovered
<1>1. Covered(Held) /\ s \in Held /\ r < s
  BY DEF Inv, GapInv, Held, Runs
<1> QED
  BY <1>1 DEF Covered, Held

\* Between polls the session of a loaded repository holds every run of the last 24 hours
\* that is older than the newest it holds, whatever runs start between two pages and
\* however sessions are lost, as long as no call fails and no burst is longer than
\* FULL_PAGE: provided the window is no longer than MAX_PAGES pages.
THEOREM NoGap ==
  ASSUME WindowFits
  PROVE  Spec => []CoveredUnlessFailed
<1>1. Inv /\ [Next]_vars => Inv'
  BY NextInv
<1> QED
  BY <1>1, InitInv, InvCovers, PTL DEF Spec
=============================================================================
