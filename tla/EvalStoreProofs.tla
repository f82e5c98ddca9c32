---------------------------- MODULE EvalStoreProofs ----------------------------
(***************************************************************************)
(* Proofs about the programs that measure and judge.  EvalStore, for any   *)
(* number of pods, attempts, results and troubles: nothing goes to a       *)
(* repository that was not found private, no result leaves it, and a pod   *)
(* that reports has its results in a store.  EvalRun, for all cases,       *)
(* answers, costs and limits: what is shown was judged by a judge that was *)
(* tested, profiles are compared on one commit, and the spend overshoots   *)
(* by one call at most.  MergeCheck, for all trees and commits: what it    *)
(* lets through keeps the tests and the gates.                             *)
(***************************************************************************)
EXTENDS Measures, TLAPS, WellFoundedInduction, FiniteSetTheorems, SequenceTheorems

Commits == Results \cup People

PodType == [at : Steps, kind : {"none", "forgejo", "provisional"},
            remoteHasMain : BOOLEAN, reached : BOOLEAN, tracks : BOOLEAN,
            base : SUBSET Commits, own : SUBSET Results,
            wasPrivate : BOOLEAN, attempt : 1..Attempts]

\* No two results share a name, and there are no more names than runs.
Unique(files)      == \A f, g \in files : f.name = g.name /\ f.name # 0 => f = g
Numbered(files, n) == \A f \in files : f.name <= n

\* What a pod knows and holds, given the branches of the two stores and the runs.
PodInv(pod, there, here, n) ==
  /\ pod.at \in {"store", "choose", "move", "publish", "pull"} => pod.wasPrivate
  /\ pod.at = "move" => here # NoMain
  /\ pod.at = "mark" => there # NoMain
  /\ pod.at = "report" => pod.own \subseteq there \cup here
  /\ Unique(pod.base) /\ Numbered(pod.base \cup pod.own, n)
  /\ pod.at \in {"privacy-publish", "publish", "pull", "report"} => Unique(pod.base \cup pod.own)

StoreInv(there, here, mark, n) ==
  /\ Unique(Files(there)) /\ Unique(Files(here))
  /\ Numbered(Files(there), n) /\ Numbered(Files(here), n)
  /\ mark => there # NoMain

Inv ==
  /\ TypeOK
  /\ StoreInv(remote, old, moved, runs)
  /\ \A p \in Pods : PodInv(pods[p], remote, old, runs)

\* A branch that gets nothing but more commits.
Grows(main, next) == Files(main) \subseteq Files(next) /\ (main # NoMain => next # NoMain)

USE DEF Trouble, Stores, World

-----------------------------------------------------------------------------
(* Branches and names. *)

LEMMA BranchesAre ==
  ASSUME StoreAssumption
  PROVE  /\ \A S \in SUBSET Commits : S # NoMain /\ Files(S) = S /\ S \in Mains
         /\ Files(NoMain) = {} /\ NoMain \in Mains
         /\ \A m \in Mains : Files(m) \in SUBSET Commits
         /\ \A m \in Mains : m # NoMain => Files(m) = m
         /\ \A f \in Commits : f.name \in Nat /\ f # [name |-> 0, run |-> 0]
<1>1. \A f \in Commits : f.name \in Nat /\ f # [name |-> 0, run |-> 0]
  <2>1. ASSUME NEW f \in Results PROVE f.name \in Nat /\ f # [name |-> 0, run |-> 0]
    BY DEF Results, Names, StoreAssumption
  <2>2. ASSUME NEW f \in People PROVE f.name \in Nat /\ f # [name |-> 0, run |-> 0]
    BY DEF People, StoreAssumption
  <2> QED
    BY <2>1, <2>2 DEF Commits
<1>2. \A S \in SUBSET Commits : S # NoMain /\ Files(S) = S /\ S \in Mains
  BY <1>1 DEF NoMain, Files, Mains, Commits
<1>3. Files(NoMain) = {} /\ NoMain \in Mains
  BY DEF Files, Mains
<1>4. \A m \in Mains : Files(m) \in SUBSET Commits /\ (m # NoMain => Files(m) = m)
  BY <1>2, <1>3 DEF Mains, Commits
<1> QED
  BY <1>1, <1>2, <1>3, <1>4

\* A set of numbers has a least one.
Below == {p \in Nat \X Nat : p[1] < p[2]}

LEMMA Least ==
  ASSUME NEW S \in SUBSET Nat, S # {}
  PROVE  \E n \in S : \A m \in S : n <= m
<1>1. IsWellFoundedOn(Below, Nat)
  BY NatLessThanWellFounded, Zenon DEF OpToRel, Below
<1>2. PICK n \in S : \A m \in S : <<m, n>> \notin Below
  BY <1>1, WFMin, Zenon
<1>3. ASSUME NEW m \in S PROVE n <= m
  <2>1. m \in Nat /\ n \in Nat
    OBVIOUS
  <2>2. ~(m < n)
    BY <1>2, <2>1 DEF Below
  <2> QED
    BY <2>1, <2>2
<1> QED
  BY <1>3

\* result_path finds a name that is free, and it is one of the first.
LEMMA FreeNameIs ==
  ASSUME StoreAssumption, NEW p \in Pods, runs \in Nat, runs < MaxRuns,
         pods[p].base \in SUBSET Commits, Numbered(pods[p].base, runs)
  PROVE  /\ FreeName(p) \in Names /\ FreeName(p) <= runs + 1
         /\ \A f \in pods[p].base : f.name # FreeName(p)
<1> DEFINE Base == pods[p].base
           Free == {n \in Names : \A f \in Base : f.name # n}
           IsFree(n) == /\ \A f \in Base : f.name # n
                        /\ \A m \in 1..(n - 1) : \E f \in Base : f.name = m
<1>1. runs + 1 \in Free
  BY BranchesAre DEF Numbered, Names, StoreAssumption
<1>2. Free \in SUBSET Nat
  BY DEF Names, StoreAssumption
<1>3. PICK n \in Free : \A m \in Free : n <= m
  BY <1>1, <1>2, Least
<1>4. n \in Names /\ IsFree(n)
  <2>1. ASSUME NEW m \in 1..(n - 1) PROVE \E f \in Base : f.name = m
    BY <1>2, <1>3 DEF Names, StoreAssumption
  <2> QED
    BY <1>3, <2>1
<1>5. FreeName(p) \in Names /\ IsFree(FreeName(p))
  <2> HIDE DEF IsFree
  <2>1. FreeName(p) = CHOOSE m \in Names : IsFree(m)
    BY DEF FreeName, IsFree
  <2> QED
    BY <1>4, <2>1
<1>6. FreeName(p) <= runs + 1
  <2>1. ASSUME FreeName(p) > runs + 1 PROVE FALSE
    <3>1. runs + 1 \in 1..(FreeName(p) - 1)
      BY <1>5, <2>1 DEF Names, StoreAssumption
    <3> QED
      BY <1>1, <1>5, <3>1
  <2> QED
    BY <1>5, <2>1 DEF Names, StoreAssumption
<1> QED
  BY <1>5, <1>6

-----------------------------------------------------------------------------
(* The invariant at the start, and under a step of one pod. *)

LEMMA InitInv ==
  ASSUME StoreAssumption
  PROVE  Init => Inv
<1> SUFFICES ASSUME Init PROVE Inv
  OBVIOUS
<1>1. remote \in Mains /\ old \in Mains /\ Files(old) = {} /\ Files(remote) = {}
  BY BranchesAre DEF Init, Files
<1>2. NoPod \in PodType
  BY DEF NoPod, PodType, Steps, StoreAssumption
<1>3. TypeOK
  <2>1. pods \in [Pods -> PodType]
    BY <1>2 DEF Init
  <2>2. runs \in 0..MaxRuns /\ troubles \in 0..MaxTroubles
    BY DEF Init, StoreAssumption
  <2>3. private \in BOOLEAN /\ reachable \in BOOLEAN /\ moved \in BOOLEAN
    BY DEF Init
  <2> QED
    BY <1>1, <2>1, <2>2, <2>3 DEF TypeOK, PodType, Commits
<1>4. StoreInv(remote, old, moved, runs)
  BY <1>1 DEF Init, StoreInv, Unique, Numbered
<1>5. PodInv(NoPod, remote, old, runs)
  BY DEF PodInv, NoPod, Unique, Numbered
<1> QED
  BY <1>3, <1>4, <1>5 DEF Init, Inv

\* What a pod relies on stays when the stores only grow.
LEMMA PodInvStays ==
  ASSUME NEW pod \in PodType, NEW r \in Mains, NEW r2 \in Mains, NEW o \in Mains, NEW o2 \in Mains,
         NEW n \in Nat, NEW n2 \in Nat, n <= n2, StoreAssumption,
         Grows(r, r2), Grows(o, o2), PodInv(pod, r, o, n)
  PROVE  PodInv(pod, r2, o2, n2)
<1>1. pod.own \in SUBSET Commits /\ pod.base \in SUBSET Commits
  BY DEF PodType, Commits
<1>2. Numbered(pod.base \cup pod.own, n2)
  BY <1>1, BranchesAre DEF PodInv, Numbered
<1>3. pod.at = "report" => pod.own \subseteq r2 \cup o2
  <2>1. \A f \in pod.own : f \in r => f \in r2
    BY <1>1, BranchesAre DEF Grows, Files, NoMain
  <2>2. \A f \in pod.own : f \in o => f \in o2
    BY <1>1, BranchesAre DEF Grows, Files, NoMain
  <2> QED
    BY <2>1, <2>2 DEF PodInv
<1> QED
  BY <1>2, <1>3 DEF PodInv, Grows

\* A step of a pod, which becomes `pod`, keeps the invariant when the stores grow.
LEMMA PodMoves ==
  ASSUME StoreAssumption, Inv, NEW p \in Pods, NEW pod \in PodType, Set(p, pod),
         remote' \in Mains, old' \in Mains, Grows(remote, remote'), Grows(old, old'),
         private' \in BOOLEAN, reachable' \in BOOLEAN, moved' \in BOOLEAN,
         runs' \in 0..MaxRuns, runs <= runs', troubles' \in 0..MaxTroubles,
         StoreInv(remote', old', moved', runs'),
         PodInv(pod, remote', old', runs')
  PROVE  Inv'
<1>1. /\ pods \in [Pods -> PodType] /\ pods' = [pods EXCEPT ![p] = pod]
      /\ runs \in Nat /\ runs' \in Nat /\ remote \in Mains /\ old \in Mains
  BY DEF Inv, TypeOK, PodType, Commits, Set, StoreAssumption
<1>2. pods' \in [Pods -> PodType]
  BY <1>1
<1>3. TypeOK'
  BY <1>2 DEF TypeOK, PodType, Commits, Mains, Results, Names, People, Steps
<1>4. \A q \in Pods : PodInv(pods'[q], remote', old', runs')
  <2> SUFFICES ASSUME NEW q \in Pods PROVE PodInv(pods'[q], remote', old', runs')
    OBVIOUS
  <2>1. CASE q = p
    BY <1>1, <2>1
  <2>2. CASE q # p
    <3>1. pods'[q] = pods[q] /\ pods[q] \in PodType /\ PodInv(pods[q], remote, old, runs)
      BY <1>1, <2>2 DEF Inv
    <3> QED
      BY <1>1, <3>1, PodInvStays
  <2> QED
    BY <2>1, <2>2
<1> QED
  BY <1>3, <1>4 DEF Inv

\* A pod that only learns something, or stops.
LEMMA PodLearns ==
  ASSUME StoreAssumption, Inv, NEW p \in Pods, NEW pod \in PodType, Set(p, pod),
         UNCHANGED <<remote, old, moved, private, reachable, runs>>, troubles' \in 0..MaxTroubles,
         PodInv(pod, remote, old, runs)
  PROVE  Inv'
<1>1. /\ remote' = remote /\ old' = old /\ moved' = moved /\ private' = private
      /\ reachable' = reachable /\ runs' = runs
      /\ remote \in Mains /\ old \in Mains /\ runs \in 0..MaxRuns
      /\ private \in BOOLEAN /\ reachable \in BOOLEAN /\ moved \in BOOLEAN
      /\ StoreInv(remote, old, moved, runs)
  BY DEF Inv, TypeOK
<1>2. Grows(remote, remote) /\ Grows(old, old) /\ runs <= runs
  BY <1>1 DEF Grows, StoreAssumption
<1> QED
  BY <1>1, <1>2, PodMoves

\* A pod that stops forgets everything.
LEMMA PodStops ==
  ASSUME StoreAssumption, Inv, NEW p \in Pods, Stops(p),
         UNCHANGED <<remote, old, moved, private, reachable, runs>>, troubles' \in 0..MaxTroubles
  PROVE  Inv'
<1>1. NoPod \in PodType
  BY DEF NoPod, PodType, Steps, StoreAssumption
<1>2. PodInv(NoPod, remote, old, runs)
  BY DEF PodInv, NoPod, Unique, Numbered
<1> QED
  BY <1>1, <1>2, PodLearns DEF Stops

-----------------------------------------------------------------------------
(* The steps of a pod. *)

\* The record of a pod with another step and the same results.
LEMMA PodGoes ==
  ASSUME NEW p \in Pods, Inv, NEW to \in Steps
  PROVE  /\ [pods[p] EXCEPT !.at = to] \in PodType
         /\ [pods[p] EXCEPT !.at = to].at = to
         /\ [pods[p] EXCEPT !.at = to].base = pods[p].base
         /\ [pods[p] EXCEPT !.at = to].own = pods[p].own
         /\ [pods[p] EXCEPT !.at = to].wasPrivate = pods[p].wasPrivate
BY DEF Inv, TypeOK, PodType, Commits

LEMMA StartInv ==
  ASSUME StoreAssumption, Inv, NEW p \in Pods, Start(p)
  PROVE  Inv'
<1> DEFINE pod == [pods[p] EXCEPT !.at = "privacy-store"]
<1>1. /\ pod \in PodType /\ pod.at = "privacy-store" /\ pod.base = pods[p].base /\ pod.own = pods[p].own
      /\ Set(p, pod)
  BY PodGoes DEF Start, Goes, Steps
<1> HIDE DEF pod
<1>2. PodInv(pod, remote, old, runs)
  BY <1>1 DEF Inv, PodInv
<1> QED
  BY <1>1, <1>2, PodLearns DEF Start, Inv, TypeOK

\* Only a repository that is private lets the pod on.
LEMMA ReadPrivacyInv ==
  ASSUME StoreAssumption, Inv, NEW p \in Pods, ReadPrivacy(p)
  PROVE  Inv'
<1>1. PICK status \in {Status, 0} :
        /\ IF status = 0 THEN Trouble ELSE UNCHANGED troubles
        /\ IF Proves(status)
           THEN Set(p, [pods[p] EXCEPT !.at = After(@), !.wasPrivate = private])
           ELSE Stops(p)
  BY DEF ReadPrivacy
<1>2. troubles' \in 0..MaxTroubles
  BY <1>1 DEF Inv, TypeOK, StoreAssumption
<1>3. CASE Proves(status)
  <2> DEFINE pod == [pods[p] EXCEPT !.at = After(@), !.wasPrivate = private]
  <2>1. private = TRUE
    BY <1>1, <1>3 DEF Proves, Status, Inv, TypeOK
  <2>2. pods[p].at \in {"privacy-store", "privacy-publish"}
    BY DEF ReadPrivacy
  <2>3. /\ pod \in PodType /\ pod.base = pods[p].base /\ pod.own = pods[p].own
        /\ pod.wasPrivate = private /\ pod.at = After(pods[p].at)
    BY <2>2 DEF Inv, TypeOK, PodType, Commits, Steps, After
  <2>4. Set(p, pod)
    BY <1>1, <1>3
  <2> HIDE DEF pod
  <2>5. PodInv(pod, remote, old, runs)
    BY <2>1, <2>2, <2>3 DEF Inv, PodInv, After
  <2> QED
    BY <1>2, <2>3, <2>4, <2>5, PodLearns DEF ReadPrivacy
<1>4. CASE ~Proves(status)
  BY <1>1, <1>2, <1>4, PodStops DEF ReadPrivacy
<1> QED
  BY <1>3, <1>4

LEMMA ListRemoteInv ==
  ASSUME StoreAssumption, Inv, NEW p \in Pods, ListRemote(p)
  PROVE  Inv'
<1> DEFINE pod == [pods[p] EXCEPT !.at = "choose", !.reached = reachable,
                                  !.remoteHasMain = reachable /\ remote # NoMain]
<1>1. /\ pod \in PodType /\ pod.at = "choose" /\ pod.base = pods[p].base /\ pod.own = pods[p].own
      /\ pod.wasPrivate = pods[p].wasPrivate /\ Set(p, pod) /\ pods[p].at = "store"
  BY DEF ListRemote, Inv, TypeOK, PodType, Commits, Steps
<1> HIDE DEF pod
<1>2. PodInv(pod, remote, old, runs)
  BY <1>1 DEF Inv, PodInv
<1> QED
  BY <1>1, <1>2, PodLearns DEF ListRemote, Inv, TypeOK

\* A pod that opens a store begins with what its branch holds.
LEMMA OpensInv ==
  ASSUME StoreAssumption, Inv, NEW p \in Pods, NEW kind \in {"forgejo", "provisional"},
         NEW main \in {remote, old, NoMain}, Opens(p, kind, main),
         UNCHANGED <<remote, old, moved, private, reachable, runs, troubles>>
  PROVE  Inv'
<1> DEFINE pod == [pods[p] EXCEPT !.at = "eval", !.kind = kind, !.base = Files(main), !.tracks = main # NoMain]
<1>1. main \in Mains /\ Files(main) \in SUBSET Commits
  BY BranchesAre DEF Inv, TypeOK
<1>2. /\ pod \in PodType /\ pod.at = "eval" /\ pod.base = Files(main) /\ pod.own = pods[p].own /\ Set(p, pod)
  BY <1>1 DEF Opens, Inv, TypeOK, PodType, Commits, Steps
<1> HIDE DEF pod
<1>3. Unique(Files(main)) /\ Numbered(Files(main), runs)
  BY BranchesAre DEF Inv, StoreInv, Unique, Numbered
<1>4. PodInv(pod, remote, old, runs)
  BY <1>2, <1>3 DEF Inv, PodInv, Numbered
<1> QED
  BY <1>2, <1>4, PodLearns DEF Inv, TypeOK

LEMMA ChooseInv ==
  ASSUME StoreAssumption, Inv, NEW p \in Pods, Choose(p)
  PROVE  Inv'
<1>1. UNCHANGED <<remote, old, moved, private, reachable, runs, troubles>> /\ pods[p].at = "choose"
  BY DEF Choose
<1>2. troubles' \in 0..MaxTroubles
  BY <1>1 DEF Inv, TypeOK
<1>3. \/ Goes(p, "move") /\ old # NoMain
      \/ Goes(p, "clone")
      \/ Opens(p, "forgejo", NoMain)
      \/ Stops(p)
      \/ Opens(p, "provisional", old)
  BY Zenon DEF Choose
<1>4. CASE Goes(p, "move") /\ old # NoMain
  <2> DEFINE pod == [pods[p] EXCEPT !.at = "move"]
  <2>1. /\ pod \in PodType /\ pod.at = "move" /\ pod.base = pods[p].base /\ pod.own = pods[p].own
        /\ pod.wasPrivate = pods[p].wasPrivate /\ Set(p, pod)
    BY <1>4, PodGoes DEF Goes, Steps
  <2> HIDE DEF pod
  <2>2. PodInv(pod, remote, old, runs)
    BY <1>1, <1>4, <2>1 DEF Inv, PodInv
  <2> QED
    BY <1>1, <1>2, <2>1, <2>2, PodLearns
<1>5. CASE Goes(p, "clone")
  <2> DEFINE pod == [pods[p] EXCEPT !.at = "clone"]
  <2>1. /\ pod \in PodType /\ pod.at = "clone" /\ pod.base = pods[p].base /\ pod.own = pods[p].own
        /\ Set(p, pod)
    BY <1>5, PodGoes DEF Goes, Steps
  <2> HIDE DEF pod
  <2>2. PodInv(pod, remote, old, runs)
    BY <2>1 DEF Inv, PodInv
  <2> QED
    BY <1>1, <1>2, <2>1, <2>2, PodLearns
<1>6. CASE Opens(p, "forgejo", NoMain) \/ Opens(p, "provisional", old)
  BY <1>1, <1>6, OpensInv
<1>7. CASE Stops(p)
  BY <1>1, <1>2, <1>7, PodStops
<1> QED
  BY <1>3, <1>4, <1>5, <1>6, <1>7

\* The provisional store's main becomes the repository's, and takes nothing away.
LEMMA MoveInv ==
  ASSUME StoreAssumption, Inv, NEW p \in Pods, Move(p)
  PROVE  Inv' /\ Grows(remote, remote')
<1>1. /\ UNCHANGED <<old, moved, private, reachable, runs, troubles>> /\ pods[p].at = "move"
      /\ moved \in BOOLEAN /\ troubles' \in 0..MaxTroubles
  BY DEF Move, MarkAt, Inv, TypeOK
<1>2. CASE reachable /\ Taken(remote, old)
  <2> DEFINE pod == [pods[p] EXCEPT !.at = "mark"]
  <2>1. /\ pod \in PodType /\ pod.at = "mark" /\ pod.base = pods[p].base /\ pod.own = pods[p].own
        /\ Set(p, pod) /\ remote' = old
    BY <1>2, PodGoes DEF Move, Goes, Steps
  <2> HIDE DEF pod
  <2>2. old # NoMain /\ old \in Mains /\ remote \in Mains
    BY <1>1 DEF Inv, PodInv, TypeOK
  <2>3. Grows(remote, remote') /\ Grows(old, old')
    BY <1>1, <1>2, <2>1, <2>2, BranchesAre DEF Taken, Grows
  <2>4. StoreInv(remote', old', moved', runs')
    BY <1>1, <2>1, <2>2 DEF Inv, StoreInv
  <2>5. PodInv(pod, remote', old', runs')
    BY <1>1, <2>1, <2>2 DEF Inv, PodInv
  <2>6. /\ remote' \in Mains /\ old' \in Mains /\ private' \in BOOLEAN /\ reachable' \in BOOLEAN
        /\ moved' \in BOOLEAN /\ runs' \in 0..MaxRuns /\ runs <= runs'
    BY <1>1, <2>1, <2>2 DEF Inv, TypeOK, StoreAssumption
  <2> QED
    BY <1>1, <2>1, <2>3, <2>4, <2>5, <2>6, PodMoves
<1>3. CASE ~(reachable /\ Taken(remote, old))
  <2>1. Stops(p) /\ remote' = remote
    BY <1>3 DEF Move
  <2> QED
    BY <1>1, <2>1, PodStops DEF Grows
<1> QED
  BY <1>2, <1>3

LEMMA MarkInv ==
  ASSUME StoreAssumption, Inv, NEW p \in Pods, Mark(p)
  PROVE  Inv'
<1> DEFINE pod == [pods[p] EXCEPT !.at = "clone"]
<1>1. /\ pod \in PodType /\ pod.at = "clone" /\ pod.base = pods[p].base /\ pod.own = pods[p].own
      /\ Set(p, pod) /\ pods[p].at = "mark"
      /\ moved' = TRUE /\ UNCHANGED <<remote, old, private, reachable, runs, troubles>>
  BY PodGoes DEF Mark, Goes, Steps
<1> HIDE DEF pod
<1>2. remote # NoMain
  BY <1>1 DEF Inv, PodInv
<1>3. StoreInv(remote', old', moved', runs')
  BY <1>1, <1>2 DEF Inv, StoreInv
<1>4. PodInv(pod, remote', old', runs')
  BY <1>1 DEF Inv, PodInv
<1>5. /\ remote' \in Mains /\ old' \in Mains /\ private' \in BOOLEAN /\ reachable' \in BOOLEAN
      /\ moved' \in BOOLEAN /\ runs' \in 0..MaxRuns /\ runs <= runs' /\ troubles' \in 0..MaxTroubles
      /\ Grows(remote, remote') /\ Grows(old, old')
  BY <1>1 DEF Inv, TypeOK, StoreAssumption, Grows
<1> QED
  BY <1>1, <1>3, <1>4, <1>5, PodMoves

LEMMA CloneInv ==
  ASSUME StoreAssumption, Inv, NEW p \in Pods, Clone(p)
  PROVE  Inv'
<1>1. UNCHANGED <<remote, old, moved, private, reachable, runs, troubles>>
      /\ (Opens(p, "forgejo", remote) \/ Stops(p)) /\ troubles' \in 0..MaxTroubles
  BY DEF Clone, Inv, TypeOK
<1> QED
  BY <1>1, OpensInv, PodStops

\* A result gets a name of its own, and nothing is pushed before another look.
LEMMA EvaluateInv ==
  ASSUME StoreAssumption, Inv, NEW p \in Pods, Evaluate(p)
  PROVE  Inv'
<1>1. /\ UNCHANGED <<remote, old, moved, private, reachable, troubles>>
      /\ troubles' \in 0..MaxTroubles /\ runs \in Nat /\ MaxRuns \in Nat
      /\ pods[p] \in PodType /\ remote \in Mains /\ old \in Mains
  BY DEF Evaluate, Inv, TypeOK, PodType, Commits, StoreAssumption
<1> DEFINE own == {[name |-> FreeName(p), run |-> runs']}
           pod == [pods[p] EXCEPT !.at = "privacy-publish", !.wasPrivate = FALSE, !.own = own]
<1>2. CASE runs < MaxRuns /\ runs' = runs + 1 /\ Set(p, pod)
  <2>1. pods[p].base \in SUBSET Commits /\ Numbered(pods[p].base, runs) /\ Unique(pods[p].base)
    BY <1>1 DEF PodType, Inv, PodInv, Numbered
  <2>2. /\ FreeName(p) \in Names /\ FreeName(p) <= runs'
        /\ \A f \in pods[p].base : f.name # FreeName(p)
    BY <1>1, <1>2, <2>1, FreeNameIs
  <2>3. runs' \in Names
    BY <1>1, <1>2 DEF Names
  <2>4. /\ pod \in PodType /\ pod.at = "privacy-publish" /\ pod.base = pods[p].base
        /\ pod.own = {[name |-> FreeName(p), run |-> runs']}
    <3>1. own \in SUBSET Results
      BY <2>2, <2>3 DEF Results
    <3> HIDE DEF own
    <3>2. /\ pod \in PodType /\ pod.at = "privacy-publish" /\ pod.base = pods[p].base
          /\ pod.own = own
      BY <1>1, <3>1 DEF PodType, Steps
    <3> QED
      BY <3>2 DEF own
  <2> HIDE DEF pod
  <2>5. Unique(pod.base \cup pod.own)
    BY <2>1, <2>2, <2>4 DEF Unique
  <2>6. \A S \in SUBSET Commits : Numbered(S, runs) => Numbered(S, runs')
    BY <1>1, <1>2, BranchesAre DEF Numbered
  <2>7. Numbered(pod.base \cup pod.own, runs')
    BY <2>1, <2>2, <2>4, <2>6 DEF Numbered
  <2>8. PodInv(pod, remote', old', runs')
    BY <2>1, <2>4, <2>5, <2>7 DEF PodInv
  <2>9. StoreInv(remote', old', moved', runs')
    BY <1>1, <2>6, BranchesAre DEF Inv, StoreInv
  <2>10. /\ remote' \in Mains /\ old' \in Mains /\ private' \in BOOLEAN /\ reachable' \in BOOLEAN
         /\ moved' \in BOOLEAN /\ runs' \in 0..MaxRuns /\ runs <= runs'
         /\ Grows(remote, remote') /\ Grows(old, old')
    BY <1>1, <1>2 DEF Inv, TypeOK, Grows
  <2> QED
    BY <1>1, <1>2, <2>4, <2>8, <2>9, <2>10, PodMoves
<1>3. CASE Stops(p) /\ UNCHANGED runs
  BY <1>1, <1>3, PodStops
<1> QED
  BY <1>2, <1>3 DEF Evaluate

\* A push that is taken leaves in the store what it held, and what the pod brings.
LEMMA PushInv ==
  ASSUME StoreAssumption, Inv, NEW p \in Pods, Push(p)
  PROVE  Inv' /\ Grows(remote, remote')
<1>1. /\ UNCHANGED <<moved, private, reachable, runs>> /\ pods[p].at = "publish"
      /\ pods[p] \in PodType /\ remote \in Mains /\ old \in Mains
      /\ moved \in BOOLEAN /\ private \in BOOLEAN /\ reachable \in BOOLEAN /\ runs \in 0..MaxRuns
      /\ runs <= runs
  BY DEF Push, Inv, TypeOK, PodType, Commits, StoreAssumption
<1>2. /\ pods[p].wasPrivate /\ Unique(Pushed(p)) /\ Numbered(Pushed(p), runs)
      /\ Pushed(p) \in SUBSET Commits /\ Pushed(p) = pods[p].base \cup pods[p].own
  BY <1>1 DEF Inv, PodInv, Pushed, PodType, Commits
<1>3. PICK to \in {"report", "pull"} : Goes(p, to) /\ troubles' \in 0..MaxTroubles
  BY DEF Push, Refused, Inv, TypeOK, StoreAssumption
<1> DEFINE pod == [pods[p] EXCEPT !.at = to]
<1>4. /\ pod \in PodType /\ pod.at = to /\ pod.base = pods[p].base /\ pod.own = pods[p].own
      /\ pod.wasPrivate = pods[p].wasPrivate /\ Set(p, pod)
  <2>1. to \in Steps
    BY <1>3 DEF Steps
  <2> QED
    BY <1>3, <2>1, PodGoes DEF Goes
<1> HIDE DEF pod
<1>5. CASE Reaches(p) /\ Taken(Origin(p), Pushed(p)) /\ ~UNCHANGED <<remote, old>>
  <2>1. \/ remote' = Pushed(p) /\ old' = old /\ Origin(p) = remote
        \/ old' = Pushed(p) /\ remote' = remote /\ Origin(p) = old
    BY <1>5 DEF Push, Origin
  <2>2. remote' \in Mains /\ old' \in Mains
    BY <1>1, <1>2, <2>1, BranchesAre
  <2>3. Grows(remote, remote') /\ Grows(old, old')
    BY <1>1, <1>2, <1>5, <2>1, BranchesAre DEF Taken, Grows
  <2>4. StoreInv(remote', old', moved', runs')
    <3>1. Unique(Files(remote')) /\ Numbered(Files(remote'), runs)
      BY <1>2, <2>1, BranchesAre DEF Inv, StoreInv
    <3>2. Unique(Files(old')) /\ Numbered(Files(old'), runs)
      BY <1>2, <2>1, BranchesAre DEF Inv, StoreInv
    <3> QED
      BY <1>1, <2>3, <3>1, <3>2 DEF Inv, StoreInv, Grows
  <2>5. PodInv(pod, remote', old', runs')
    <3>1. pod.own \subseteq remote' \cup old'
      BY <1>2, <1>4, <2>1
    <3> QED
      BY <1>1, <1>2, <1>4, <3>1 DEF Inv, PodInv
  <2> QED
    BY <1>1, <1>3, <1>4, <2>2, <2>3, <2>4, <2>5, PodMoves
<1>6. CASE UNCHANGED <<remote, old>> /\ to = "pull"
  <2>1. PodInv(pod, remote, old, runs)
    BY <1>1, <1>2, <1>4, <1>6 DEF Inv, PodInv
  <2> QED
    BY <1>1, <1>3, <1>4, <1>6, <2>1, PodLearns DEF Grows
<1>7. CASE UNCHANGED <<remote, old>> /\ to = "report"
  <2>1. Pushed(p) = remote \/ Pushed(p) = old
    <3>1. pods'[p].at = "report"
      BY <1>1, <1>4, <1>7 DEF Set, Inv, TypeOK
    <3>2. ~Refused(p)
      BY <1>1, <3>1 DEF Refused, Goes, Set, Inv, TypeOK, PodType
    <3> QED
      BY <1>7, <3>2 DEF Push
  <2>2. PodInv(pod, remote, old, runs)
    BY <1>1, <1>2, <1>4, <1>7, <2>1 DEF Inv, PodInv
  <2> QED
    BY <1>1, <1>3, <1>4, <1>7, <2>2, PodLearns DEF Grows
<1> QED
  <2>1. UNCHANGED <<remote, old>> \/ (Reaches(p) /\ Taken(Origin(p), Pushed(p)))
    BY DEF Push
  <2> QED
    BY <1>3, <1>5, <1>6, <1>7, <2>1

\* A rebase without a conflict leaves one file per name.
LEMMA PullAndRetryInv ==
  ASSUME StoreAssumption, Inv, NEW p \in Pods, PullAndRetry(p)
  PROVE  Inv'
<1>1. /\ UNCHANGED <<remote, old, moved, private, reachable, runs, troubles>> /\ pods[p].at = "pull"
      /\ troubles' \in 0..MaxTroubles /\ pods[p] \in PodType /\ remote \in Mains /\ old \in Mains
  BY DEF PullAndRetry, Inv, TypeOK, PodType, Commits
<1>2. CASE (Pulls(p) /\ (~Reaches(p) \/ Conflict(p))) \/ pods[p].attempt = Attempts
  <2>1. Stops(p)
    BY <1>2 DEF PullAndRetry
  <2> QED
    BY <1>1, <2>1, PodStops
<1>3. CASE ~((Pulls(p) /\ (~Reaches(p) \/ Conflict(p))) \/ pods[p].attempt = Attempts)
  <2> DEFINE next == [pods[p] EXCEPT !.at = "publish", !.attempt = @ + 1]
             rebased == Files(Origin(p)) \ pods[p].own
             pod == [next EXCEPT !.base = rebased, !.tracks = TRUE]
  <2>1. next \in PodType /\ next.at = "publish" /\ next.base = pods[p].base /\ next.own = pods[p].own
        /\ next.wasPrivate = pods[p].wasPrivate
    <3>1. pods[p].attempt \in 1..Attempts /\ pods[p].attempt + 1 \in 1..Attempts
      BY <1>1, <1>3 DEF PodType, StoreAssumption
    <3> QED
      BY <1>1, <3>1 DEF PodType, Steps
  <2>2. CASE Pulls(p)
    <3>1. Origin(p) \in Mains
      BY <1>1 DEF Origin
    <3>2. rebased \in SUBSET Commits
      BY <3>1, BranchesAre
    <3>3. Set(p, pod)
      BY <1>3, <2>2 DEF PullAndRetry
    <3> HIDE DEF next
    <3>4. pod \in PodType /\ pod.at = "publish" /\ pod.base = rebased /\ pod.own = pods[p].own
          /\ pod.wasPrivate = pods[p].wasPrivate
      <4> HIDE DEF rebased
      <4> QED
        BY <2>1, <3>2 DEF PodType
    <3> HIDE DEF pod
    <3>5. Unique(Files(Origin(p))) /\ Numbered(Files(Origin(p)), runs)
      BY DEF Inv, StoreInv, Origin
    <3>6. Unique(pods[p].own) /\ Numbered(pods[p].own, runs) /\ pods[p].wasPrivate
      BY <1>1 DEF Inv, PodInv, Unique, Numbered
    <3>7. ~Conflict(p)
      BY <1>3, <2>2
    <3>8. Unique(rebased \cup pods[p].own) /\ Unique(rebased)
      BY <3>5, <3>6, <3>7 DEF Unique, Conflict
    <3>9. Numbered(rebased \cup pods[p].own, runs)
      BY <3>5, <3>6 DEF Numbered
    <3>10. PodInv(pod, remote, old, runs)
      BY <3>4, <3>6, <3>8, <3>9 DEF PodInv
    <3> QED
      BY <1>1, <3>3, <3>4, <3>10, PodLearns
  <2>3. CASE ~Pulls(p)
    <3>1. Set(p, next)
      BY <1>3, <2>3 DEF PullAndRetry
    <3> HIDE DEF next
    <3>2. PodInv(next, remote, old, runs)
      BY <1>1, <2>1 DEF Inv, PodInv
    <3> QED
      BY <1>1, <2>1, <3>1, <3>2, PodLearns
  <2> QED
    BY <2>2, <2>3
<1> QED
  BY <1>2, <1>3

-----------------------------------------------------------------------------
(* The steps of the others. *)

\* A commit of a person adds a file without a result's name.
LEMMA CommitInv ==
  ASSUME StoreAssumption, Inv, Commit
  PROVE  Inv' /\ Grows(remote, remote')
<1> DEFINE f == [name |-> 0, run |-> troubles']
<1>1. /\ UNCHANGED <<old, moved, private, reachable, pods, runs>> /\ remote # NoMain
      /\ troubles' \in 1..MaxTroubles /\ remote' = remote \cup {f}
      /\ remote \in Mains /\ old \in Mains /\ runs \in Nat
      /\ pods \in [Pods -> PodType]
  BY DEF Commit, Inv, TypeOK, PodType, Commits, StoreAssumption
<1>2. f \in Commits /\ f.name = 0
  BY <1>1 DEF Commits, People
<1> HIDE DEF f
<1>3. /\ remote \in SUBSET Commits /\ Files(remote) = remote
      /\ remote' \in SUBSET Commits /\ Files(remote') = remote' /\ remote' # NoMain /\ remote' \in Mains
  BY <1>1, <1>2, BranchesAre
<1>4. Grows(remote, remote')
  BY <1>1, <1>3 DEF Grows
<1>5. StoreInv(remote', old', moved', runs')
  <2>1. Unique(Files(remote')) /\ Numbered(Files(remote'), runs)
    BY <1>1, <1>2, <1>3, BranchesAre DEF Inv, StoreInv, Unique, Numbered
  <2> QED
    BY <1>1, <1>3, <2>1 DEF Inv, StoreInv
<1>6. \A p \in Pods : PodInv(pods'[p], remote', old', runs')
  <2> SUFFICES ASSUME NEW p \in Pods PROVE PodInv(pods'[p], remote', old', runs')
    OBVIOUS
  <2>1. pods[p] \in PodType /\ PodInv(pods[p], remote, old, runs) /\ Grows(old, old) /\ runs <= runs
    BY <1>1 DEF Inv, Grows
  <2>2. PodInv(pods[p], remote', old, runs)
    BY <1>1, <1>3, <1>4, <2>1, PodInvStays
  <2> QED
    BY <1>1, <2>2
<1>7. TypeOK'
  <2>1. troubles' \in 0..MaxTroubles
    BY <1>1
  <2> QED
    BY <1>1, <1>3, <2>1 DEF Inv, TypeOK, PodType, Commits, Mains, Results, Names, People, Steps
<1> QED
  BY <1>4, <1>5, <1>6, <1>7 DEF Inv

LEMMA QuietInv ==
  ASSUME StoreAssumption, Inv, Changes \/ UNCHANGED storeVars
  PROVE  Inv'
<1>1. /\ UNCHANGED <<remote, old, moved, pods, runs>>
      /\ private' \in BOOLEAN /\ reachable' \in BOOLEAN /\ troubles' \in 0..MaxTroubles
  <2>1. CASE Changes
    <3>1. private \in BOOLEAN /\ reachable \in BOOLEAN
      BY DEF Inv, TypeOK
    <3>2. private' \in BOOLEAN /\ reachable' \in BOOLEAN
      BY <2>1, <3>1, Zenon DEF Changes
    <3>3. troubles' \in 0..MaxTroubles
      BY <2>1 DEF Changes, Inv, TypeOK, StoreAssumption
    <3> QED
      BY <2>1, <3>2, <3>3 DEF Changes
  <2>2. CASE UNCHANGED storeVars
    BY <2>2 DEF storeVars, Inv, TypeOK
  <2> QED
    BY <2>1, <2>2
<1> QED
  BY <1>1 DEF Inv, TypeOK, StoreInv, PodInv, Unique, Numbered, Files, NoMain, Mains, Results, Names, People, Steps

\* Every step keeps the invariant, and lets main of the repository grow only.
LEMMA NextInv ==
  ASSUME StoreAssumption, Inv, [Next]_storeVars
  PROVE  Inv' /\ (remote' # remote => Grows(remote, remote'))
<1>1. ASSUME NEW p \in Pods, Report(p) \/ PodFails(p)
      PROVE  Inv' /\ remote' = remote
  <2>1. /\ Stops(p) /\ UNCHANGED <<remote, old, moved, private, reachable, runs>>
        /\ troubles' \in 0..MaxTroubles
    BY <1>1 DEF Report, PodFails, Inv, TypeOK, StoreAssumption
  <2> QED
    BY <2>1, PodStops
<1>2. ASSUME NEW p \in Pods, PodStep(p)
      PROVE  Inv' /\ (remote' # remote => Grows(remote, remote'))
  <2>1. CASE Move(p) \/ Push(p)
    BY <2>1, MoveInv, PushInv
  <2>2. CASE ~(Move(p) \/ Push(p))
    <3>1. remote' = remote
      BY <1>2, <2>2 DEF PodStep, Start, ReadPrivacy, ListRemote, Choose, Mark, Clone, Evaluate,
                        PullAndRetry, Report
    <3> QED
      BY <1>1, <1>2, <2>2, <3>1, StartInv, ReadPrivacyInv, ListRemoteInv, ChooseInv, MarkInv, CloneInv,
         EvaluateInv, PullAndRetryInv DEF PodStep
  <2> QED
    BY <2>1, <2>2
<1>3. CASE Changes \/ UNCHANGED storeVars
  BY <1>3, QuietInv DEF Changes, storeVars
<1>4. CASE Commit
  BY <1>4, CommitInv
<1> QED
  BY <1>1, <1>2, <1>3, <1>4 DEF Next

-----------------------------------------------------------------------------
(* The theorems. *)

LEMMA InvHolds ==
  ASSUME StoreAssumption
  PROVE  Spec => []Inv
BY InitInv, NextInv, PTL DEF Spec

\* The stores, the pods and the repository's settings hold values of their kind.
THEOREM TypeCorrect ==
  ASSUME StoreAssumption
  PROVE  Spec => []TypeOK
BY InvHolds, PTL DEF Inv

\* No pod pushes to a repository, or pulls to push again, that it has not found private
\* since it wrote its results: for any number of pods, whatever they meet.
THEOREM NothingLeaks ==
  ASSUME StoreAssumption
  PROVE  Spec => []PushedWhenPrivate
<1>1. Inv => PushedWhenPrivate
  BY DEF Inv, PodInv, PushedWhenPrivate
<1> QED
  BY <1>1, InvHolds, PTL

\* A pod that reports has its results in a store, the marker of the move is true, and
\* no two results share a name.
THEOREM ReportsAreTrue ==
  ASSUME StoreAssumption
  PROVE  Spec => []ReportedIsStored
<1>1. Inv => ReportedIsStored
  BY DEF Inv, PodInv, StoreInv, Unique, ReportedIsStored
<1> QED
  BY <1>1, InvHolds, PTL

\* Nothing that main of the repository holds is ever taken away.
THEOREM NothingIsLost ==
  ASSUME StoreAssumption
  PROVE  Spec => ResultsStay
<1>1. Inv /\ [Next]_storeVars => [remote # NoMain => remote \subseteq remote' /\ remote' # NoMain]_remote
  <2> SUFFICES ASSUME Inv, [Next]_storeVars, remote' # remote, remote # NoMain
               PROVE  remote \subseteq remote' /\ remote' # NoMain
    OBVIOUS
  <2>1. Inv' /\ Grows(remote, remote')
    BY NextInv
  <2> QED
    BY <2>1, BranchesAre DEF Inv, TypeOK, Grows
<1> QED
  BY <1>1, InvHolds, PTL DEF Spec, ResultsStay

-----------------------------------------------------------------------------
(* The evaluation job. *)

\* The job counts as the lemmas about finite sets do.
LEMMA EvalCounts == \A S : Eval!Cardinality(S) = Cardinality(S)
BY DEF Eval!Cardinality, Cardinality

Ranked == [profile : Eval!Range(Profiles), case : Eval!Cases, commit : 1..Len(Known)]
Places == {"idle", "pin", "read", "write", "publish", "report"} \cup Eval!Models \cup Eval!Bridge
JobTypes == [mode : Eval!Modes, how : Eval!Hows, at : Places, control : Seq(Eval!Verdicts), rpc : 0..2, job : 0..Jobs,
             turns : 0..MaxTurns, attempt : 1..JudgeAttempts, unreadable : Nat, snap : Nat, read : SUBSET Ranked,
             graded : Nat, limited : 0..LimitedAttempts, backoffs : Nat]

\* The k-th read of a run, and the first n of them.
RankOf(k, commit) == [profile |-> Profiles[(k \div LastCase) + 1], case |-> (k % LastCase) + 1, commit |-> commit]
ReadTo(read, commit, n) ==
  read = {RankOf(k, commit) : k \in 0..n - 1} /\ IsFiniteSet(read) /\ Cardinality(read) = n

Told == <<"high", "low">>

\* What a job holds at each of its places.
Stages(p) ==
  /\ p.at \in {"pin", "read"} => p.mode \in {"retrieval", "gate"} /\ p.job = 0 /\ p.control = <<>>
  /\ p.at = "pin" => p.read = {}
  /\ p.at = "control" => p.mode \in {"answer", "gate"} /\ p.job = 0 /\ (p.control = <<>> \/ \E v \in Eval!Verdicts : p.control = <<v>>)
  /\ p.at = "tools" => p.control = Told
  /\ p.at \in {"answer", "tool", "judge"} => p.control = Told /\ p.job \in 1..Jobs
  /\ p.at \in {"grade", "write", "publish", "report"} =>
       (p.mode = "answer" \/ p.job > 0 => p.control = Told /\ p.job = Jobs /\ p.unreadable * LoseOneIn <= Jobs)
  /\ p.at = "read" => p.snap \in 1..Len(Known) /\ \E n \in 0..Eval!Reads - 1 : ReadTo(p.read, p.snap, n)
  /\ p.at \notin {"idle", "pin", "read"} /\ p.mode \in {"retrieval", "gate"} =>
       p.snap \in 1..Len(Known) /\ ReadTo(p.read, p.snap, Eval!Reads)

JobInv ==
  /\ job \in JobTypes /\ Stages(job)
  /\ evalHead \in 1..Len(Known) /\ spent \in Nat /\ lost \in Nat /\ billed = spent + lost
  /\ job.at # "idle" => spent <= Cap
  /\ stored \subseteq Eval!Modes /\ controlOk \in {"none", "no", "yes"}
  /\ job.at = "report" => job.mode \in stored

FactSet  == [control : Seq(Eval!Verdicts), unreadable : Nat, answers : Nat, read : SUBSET Ranked, snap : Nat, spent : Nat, stored : BOOLEAN]
ShownSet == [Eval!Modes -> [valid : {"none", "no", "yes"}, of : FactSet]]

\* What may be shown of a mode.
Sound(m, of) ==
  /\ of.stored /\ of.spent <= Cap
  /\ m = "answer" \/ of.answers > 0 => of.control = Told /\ of.answers = Jobs /\ of.unreadable * LoseOneIn <= Jobs
  /\ m \in {"retrieval", "gate"} =>
       (\A p \in Eval!Range(Profiles) : Eval!Scored(of, p) = Known[of.snap] \cap Eval!Cases) /\ \A r \in of.read : r.commit = of.snap

ShownInv == shown \in ShownSet /\ \A m \in Eval!Modes : shown[m].valid = "yes" => Sound(m, shown[m].of)

-----------------------------------------------------------------------------
LEMMA ReadsPositive == ASSUME Eval!EvalAssumption PROVE Len(Profiles) \in Nat \ {0} /\ Eval!Reads \in Nat \ {0}
BY DEF Eval!EvalAssumption, Eval!Reads

LEMMA RankIn ==
  ASSUME Eval!EvalAssumption, NEW k \in 0..Eval!Reads - 1, NEW commit \in 1..Len(Known)
  PROVE  /\ k \div LastCase \in 0..Len(Profiles) - 1 /\ k % LastCase \in 0..LastCase - 1
         /\ k = LastCase * (k \div LastCase) + (k % LastCase)
         /\ RankOf(k, commit) \in Ranked
<1>1. LastCase \in Nat \ {0} /\ k \in Nat /\ Len(Profiles) \in Nat /\ k < Len(Profiles) * LastCase
  BY ReadsPositive DEF Eval!EvalAssumption, Eval!Reads
<1>2. k \div LastCase \in Nat /\ k % LastCase \in 0..LastCase - 1 /\ k = LastCase * (k \div LastCase) + (k % LastCase)
  BY <1>1
<1>3. k \div LastCase < Len(Profiles)
  BY <1>1
<1>4. k \div LastCase \in 0..Len(Profiles) - 1
  BY <1>1, <1>2, <1>3
<1>5. Profiles[(k \div LastCase) + 1] \in Eval!Range(Profiles) /\ (k % LastCase) + 1 \in Eval!Cases
  BY <1>1, <1>2, <1>4 DEF Eval!EvalAssumption, Eval!Range, Eval!Cases
<1> QED
  BY <1>2, <1>4, <1>5 DEF RankOf, Ranked

LEMMA RankInjective ==
  ASSUME Eval!EvalAssumption, NEW k \in 0..Eval!Reads - 1, NEW l \in 0..Eval!Reads - 1, NEW commit \in 1..Len(Known),
         RankOf(k, commit) = RankOf(l, commit)
  PROVE  k = l
<1>1. /\ k \div LastCase \in 0..Len(Profiles) - 1 /\ l \div LastCase \in 0..Len(Profiles) - 1
      /\ k % LastCase \in 0..LastCase - 1 /\ l % LastCase \in 0..LastCase - 1
      /\ k = LastCase * (k \div LastCase) + (k % LastCase) /\ l = LastCase * (l \div LastCase) + (l % LastCase)
  BY RankIn
<1>2. Profiles[(k \div LastCase) + 1] = Profiles[(l \div LastCase) + 1] /\ (k % LastCase) + 1 = (l % LastCase) + 1
  BY DEF RankOf
<1>3. \A i, j \in 1..Len(Profiles) : Profiles[i] = Profiles[j] => i = j
  BY DEF Eval!EvalAssumption, Eval!IsInjective
<1> DEFINE i == k \div LastCase
           j == l \div LastCase
           c == k % LastCase
           d == l % LastCase
<1> HIDE DEF i, j, c, d
<1>4. /\ i \in 0..Len(Profiles) - 1 /\ j \in 0..Len(Profiles) - 1 /\ c \in 0..LastCase - 1 /\ d \in 0..LastCase - 1
      /\ Profiles[i + 1] = Profiles[j + 1] /\ c + 1 = d + 1
  BY <1>1, <1>2 DEF i, j, c, d
<1>5. i = j /\ c = d
  <2>1. i + 1 = j + 1
    BY <1>3, <1>4, ReadsPositive
  <2> QED
    BY <2>1, <1>4, ReadsPositive DEF Eval!EvalAssumption
<1>6. k = LastCase * i + c /\ l = LastCase * j + d
  BY <1>1 DEF i, j, c, d
<1> QED
  BY <1>5, <1>6

\* One more read is one more ranking.
LEMMA ReadNext ==
  ASSUME Eval!EvalAssumption, NEW n \in 0..Eval!Reads - 1, NEW commit \in 1..Len(Known), NEW read, ReadTo(read, commit, n)
  PROVE  ReadTo(read \cup {RankOf(n, commit)}, commit, n + 1)
<1>1. RankOf(n, commit) \notin read
  <2> SUFFICES ASSUME NEW k \in 0..n - 1, RankOf(n, commit) = RankOf(k, commit) PROVE FALSE
    BY DEF ReadTo
  <2> QED
    BY RankInjective, ReadsPositive
<1>2. 0..(n + 1) - 1 = (0..n - 1) \cup {n}
  BY ReadsPositive
<1>3. {RankOf(k, commit) : k \in 0..(n + 1) - 1} = {RankOf(k, commit) : k \in 0..n - 1} \cup {RankOf(n, commit)}
  BY <1>2
<1> QED
  BY <1>1, <1>3, FS_AddElement DEF ReadTo

\* All reads are every case of every profile.
LEMMA AllRead ==
  ASSUME Eval!EvalAssumption, NEW commit \in 1..Len(Known), NEW read, ReadTo(read, commit, Eval!Reads)
  PROVE  /\ \A r \in read : r.commit = commit
         /\ \A p \in Eval!Range(Profiles), c \in Eval!Cases : \E r \in read : r.profile = p /\ r.case = c
<1>1. \A r \in read : r.commit = commit
  BY DEF ReadTo, RankOf
<1>2. ASSUME NEW p \in Eval!Range(Profiles), NEW c \in Eval!Cases
      PROVE  \E r \in read : r.profile = p /\ r.case = c
  <2>1. PICK i \in 1..Len(Profiles) : p = Profiles[i]
    BY DEF Eval!Range, Eval!EvalAssumption
  <2> DEFINE j == i - 1
             d == c - 1
             k == LastCase * j + d
  <2>2. LastCase \in Nat \ {0} /\ j \in Nat /\ j < Len(Profiles) /\ d \in 0..LastCase - 1 /\ Len(Profiles) \in Nat
    BY <2>1, ReadsPositive DEF Eval!EvalAssumption, Eval!Cases
  <2> HIDE DEF j, d
  <2>3. k \div LastCase = j /\ k % LastCase = d
    BY <2>2
  <2>4. LastCase * j + LastCase <= Len(Profiles) * LastCase
    <3>1. j + 1 <= Len(Profiles)
      BY <2>2
    <3>2. LastCase * (j + 1) <= LastCase * Len(Profiles)
      BY <3>1, <2>2
    <3> QED
      BY <3>2, <2>2
  <2>5. k \in 0..Eval!Reads - 1
    BY <2>2, <2>4 DEF Eval!Reads
  <2>6. RankOf(k, commit).profile = p /\ RankOf(k, commit).case = c
    BY <2>1, <2>2, <2>3, ReadsPositive DEF RankOf, j, d, Eval!Cases, Eval!EvalAssumption
  <2> HIDE DEF k
  <2> QED
    BY <2>5, <2>6 DEF ReadTo
<1> QED
  BY <1>1, <1>2

-----------------------------------------------------------------------------
LEMMA PlacesAre ==
  Places = {"idle", "pin", "read", "write", "publish", "report", "control", "answer", "judge", "grade", "tools", "tool"}
BY DEF Places, Eval!Models, Eval!Bridge

LEMMA Zeros ==
  ASSUME Eval!EvalAssumption
  PROVE  0 \in 0..Jobs /\ 1 \in 1..Jobs /\ 0 \in 0..MaxTurns /\ 1 \in 1..JudgeAttempts /\ 0 \in 0..LimitedAttempts /\ 0 \in 0..2
         /\ Len(Known) \in Nat /\ 1..Len(Known) \subseteq Nat /\ Jobs \in Nat /\ JudgeAttempts \in Nat
BY DEF Eval!EvalAssumption

LEMMA NoPodHeld == ASSUME Eval!EvalAssumption PROVE Eval!NoPod \in JobTypes /\ Stages(Eval!NoPod) /\ Eval!NoPod.at = "idle"
BY DEF Eval!EvalAssumption, Eval!NoPod, JobTypes, Stages, Eval!Modes, Eval!Hows, Places

LEMMA InitHolds == ASSUME Eval!EvalAssumption PROVE Eval!Init => JobInv /\ ShownInv
<1> SUFFICES ASSUME Eval!Init PROVE JobInv /\ ShownInv
  OBVIOUS
<1>1. JobInv
  BY NoPodHeld DEF Eval!Init, JobInv, Eval!EvalAssumption
<1>2. ShownInv
  BY DEF Eval!Init, ShownInv, ShownSet, FactSet, Eval!NoFacts
<1> QED
  BY <1>1, <1>2

\* A job that ends leaves nothing behind, and what it has counted.
LEMMA EndHolds ==
  ASSUME Eval!EvalAssumption, JobInv, job' = Eval!NoPod, evalHead' = evalHead \/ (evalHead < Len(Known) /\ evalHead' = evalHead + 1),
         spent' \in Nat, lost' \in Nat, billed' = spent' + lost', stored' \subseteq Eval!Modes, controlOk' \in {"none", "no", "yes"}
  PROVE  JobInv'
<1>1. job' \in JobTypes /\ Stages(job') /\ job'.at = "idle"
  BY NoPodHeld
<1>2. evalHead' \in 1..Len(Known)
  BY DEF JobInv, Eval!EvalAssumption
<1> QED
  BY <1>1, <1>2 DEF JobInv, Stages

\* A job that goes on, when the money and the store are as before.
LEMMA GoesOn ==
  ASSUME Eval!EvalAssumption, JobInv, job' \in JobTypes, Stages(job'), evalHead' = evalHead,
         spent' \in Nat, job'.at # "idle" => spent' <= Cap, lost' \in Nat, billed' = spent' + lost', stored' = stored,
         controlOk' \in {"none", "no", "yes"}, job'.at = "report" => job'.mode \in stored
  PROVE  JobInv'
BY DEF JobInv, Stages

LEMMA CostsCount == ASSUME Eval!EvalAssumption PROVE Costs \cup {0} \subseteq Nat
BY DEF Eval!EvalAssumption

\* What a place is about is in six fields.
LEMMA SameStage ==
  ASSUME Stages(job), job'.at = job.at, job'.mode = job.mode, job'.job = job.job, job'.control = job.control,
         job'.snap = job.snap, job'.read = job.read, job'.unreadable = job.unreadable
  PROVE  Stages(job')
BY DEF Stages

LEMMA StartHolds == ASSUME Eval!EvalAssumption, JobInv, Eval!Start PROVE JobInv'
<1>1. PICK mode \in Eval!Modes, how \in Eval!Hows :
        /\ how = "control_only" => mode = "answer"
        /\ job' = [Eval!NoPod EXCEPT !.mode = mode, !.how = how, !.at = Eval!First(mode)] /\ stored' = stored \ {mode}
  BY DEF Eval!Start
<1>2. job' \in JobTypes
  BY <1>1, NoPodHeld DEF JobTypes, Eval!First, Places, Eval!Models, Eval!Bridge, Eval!Modes
<1>3. Stages(job')
  BY <1>1 DEF Eval!NoPod, Stages, Eval!First, Eval!Modes
<1>4. job'.at # "report"
  BY <1>1 DEF Eval!NoPod, Eval!First, Eval!Modes
<1> QED
  BY <1>1, <1>2, <1>3, <1>4 DEF JobInv, Eval!Start, Stages, Eval!EvalAssumption

\* A commit is pinned with nothing read.
LEMMA PinHolds == ASSUME Eval!EvalAssumption, JobInv, Eval!Pin PROVE JobInv'
<1>1. job \in JobTypes /\ Stages(job) /\ job.at = "pin" /\ job' = [job EXCEPT !.at = "read", !.snap = evalHead] /\ evalHead \in 1..Len(Known)
  BY DEF JobInv, Eval!Pin
<1>2. job.read = {}
  BY <1>1 DEF Stages
<1>3. ReadTo({}, evalHead, 0) /\ 0 \in 0..Eval!Reads - 1
  BY ReadsPositive, FS_EmptySet DEF ReadTo
<1>4. job' \in JobTypes
  <2>1. evalHead \in Nat /\ "read" \in Places
    BY <1>1, Zeros, PlacesAre
  <2> QED
    BY <1>1, <2>1 DEF JobTypes
<1>5. Stages(job')
  BY <1>1, <1>2, <1>3 DEF Stages, JobTypes
<1> QED
  BY <1>1, <1>4, <1>5, GoesOn DEF JobInv, Eval!Pin, Eval!Money, Eval!Seen, JobTypes

LEMMA ReadHolds == ASSUME Eval!EvalAssumption, JobInv, Eval!Read PROVE JobInv'
<1> DEFINE k == Cardinality(job.read)
           profile == Profiles[(k \div LastCase) + 1]
<1>1. job \in JobTypes /\ Stages(job) /\ job.at = "read"
  BY DEF JobInv, Eval!Read
<1>2. job.snap \in 1..Len(Known) /\ k \in 0..Eval!Reads - 1 /\ ReadTo(job.read, job.snap, k)
  BY <1>1 DEF Stages, ReadTo
<1>3. /\ UNCHANGED <<Eval!Money, evalHead, stored>> /\ controlOk' = controlOk
      /\ \/ job' = Eval!NoPod
         \/ \E at \in Eval!AfterReads(job.read \cup {RankOf(k, job.snap)}) :
              job' = [job EXCEPT !.read = job.read \cup {RankOf(k, job.snap)}, !.at = at, !.backoffs = 0]
  BY EvalCounts DEF Eval!Read, Eval!CommitOf, Eval!Invalid, RankOf
<1>4. CASE job' = Eval!NoPod
  BY <1>3, <1>4, EndHolds DEF JobInv, Eval!Money
<1>5. ASSUME NEW at \in Eval!AfterReads(job.read \cup {RankOf(k, job.snap)}),
             job' = [job EXCEPT !.read = job.read \cup {RankOf(k, job.snap)}, !.at = at, !.backoffs = 0]
      PROVE  JobInv'
  <2> DEFINE read == job.read \cup {RankOf(k, job.snap)}
  <2>1. ReadTo(read, job.snap, k + 1) /\ RankOf(k, job.snap) \in Ranked
    BY <1>2, ReadNext, RankIn
  <2>2. Cardinality(read) = k + 1
    BY <2>1 DEF ReadTo
  <2>3. IF k + 1 < Eval!Reads THEN at = "read" ELSE at \in {"control", "write"} /\ (job.mode # "gate" => at = "write")
    BY <1>5, <2>2, EvalCounts DEF Eval!AfterReads
  <2>4. job' \in JobTypes
    BY <1>1, <1>5, <2>1, <2>3 DEF JobTypes, Places, Eval!Models
  <2> HIDE DEF read, k
  <2>5. /\ job'.at = at /\ job'.read = read /\ job'.mode = job.mode /\ job'.job = job.job /\ job'.control = job.control
        /\ job'.snap = job.snap /\ job.mode \in {"retrieval", "gate"} /\ job.job = 0 /\ job.control = <<>>
    BY <1>1, <1>5 DEF JobTypes, Stages, read
  <2>6. k + 1 >= Eval!Reads => k + 1 = Eval!Reads
    BY <1>2, ReadsPositive
  <2>7. Stages(job')
    <3>1. CASE k + 1 < Eval!Reads
      BY <1>2, <2>1, <2>3, <2>5, <3>1, ReadsPositive DEF Stages
    <3>2. CASE ~(k + 1 < Eval!Reads)
      BY <1>2, <2>1, <2>3, <2>5, <2>6, <3>2, ReadsPositive DEF Stages
    <3> QED
      BY <3>1, <3>2
  <2> QED
    BY <1>3, <1>1, <2>4, <2>5, <2>7, <2>3, GoesOn DEF JobInv, Eval!Money
<1> QED
  BY <1>3, <1>4, <1>5

\* Moves within a place, and those that end a job.
LEMMA TroubleHolds ==
  ASSUME Eval!EvalAssumption, JobInv, Eval!Throttled \/ Eval!BacksOff \/ Eval!Refused \/ Eval!ReadFails \/ Eval!PodDies \/ Eval!WaitForRoom \/ Eval!HeadMoves
  PROVE  JobInv'
<1>0. JobInv
  OBVIOUS
<1>1. CASE Eval!Throttled \/ Eval!BacksOff
  <2>0. job \in JobTypes /\ Stages(job)
    BY DEF JobInv
  <2>1. job' \in JobTypes /\ job'.at = job.at /\ job'.mode = job.mode /\ Stages(job') /\ UNCHANGED <<evalHead, Eval!Seen, spent>>
    <3>1. CASE Eval!Throttled
      <4>1. job.limited + 1 \in 0..LimitedAttempts /\ job' = [job EXCEPT !.limited = job.limited + 1]
        <5>1. job.limited \in 0..LimitedAttempts /\ LimitedAttempts \in Nat \ {0}
          BY <2>0 DEF Eval!EvalAssumption, JobTypes
        <5> QED
          BY <3>1, <5>1 DEF Eval!Throttled
      <4>2. job' \in JobTypes
        BY <2>0, <4>1 DEF JobTypes
      <4> QED
        <5>1. /\ job'.at = job.at /\ job'.mode = job.mode /\ job'.job = job.job /\ job'.control = job.control
              /\ job'.snap = job.snap /\ job'.read = job.read /\ job'.unreadable = job.unreadable
          BY <2>0, <4>1 DEF JobTypes
        <5>2. Stages(job')
          BY <2>0, <5>1, SameStage
        <5> QED
          BY <3>1, <4>2, <5>1, <5>2 DEF Eval!Throttled, Eval!Money
    <3>2. CASE Eval!BacksOff
      <4>1. job' = [job EXCEPT !.backoffs = job.backoffs + 1]
        BY <3>2 DEF Eval!BacksOff
      <4>2. job' \in JobTypes
        BY <2>0, <4>1 DEF JobTypes
      <4> QED
        <5>1. /\ job'.at = job.at /\ job'.mode = job.mode /\ job'.job = job.job /\ job'.control = job.control
              /\ job'.snap = job.snap /\ job'.read = job.read /\ job'.unreadable = job.unreadable
          BY <2>0, <4>1 DEF JobTypes
        <5>2. Stages(job')
          BY <2>0, <5>1, SameStage
        <5> QED
          BY <3>2, <4>2, <5>1, <5>2 DEF Eval!BacksOff, Eval!Lost
    <3> QED
      BY <1>1, <3>1, <3>2
  <2>2. spent' \in Nat /\ lost' \in Nat /\ billed' = spent' + lost'
    BY <1>1, CostsCount DEF Eval!Throttled, Eval!BacksOff, Eval!Lost, Eval!Money, JobInv
  <2> QED
    BY <2>1, <2>2, GoesOn DEF Eval!Seen, JobInv
<1>2. CASE Eval!Refused
  <2>1. CASE job.at = "tool" /\ Eval!Goes("answer") /\ UNCHANGED <<Eval!Seen, Eval!Money>>
    <3>1. job' = [job EXCEPT !.at = "answer", !.limited = 0, !.backoffs = 0] /\ job \in JobTypes /\ Stages(job)
      BY <2>1 DEF Eval!Goes, JobInv
    <3>2. job' \in JobTypes /\ job'.at = "answer"
      <4>1. 0 \in 0..LimitedAttempts /\ 0 \in Nat /\ "answer" \in Places
        BY Zeros, PlacesAre
      <4> QED
        BY <3>1, <4>1 DEF JobTypes
    <3>3. Stages(job')
      BY <2>1, <3>1 DEF JobTypes, Stages
    <3> QED
      BY <1>2, <2>1, <3>2, <3>3, GoesOn DEF Eval!Refused, Eval!Seen, Eval!Money, JobInv
  <2>2. CASE job.at # "tool" /\ Eval!Invalid(job.mode) /\ UNCHANGED <<controlOk, stored>>
    <3>1. job' = Eval!NoPod /\ evalHead' = evalHead /\ stored' = stored /\ controlOk' = controlOk
      BY <1>2, <2>2 DEF Eval!Refused, Eval!Invalid
    <3>2. spent' \in Nat /\ lost' \in Nat /\ billed' = spent' + lost'
      BY <1>2, <2>2, CostsCount DEF Eval!Refused, Eval!Lost, Eval!Money, JobInv
    <3> QED
      BY <3>1, <3>2, EndHolds DEF JobInv
  <2> QED
    BY <1>2, <2>1, <2>2 DEF Eval!Refused
<1>3. CASE Eval!ReadFails
  <2>1. CASE job' = Eval!NoPod
    BY <1>3, <2>1, EndHolds DEF Eval!ReadFails, Eval!Money, JobInv
  <2>2. CASE job' = [job EXCEPT !.backoffs = @ + 1]
    <3>0. job \in JobTypes /\ Stages(job) /\ job' = [job EXCEPT !.backoffs = job.backoffs + 1]
      BY <2>2 DEF JobInv
    <3>a. job.backoffs + 1 \in Nat
      BY <3>0 DEF JobTypes
    <3>b. job' \in JobTypes
      BY <3>0, <3>a DEF JobTypes
    <3>c. /\ job'.at = job.at /\ job'.mode = job.mode /\ job'.job = job.job /\ job'.control = job.control
          /\ job'.snap = job.snap /\ job'.read = job.read /\ job'.unreadable = job.unreadable
      BY <3>0 DEF JobTypes
    <3>1. job' \in JobTypes /\ job'.at = job.at /\ job'.mode = job.mode /\ Stages(job')
      BY <3>0, <3>b, <3>c, SameStage
    <3> QED
      BY <1>3, <3>1, GoesOn DEF Eval!ReadFails, Eval!Money, JobInv
  <2> QED
    BY <1>3, <2>1, <2>2 DEF Eval!ReadFails, Eval!Invalid
<1>4. CASE Eval!PodDies
  BY <1>4, EndHolds DEF Eval!PodDies, Eval!Money, Eval!Seen, JobInv
<1>5. CASE Eval!WaitForRoom
  BY <1>5, GoesOn DEF Eval!WaitForRoom, Eval!Money, Eval!Seen, JobInv
<1>6. CASE Eval!HeadMoves
  BY <1>6, Zeros DEF Eval!HeadMoves, Eval!Money, Eval!Seen, Stages, JobInv
<1> QED
  BY <1>1, <1>2, <1>3, <1>4, <1>5, <1>6

LEMMA AppendSecond ==
  ASSUME NEW S, NEW v \in S, NEW w \in S PROVE Append(<<v>>, w) = <<v, w>>
<1>1. <<v>> \in Seq(S) /\ <<v, w>> \in Seq(S)
  OBVIOUS
<1>2. Append(<<v>>, w) \in Seq(S) /\ Len(Append(<<v>>, w)) = 2 /\ Len(<<v, w>>) = 2
  BY <1>1, AppendProperties
<1>3. Append(<<v>>, w)[1] = v /\ Append(<<v>>, w)[2] = w
  BY <1>1, AppendProperties
<1>4. \A i \in 1..2 : Append(<<v>>, w)[i] = <<v, w>>[i]
  BY <1>3
<1> QED
  BY <1>1, <1>2, <1>4, SeqEqual

\* Passes only what the judge told apart.
LEMMA PassesTold ==
  ASSUME NEW v \in Eval!Verdicts, NEW w \in Eval!Verdicts, Eval!Passes(<<v, w>>)
  PROVE  <<v, w>> = Told
BY DEF Eval!Verdicts, Eval!Passes, Eval!Score, Told

\* What a paid call leaves, whatever it was for.
PaidFor == spent' \in Nat /\ lost' = lost /\ billed' = spent' + lost' /\ evalHead' = evalHead /\ stored' = stored

LEMMA PaidEnds ==
  ASSUME Eval!EvalAssumption, JobInv, PaidFor, job' = Eval!NoPod, controlOk' \in {"none", "no", "yes"}
  PROVE  JobInv'
<1>1. spent' \in Nat /\ lost' \in Nat /\ billed' = spent' + lost' /\ evalHead' = evalHead /\ stored' \subseteq Eval!Modes
  BY DEF PaidFor, JobInv
<1> QED
  BY <1>1, EndHolds

LEMMA PaidGoesOn ==
  ASSUME Eval!EvalAssumption, JobInv, PaidFor, spent' <= Cap, job' \in JobTypes, Stages(job'), controlOk' = controlOk, job'.at # "report"
  PROVE  JobInv'
<1>1. spent' \in Nat /\ lost' \in Nat /\ billed' = spent' + lost' /\ evalHead' = evalHead /\ stored' = stored
      /\ controlOk' \in {"none", "no", "yes"}
  BY DEF PaidFor, JobInv
<1> QED
  BY <1>1, GoesOn

LEMMA JudgeControlHolds == ASSUME Eval!EvalAssumption, JobInv, Eval!JudgeControl PROVE JobInv'
<1>1. job \in JobTypes /\ Stages(job) /\ job.at = "control"
  BY DEF JobInv, Eval!JudgeControl
<1>2. PICK heard \in Eval!Verdicts :
        LET control == Append(job.control, heard)
            next == [job EXCEPT !.control = control, !.limited = 0, !.backoffs = 0]
        IN  Eval!Paid(CASE Len(control) = 1 -> job' = next /\ UNCHANGED <<shown, controlOk>>
                   [] ~Eval!Passes(control) -> Eval!Invalid(job.mode) /\ controlOk' = IF job.how = "synthetic" THEN controlOk ELSE "no"
                   [] job.how = "control_only" -> job' = Eval!NoPod /\ controlOk' = "yes" /\ UNCHANGED shown
                   [] job.how = "full" /\ ~Redacted -> Eval!Invalid(job.mode) /\ UNCHANGED controlOk
                   [] OTHER -> job' = [next EXCEPT !.at = "tools"] /\ UNCHANGED <<shown, controlOk>>)
  BY DEF Eval!JudgeControl
<1> DEFINE control == Append(job.control, heard)
           next == [job EXCEPT !.control = control, !.limited = 0, !.backoffs = 0]
<1>3. /\ PaidFor
      /\ \/ spent' <= Cap /\ Len(control) = 1 /\ job' = next /\ controlOk' = controlOk
         \/ job' = Eval!NoPod /\ controlOk' \in {controlOk, "yes", "no"}
         \/ spent' <= Cap /\ Len(control) # 1 /\ Eval!Passes(control) /\ job' = [next EXCEPT !.at = "tools"] /\ controlOk' = controlOk
  BY <1>2, CostsCount DEF Eval!Paid, PaidFor, Eval!Within, Eval!Invalid, JobInv
<1>4. CASE job' = Eval!NoPod /\ controlOk' \in {controlOk, "yes", "no"}
  BY <1>3, <1>4, PaidEnds DEF JobInv
<1>5. control \in Seq(Eval!Verdicts)
  BY <1>1 DEF JobTypes
<1>6. next \in JobTypes
  BY <1>1, <1>5, Zeros DEF JobTypes
<1>9. control = <<heard>> \/ \E v \in Eval!Verdicts : control = <<v, heard>>
  <2>1. CASE job.control = <<>>
    <3>1. Append(<<>>, heard) = <<heard>>
      OBVIOUS
    <3> QED
      BY <2>1, <3>1
  <2>2. ASSUME NEW v \in Eval!Verdicts, job.control = <<v>> PROVE control = <<v, heard>>
    <3>1. Append(<<v>>, heard) = <<v, heard>>
      BY AppendSecond
    <3> QED
      BY <2>2, <3>1
  <2> QED
    BY <1>1, <2>1, <2>2 DEF Stages
<1>10. Len(<<heard>>) = 1 /\ \A v \in Eval!Verdicts : Len(<<v, heard>>) = 2
  OBVIOUS
<1>7. CASE spent' <= Cap /\ Len(control) = 1 /\ job' = next /\ controlOk' = controlOk
  <2>1. \E v \in Eval!Verdicts : control = <<v>>
    BY <1>7, <1>9, <1>10
  <2> HIDE DEF control
  <2>2. Stages(job') /\ job'.at = "control"
    BY <1>1, <1>7, <2>1 DEF Stages, JobTypes
  <2> QED
    BY <1>3, <1>6, <1>7, <2>2, PaidGoesOn
<1>8. CASE spent' <= Cap /\ Len(control) # 1 /\ Eval!Passes(control) /\ job' = [next EXCEPT !.at = "tools"] /\ controlOk' = controlOk
  <2>3. PICK v \in Eval!Verdicts : control = <<v, heard>>
    BY <1>8, <1>9, <1>10
  <2>4. control = Told
    BY <1>8, <2>3, PassesTold
  <2> HIDE DEF control
  <2>5. job' \in JobTypes /\ job'.at = "tools"
    <3>1. job' = [next EXCEPT !.at = "tools"] /\ "tools" \in Places
      BY <1>8, PlacesAre
    <3> HIDE DEF next
    <3> QED
      BY <1>6, <3>1 DEF JobTypes
  <2>6. /\ job'.mode = job.mode /\ job'.control = control /\ job'.snap = job.snap /\ job'.read = job.read
    BY <1>1, <1>8 DEF JobTypes
  <2>7. Stages(job')
    BY <1>1, <2>4, <2>5, <2>6 DEF Stages
  <2> QED
    BY <1>3, <1>8, <2>5, <2>7, PaidGoesOn
<1> QED
  BY <1>3, <1>4, <1>7, <1>8

LEMMA ListToolsHolds == ASSUME Eval!EvalAssumption, JobInv, Eval!ListTools PROVE JobInv'
<1>1. job \in JobTypes /\ Stages(job) /\ job.at = "tools" /\ UNCHANGED <<Eval!Money, evalHead, Eval!Seen>>
  BY DEF JobInv, Eval!ListTools
<1>2. job' \in JobTypes /\ job'.at \in {"tools", "answer"}
  <2>1. CASE job.rpc < 2 /\ job' = [job EXCEPT !.rpc = @ + 1, !.limited = 0]
    <3>1. job.rpc + 1 \in 0..2
      BY <1>1, <2>1 DEF JobTypes
    <3> QED
      BY <1>1, <2>1, <3>1, Zeros DEF JobTypes
  <2>2. CASE job' = [job EXCEPT !.at = "answer", !.job = 1, !.limited = 0]
    <3>1. 1 \in 0..Jobs
      BY Zeros
    <3> QED
      BY <1>1, <2>2, <3>1, Zeros, PlacesAre DEF JobTypes
  <2> QED
    BY <2>1, <2>2 DEF Eval!ListTools
<1>3. Stages(job')
  BY <1>1, Zeros DEF Eval!ListTools, Stages, JobTypes
<1> QED
  BY <1>1, <1>2, <1>3, GoesOn DEF JobInv, Eval!Money, Eval!Seen

LEMMA AnswerHolds == ASSUME Eval!EvalAssumption, JobInv, Eval!Answer \/ Eval!CallTool PROVE JobInv'
<1>1. job \in JobTypes /\ Stages(job) /\ job.at \in {"answer", "tool"}
  BY DEF JobInv, Eval!Answer, Eval!CallTool
<1>2. CASE Eval!CallTool
  <2>1. job' = [job EXCEPT !.at = "answer", !.limited = 0, !.backoffs = 0] /\ UNCHANGED <<Eval!Money, evalHead, Eval!Seen>>
    BY <1>2 DEF Eval!CallTool, Eval!Goes
  <2>2. job' \in JobTypes /\ job'.at = "answer"
    BY <1>1, <2>1, Zeros, PlacesAre DEF JobTypes
  <2>3. Stages(job')
    BY <1>1, <2>1 DEF Stages, JobTypes
  <2> QED
    BY <1>1, <2>1, <2>2, <2>3, GoesOn DEF JobInv, Eval!Money, Eval!Seen
<1>3. CASE Eval!Answer
  <2> DEFINE Next1(asks) == [job EXCEPT !.limited = 0, !.backoffs = 0,
                               !.at = IF asks /\ job.turns < MaxTurns THEN "tool" ELSE "judge",
                               !.turns = IF asks /\ @ < MaxTurns THEN @ + 1 ELSE @]
  <2>1. PICK asks \in BOOLEAN : Eval!Paid(job' = Next1(asks) /\ UNCHANGED <<shown, controlOk>>)
    BY <1>3 DEF Eval!Answer
  <2>2. /\ PaidFor
        /\ \/ spent' <= Cap /\ job' = Next1(asks) /\ controlOk' = controlOk
           \/ job' = Eval!NoPod /\ controlOk' = controlOk
    BY <2>1, CostsCount DEF Eval!Paid, PaidFor, Eval!Within, Eval!Invalid, JobInv
  <2>3. CASE job' = Eval!NoPod /\ controlOk' = controlOk
    BY <2>2, <2>3, PaidEnds DEF JobInv
  <2>4. CASE spent' <= Cap /\ job' = Next1(asks) /\ controlOk' = controlOk
    <3>1. (IF asks /\ job.turns < MaxTurns THEN job.turns + 1 ELSE job.turns) \in 0..MaxTurns
      BY <1>1 DEF Eval!EvalAssumption, JobTypes
    <3>2. job' \in JobTypes /\ job'.at \in {"tool", "judge"}
      BY <1>1, <2>4, <3>1, Zeros, PlacesAre DEF JobTypes
    <3>3. Stages(job')
      BY <1>1, <2>4 DEF Stages, JobTypes
    <3> QED
      BY <2>2, <2>4, <3>2, <3>3, PaidGoesOn
  <2> QED
    BY <2>2, <2>3, <2>4
<1> QED
  BY <1>2, <1>3

LEMMA NextJobHolds ==
  ASSUME Eval!EvalAssumption, JobInv, NEW unreadable \in Nat, Eval!NextJob(unreadable), job.at = "judge"
  PROVE  job' = Eval!NoPod \/ (job' \in JobTypes /\ Stages(job') /\ job'.at # "report")
<1>1. job \in JobTypes /\ Stages(job) /\ job.control = Told /\ job.job \in 1..Jobs
  BY DEF JobInv, Stages
<1>2. CASE job.job < Jobs
  <2>1. job' = [job EXCEPT !.at = "answer", !.job = @ + 1, !.turns = 0, !.attempt = 1,
                           !.unreadable = unreadable, !.limited = 0, !.backoffs = 0]
    BY <1>2 DEF Eval!NextJob
  <2>2. job.job + 1 \in 1..Jobs /\ job.job + 1 \in 0..Jobs
    BY <1>1, <1>2, Zeros
  <2>3. job' \in JobTypes /\ job'.at = "answer"
    BY <1>1, <2>1, <2>2, Zeros, PlacesAre DEF JobTypes
  <2>4. Stages(job')
    BY <1>1, <2>1, <2>2 DEF Stages, JobTypes
  <2> QED
    BY <2>3, <2>4
<1>3. CASE ~(job.job < Jobs) /\ Eval!TooManyUnreadable(unreadable)
  BY <1>3 DEF Eval!NextJob, Eval!Invalid
<1>4. CASE ~(job.job < Jobs) /\ ~Eval!TooManyUnreadable(unreadable)
  <2>1. job' = [job EXCEPT !.at = Eval!AfterAnswers, !.unreadable = unreadable, !.attempt = 1, !.limited = 0, !.backoffs = 0]
    BY <1>4 DEF Eval!NextJob
  <2>2. job.job = Jobs /\ unreadable * LoseOneIn <= Jobs /\ Eval!AfterAnswers \in {"grade", "write"}
    BY <1>1, <1>4, Zeros DEF Eval!TooManyUnreadable, Eval!AfterAnswers, Eval!EvalAssumption
  <2>3. job' \in JobTypes /\ job'.at = Eval!AfterAnswers
    BY <1>1, <2>1, <2>2, Zeros, PlacesAre DEF JobTypes
  <2>4. Stages(job')
    BY <1>1, <2>1, <2>2, <2>3 DEF Stages, JobTypes
  <2> QED
    BY <2>2, <2>3, <2>4
<1> QED
  BY <1>2, <1>3, <1>4

LEMMA JudgeHolds == ASSUME Eval!EvalAssumption, JobInv, Eval!Judge PROVE JobInv'
<1>1. job \in JobTypes /\ Stages(job) /\ job.at = "judge"
  BY DEF JobInv, Eval!Judge
<1>2. PICK readable \in BOOLEAN :
        Eval!Paid(/\ IF readable THEN Eval!NextJob(job.unreadable)
                     ELSE IF job.attempt < JudgeAttempts
                     THEN job' = [job EXCEPT !.attempt = @ + 1, !.limited = 0, !.backoffs = 0] /\ UNCHANGED shown
                     ELSE Eval!NextJob(job.unreadable + 1)
                  /\ UNCHANGED controlOk)
  BY DEF Eval!Judge
<1>3. /\ PaidFor /\ controlOk' = controlOk
      /\ \/ job' = Eval!NoPod
         \/ spent' <= Cap /\ (Eval!NextJob(job.unreadable) \/ Eval!NextJob(job.unreadable + 1))
         \/ spent' <= Cap /\ job.attempt < JudgeAttempts /\ job' = [job EXCEPT !.attempt = @ + 1, !.limited = 0, !.backoffs = 0]
  BY <1>2, CostsCount DEF Eval!Paid, PaidFor, Eval!Within, Eval!Invalid, JobInv
<1>4. CASE job' = Eval!NoPod
  BY <1>3, <1>4, PaidEnds DEF JobInv
<1>5. CASE spent' <= Cap /\ (Eval!NextJob(job.unreadable) \/ Eval!NextJob(job.unreadable + 1))
  <2>1. job.unreadable \in Nat /\ job.unreadable + 1 \in Nat
    BY <1>1 DEF JobTypes
  <2>2. job' = Eval!NoPod \/ (job' \in JobTypes /\ Stages(job') /\ job'.at # "report")
    BY <1>1, <1>5, <2>1, NextJobHolds
  <2> QED
    BY <1>3, <1>4, <1>5, <2>2, PaidGoesOn
<1>6. CASE spent' <= Cap /\ job.attempt < JudgeAttempts /\ job' = [job EXCEPT !.attempt = @ + 1, !.limited = 0, !.backoffs = 0]
  <2>1. job.attempt + 1 \in 1..JudgeAttempts
    <3>1. job.attempt \in 1..JudgeAttempts
      BY <1>1 DEF JobTypes
    <3> QED
      BY <1>6, <3>1, Zeros
  <2>2. job' \in JobTypes
    BY <1>1, <1>6, <2>1, Zeros DEF JobTypes
  <2>3. Stages(job') /\ job'.at = "judge"
    <3>1. /\ job'.at = job.at /\ job'.mode = job.mode /\ job'.job = job.job /\ job'.control = job.control
          /\ job'.snap = job.snap /\ job'.read = job.read /\ job'.unreadable = job.unreadable
      BY <1>1, <1>6 DEF JobTypes
    <3> QED
      BY <1>1, <3>1, SameStage
  <2> QED
    BY <1>3, <1>6, <2>2, <2>3, PaidGoesOn
<1> QED
  BY <1>3, <1>4, <1>5, <1>6

LEMMA GradeHolds == ASSUME Eval!EvalAssumption, JobInv, Eval!Grade PROVE JobInv'
<1>1. job \in JobTypes /\ Stages(job) /\ job.at = "grade"
  BY DEF JobInv, Eval!Grade
<1> DEFINE Again == [job EXCEPT !.attempt = @ + 1, !.limited = 0, !.backoffs = 0]
           Graded == [job EXCEPT !.graded = @ + 1, !.attempt = 1, !.limited = 0, !.backoffs = 0,
                                 !.at = IF job.graded + 1 < GradedFiles THEN "grade" ELSE "write"]
<1>2. PICK readable \in BOOLEAN :
        Eval!Paid(/\ job' = IF ~readable /\ job.attempt < JudgeAttempts THEN Again ELSE Graded
                  /\ UNCHANGED <<shown, controlOk>>)
  BY DEF Eval!Grade
<1>3. /\ PaidFor /\ controlOk' = controlOk
      /\ \/ job' = Eval!NoPod
         \/ spent' <= Cap /\ job' = Graded
         \/ spent' <= Cap /\ job.attempt < JudgeAttempts /\ job' = Again
  BY <1>2, CostsCount DEF Eval!Paid, PaidFor, Eval!Within, Eval!Invalid, JobInv
<1>4. CASE job' = Eval!NoPod
  BY <1>3, <1>4, PaidEnds DEF JobInv
<1>5. CASE spent' <= Cap /\ job' = Graded
  <2>1. job' \in JobTypes /\ job'.at \in {"grade", "write"}
    <3>1. job.graded + 1 \in Nat
      BY <1>1 DEF JobTypes
    <3> QED
      BY <1>1, <1>5, <3>1, Zeros, PlacesAre DEF JobTypes
  <2>2. Stages(job')
    BY <1>1, <1>5, <2>1 DEF JobTypes, Stages
  <2> QED
    BY <1>3, <1>5, <2>1, <2>2, PaidGoesOn
<1>6. CASE spent' <= Cap /\ job.attempt < JudgeAttempts /\ job' = Again
  <2>1. job.attempt + 1 \in 1..JudgeAttempts
    <3>1. job.attempt \in 1..JudgeAttempts
      BY <1>1 DEF JobTypes
    <3> QED
      BY <1>6, <3>1, Zeros
  <2>2. job' \in JobTypes
    BY <1>1, <1>6, <2>1, Zeros DEF JobTypes
  <2>3. Stages(job') /\ job'.at = "grade"
    <3>1. /\ job'.at = job.at /\ job'.mode = job.mode /\ job'.job = job.job /\ job'.control = job.control
          /\ job'.snap = job.snap /\ job'.read = job.read /\ job'.unreadable = job.unreadable
      BY <1>1, <1>6 DEF JobTypes
    <3> QED
      BY <1>1, <3>1, SameStage
  <2> QED
    BY <1>3, <1>6, <2>2, <2>3, PaidGoesOn
<1> QED
  BY <1>3, <1>4, <1>5, <1>6

LEMMA FinishHolds == ASSUME Eval!EvalAssumption, JobInv, Eval!Write \/ Eval!Publish \/ Eval!Report PROVE JobInv'
<1>1. job \in JobTypes /\ Stages(job) /\ spent \in Nat /\ lost \in Nat /\ billed = spent + lost /\ stored \subseteq Eval!Modes
      /\ controlOk \in {"none", "no", "yes"} /\ (job.at # "idle" => spent <= Cap)
  BY DEF JobInv
<1>2. CASE job' = Eval!NoPod
  <2>1. evalHead' = evalHead /\ UNCHANGED Eval!Money /\ stored' \subseteq Eval!Modes
    BY <1>1 DEF Eval!Write, Eval!Publish, Eval!Report, Eval!Seen, JobTypes
  <2>2. controlOk' \in {"none", "no", "yes"}
    BY <1>1 DEF Eval!Write, Eval!Publish, Eval!Report, Eval!Seen
  <2> QED
    BY <1>1, <1>2, <2>1, <2>2, EndHolds DEF Eval!Money
<1>3. CASE Eval!Write /\ job' = [job EXCEPT !.at = "publish"]
  <2>1. job' \in JobTypes
    BY <1>1, <1>3, PlacesAre DEF JobTypes
  <2>2. Stages(job') /\ job'.at = "publish"
    BY <1>1, <1>3 DEF JobTypes, Stages, Eval!Write
  <2> QED
    BY <1>1, <1>3, <2>1, <2>2, GoesOn DEF Eval!Write, Eval!Money, Eval!Seen
<1>4. CASE Eval!Publish
  <2>1. job.at = "publish" /\ job' = [job EXCEPT !.at = "report"] /\ stored' = stored \cup {job.mode}
    BY <1>4 DEF Eval!Publish
  <2>2. job' \in JobTypes
    BY <1>1, <2>1, PlacesAre DEF JobTypes
  <2>3. Stages(job') /\ job'.at = "report" /\ job'.mode = job.mode /\ job.mode \in Eval!Modes
    BY <1>1, <2>1 DEF JobTypes, Stages
  <2> QED
    BY <1>1, <1>4, <2>1, <2>2, <2>3 DEF Eval!Publish, Eval!Money, JobInv
<1> QED
  BY <1>2, <1>3, <1>4 DEF Eval!Write, Eval!Publish, Eval!Report, Eval!Invalid

LEMMA StepHolds == ASSUME Eval!EvalAssumption, JobInv, [Eval!Next]_Eval!runVars PROVE JobInv'
<1>1. CASE UNCHANGED Eval!runVars
  BY <1>1 DEF Eval!runVars, JobInv, Stages
<1> QED
  BY <1>1, StartHolds, PinHolds, ReadHolds, TroubleHolds, JudgeControlHolds, ListToolsHolds, AnswerHolds, JudgeHolds, GradeHolds,
     FinishHolds DEF Eval!Next

-----------------------------------------------------------------------------
(* What the metrics store shows. *)

LEMMA ShownUnless ==
  ASSUME Eval!EvalAssumption, JobInv, [Eval!Next]_Eval!runVars
  PROVE  \/ shown' = shown
         \/ \E m \in Eval!Modes : shown' = [shown EXCEPT ![m].valid = "no"] \/ shown' = [shown EXCEPT ![m].valid = @]
         \/ job.at = "report" /\ shown' = [shown EXCEPT ![job.mode] = [valid |-> "yes", of |-> Eval!Facts]]
<1>1. job.mode \in Eval!Modes /\ "retrieval" \in Eval!Modes
  BY DEF JobInv, JobTypes, Eval!Modes
<1>2. CASE Eval!Start \/ Eval!Pin \/ Eval!Read \/ Eval!ReadFails \/ Eval!WaitForRoom \/ Eval!Throttled \/ Eval!BacksOff \/ Eval!Refused
  BY <1>1, <1>2 DEF Eval!Start, Eval!Pin, Eval!Read, Eval!ReadFails, Eval!WaitForRoom, Eval!Throttled, Eval!BacksOff, Eval!Refused, Eval!Invalid, Eval!Seen
<1>3. CASE Eval!JudgeControl
  BY <1>1, <1>3 DEF Eval!JudgeControl, Eval!Paid, Eval!Invalid
<1>4. CASE Eval!ListTools \/ Eval!Answer \/ Eval!CallTool \/ Eval!Grade
  BY <1>1, <1>4 DEF Eval!ListTools, Eval!Answer, Eval!CallTool, Eval!Grade, Eval!Paid, Eval!Invalid, Eval!Seen
<1>5. CASE Eval!Judge
  BY <1>1, <1>5 DEF Eval!Judge, Eval!Paid, Eval!NextJob, Eval!Invalid
<1>6. CASE Eval!Write \/ Eval!Publish \/ Eval!Report \/ Eval!PodDies \/ Eval!HeadMoves \/ UNCHANGED Eval!runVars
  BY <1>1, <1>6 DEF Eval!Write, Eval!Publish, Eval!Report, Eval!PodDies, Eval!HeadMoves, Eval!Invalid, Eval!Seen, Eval!runVars
<1> QED
  BY <1>2, <1>3, <1>4, <1>5, <1>6 DEF Eval!Next

\* What is reported is judged, and compared on one commit.
LEMMA FactsSound ==
  ASSUME Eval!EvalAssumption, JobInv, job.at = "report"
  PROVE  /\ Eval!Facts.stored /\ Eval!Facts.spent <= Cap
         /\ job.mode = "answer" \/ Eval!Facts.answers > 0 =>
              Eval!Facts.control = <<"high", "low">> /\ Eval!Facts.answers = Jobs /\ Eval!Facts.unreadable * LoseOneIn <= Jobs
         /\ job.mode \in {"retrieval", "gate"} =>
              /\ \A p \in Eval!Range(Profiles) : Eval!Scored(Eval!Facts, p) = Known[Eval!Facts.snap] \cap Eval!Cases
              /\ \A r \in Eval!Facts.read : r.commit = Eval!Facts.snap
<1>1. job \in JobTypes /\ Stages(job) /\ spent <= Cap /\ job.mode \in stored
  BY DEF JobInv
<1>2. /\ Eval!Facts.control = job.control /\ Eval!Facts.unreadable = job.unreadable /\ Eval!Facts.answers = job.job /\ Eval!Facts.read = job.read
      /\ Eval!Facts.snap = job.snap /\ Eval!Facts.spent = spent /\ Eval!Facts.stored = (job.mode \in stored)
  BY DEF Eval!Facts
<1>3. ASSUME job.mode \in {"retrieval", "gate"}
      PROVE  /\ \A p \in Eval!Range(Profiles) : Eval!Scored(Eval!Facts, p) = Known[Eval!Facts.snap] \cap Eval!Cases
             /\ \A r \in Eval!Facts.read : r.commit = Eval!Facts.snap
  <2>1. job.snap \in 1..Len(Known) /\ ReadTo(job.read, job.snap, Eval!Reads)
    BY <1>1, <1>3 DEF Stages
  <2>2. /\ \A r \in job.read : r.commit = job.snap
        /\ \A p \in Eval!Range(Profiles), c \in Eval!Cases : \E r \in job.read : r.profile = p /\ r.case = c
    BY <2>1, AllRead
  <2> QED
    BY <1>2, <2>2 DEF Eval!Scored
<1>4. job.mode = "answer" \/ job.job > 0 => job.control = Told /\ job.job = Jobs /\ job.unreadable * LoseOneIn <= Jobs
  BY <1>1 DEF Stages
<1> QED
  BY <1>1, <1>2, <1>3, <1>4 DEF Told

LEMMA ShownHolds ==
  ASSUME Eval!EvalAssumption, JobInv, ShownInv, [Eval!Next]_Eval!runVars
  PROVE  ShownInv'
<1>0. shown \in ShownSet
  BY DEF ShownInv
<1>1. CASE shown' = shown
  BY <1>1 DEF ShownInv
<1>2. ASSUME NEW m \in Eval!Modes, shown' = [shown EXCEPT ![m].valid = "no"] \/ shown' = [shown EXCEPT ![m].valid = @]
      PROVE  ShownInv'
  <2>1. PICK v \in {"none", "no", "yes"} : shown' = [shown EXCEPT ![m].valid = v] /\ (v = "yes" => shown[m].valid = "yes")
    <3>1. shown[m].valid \in {"none", "no", "yes"}
      BY <1>0 DEF ShownSet
    <3> QED
      BY <1>2, <3>1
  <2>2. shown' = [shown EXCEPT ![m] = [shown[m] EXCEPT !.valid = v]]
    BY <2>1
  <2>3. /\ [shown[m] EXCEPT !.valid = v] \in [valid : {"none", "no", "yes"}, of : FactSet]
        /\ [shown[m] EXCEPT !.valid = v].of = shown[m].of /\ [shown[m] EXCEPT !.valid = v].valid = v
    BY <1>0 DEF ShownSet
  <2>4. shown' \in ShownSet
    BY <1>0, <2>2, <2>3 DEF ShownSet
  <2>5. shown'[m] = [shown[m] EXCEPT !.valid = v] /\ \A x \in Eval!Modes \ {m} : shown'[x] = shown[x]
    BY <1>0, <2>2 DEF ShownSet
  <2>6. \A x \in Eval!Modes : shown'[x].of = shown[x].of /\ (shown'[x].valid = "yes" => shown[x].valid = "yes")
    BY <2>1, <2>3, <2>5
  <2> QED
    BY <2>4, <2>6 DEF ShownInv
<1>3. ASSUME job.at = "report", shown' = [shown EXCEPT ![job.mode] = [valid |-> "yes", of |-> Eval!Facts]]
      PROVE  ShownInv'
  <2>1. job.mode \in Eval!Modes /\ Eval!Facts \in FactSet
    BY DEF JobInv, JobTypes, Eval!Facts, FactSet
  <2>2. Sound(job.mode, Eval!Facts)
    BY <1>3, FactsSound DEF Sound, Told
  <2> HIDE DEF Eval!Facts
  <2>3. shown' \in ShownSet /\ shown'[job.mode] = [valid |-> "yes", of |-> Eval!Facts] /\ \A x \in Eval!Modes \ {job.mode} : shown'[x] = shown[x]
    BY <1>0, <1>3, <2>1 DEF ShownSet
  <2> QED
    BY <2>2, <2>3 DEF ShownInv
<1> QED
  BY <1>1, <1>2, <1>3, ShownUnless

LEMMA ShownMeans == ShownInv => Eval!PublishedIsJudged /\ Eval!ComparedOnOneCommit
BY DEF ShownInv, Sound, Told, Eval!PublishedIsJudged, Eval!ComparedOnOneCommit, Eval!Modes

\* What is shown of a mode is what a job found that stored its results, whose judge was
\* tested, and whose profiles were compared on one commit.
THEOREM ShownIsSound ==
  ASSUME Eval!EvalAssumption
  PROVE  Eval!Spec => []ReportsSound
BY InitHolds, StepHolds, ShownHolds, ShownMeans, PTL DEF Eval!Spec, ReportsSound

\* A job stops with the call that passes its cap, and its bill has nothing beyond what it
\* counted but the calls that came to nothing.
CapInv == JobInv /\ spent <= Cap + Eval!Most(Costs)

LEMMA CapHolds ==
  ASSUME Eval!EvalAssumption
  PROVE  (Eval!Init => spent <= Cap + Eval!Most(Costs)) /\ (CapInv /\ [Eval!Next]_Eval!runVars => (spent <= Cap + Eval!Most(Costs))')
<1>1. Eval!Most(Costs) \in Costs /\ \A d \in Costs : d <= Eval!Most(Costs)
  BY DEF Eval!EvalAssumption, Eval!Most
<1>2. Eval!Most(Costs) \in Nat /\ Cap \in Nat /\ Costs \subseteq Nat
  BY <1>1 DEF Eval!EvalAssumption
<1>3. ASSUME CapInv, [Eval!Next]_Eval!runVars PROVE (spent <= Cap + Eval!Most(Costs))'
  <2>1. spent \in Nat /\ spent <= Cap + Eval!Most(Costs) /\ (job.at # "idle" => spent <= Cap)
    BY <1>3 DEF CapInv, JobInv
  <2>2. spent' = spent \/ spent' = 0 \/ (job.at # "idle" /\ \E cost \in Costs : spent' = spent + cost)
    BY <1>3 DEF Eval!Next, Eval!Start, Eval!Pin, Eval!Read, Eval!ReadFails, Eval!WaitForRoom, Eval!Throttled, Eval!BacksOff, Eval!Refused, Eval!Lost, Eval!JudgeControl, Eval!ListTools, Eval!Answer,
       Eval!CallTool, Eval!Judge, Eval!Grade, Eval!Write, Eval!Publish, Eval!Report, Eval!PodDies, Eval!HeadMoves, Eval!Paid, Eval!Money, Eval!runVars
  <2> QED
    BY <1>1, <1>2, <2>1, <2>2
<1>4. Eval!Init => spent <= Cap + Eval!Most(Costs)
  BY <1>2 DEF Eval!Init
<1> QED
  BY <1>3, <1>4

\* A job spends no more than its cap and one dearest call on top of it.
THEOREM SpendStaysCapped ==
  ASSUME Eval!EvalAssumption
  PROVE  Eval!Spec => []SpendCapped
<1>1. JobInv /\ spent <= Cap + Eval!Most(Costs) => SpendCapped
  BY DEF SpendCapped, Eval!SpendCapped, JobInv, Eval!EvalAssumption
<1> QED
  BY <1>1, InitHolds, StepHolds, CapHolds, PTL DEF Eval!Spec, CapInv

-----------------------------------------------------------------------------
(* The merge check. *)

\* The check counts as the lemmas about finite sets do.
LEMMA MergeCounts == \A S : Merge!Cardinality(S) = Cardinality(S) /\ (Merge!IsFiniteSet(S) <=> IsFiniteSet(S))
BY DEF Merge!Cardinality, Cardinality, Merge!IsFiniteSet, IsFiniteSet

MergeInv ==
  /\ Merge!TypeOK /\ behind <= landed
  /\ behind = 0 => base = ancestor

LEMMA PathsIn == ASSUME Merge!MergeAssumption PROVE TestPaths \subseteq Paths /\ GatePaths \subseteq Paths /\ ProtectedPaths \subseteq Paths
BY DEF Merge!MergeAssumption

LEMMA MergedTree == ASSUME Merge!TypeOK PROVE Merge!Merged \in Merge!Trees
BY DEF Merge!TypeOK, Merge!Trees, Merge!Merged

LEMMA MergeInit == ASSUME Merge!MergeAssumption PROVE Merge!Init => MergeInv
BY DEF Merge!MergeAssumption, Merge!Init, MergeInv, Merge!TypeOK

LEMMA MergeStep ==
  ASSUME Merge!MergeAssumption, MergeInv, [Merge!Next]_Merge!mergeVars
  PROVE  MergeInv'
<1>0. /\ base \in Merge!Trees /\ ancestor \in Merge!Trees /\ head \in Merge!Trees
      /\ behind \in 0..MaxLanded /\ written \in 0..MaxCommits /\ landed \in 0..MaxLanded /\ behind <= landed
      /\ MaxCommits \in Nat /\ MaxLanded \in Nat
  BY DEF Merge!MergeAssumption, MergeInv, Merge!TypeOK
<1>1. ASSUME NEW tree \in Merge!Trees, NEW kind, Merge!Commits(tree, kind) PROVE MergeInv'
  BY <1>0, <1>1 DEF Merge!Commits, MergeInv, Merge!TypeOK
<1>2. CASE Merge!Write
  <2>1. PICK p \in Paths, f \in Contents \cup {Merge!Absent}, kind \in CommitKinds : Merge!Commits([head EXCEPT ![p] = f], kind)
    BY <1>2 DEF Merge!Write
  <2>2. [head EXCEPT ![p] = f] \in Merge!Trees
    BY <1>0 DEF Merge!Trees
  <2> QED
    BY <1>1, <2>1, <2>2
<1>3. CASE Merge!Move
  <2>1. PICK p \in Paths, q \in Paths, f \in Contents, kind \in CommitKinds : Merge!Commits([head EXCEPT ![p] = Merge!Absent, ![q] = f], kind)
    BY <1>3 DEF Merge!Move
  <2>2. [head EXCEPT ![p] = Merge!Absent, ![q] = f] \in Merge!Trees
    BY <1>0 DEF Merge!Trees
  <2> QED
    BY <1>1, <2>1, <2>2
<1>4. CASE Merge!Land
  <2>1. base' \in Merge!Trees
    BY <1>0, <1>4 DEF Merge!Land, Merge!Trees
  <2> QED
    BY <1>0, <1>4, <2>1 DEF Merge!Land, MergeInv, Merge!TypeOK
<1>5. CASE Merge!Update
  BY <1>0, <1>5, MergedTree DEF Merge!Update, MergeInv, Merge!TypeOK
<1>6. CASE UNCHANGED Merge!mergeVars
  BY <1>6 DEF Merge!mergeVars, MergeInv, Merge!TypeOK
<1> QED
  BY <1>2, <1>3, <1>4, <1>5, <1>6 DEF Merge!Next

-----------------------------------------------------------------------------
(* What the list of changes says. *)

LEMMA RenameTypes ==
  ASSUME NEW r \in Merge!Renames
  PROVE  DOMAIN r \subseteq Merge!Gone /\ \A p \in DOMAIN r : r[p] \in Merge!Added
BY DEF Merge!Renames

\* Every path that differs is among the changes: under its old name, its new one, or both.
LEMMA ChangesAll ==
  ASSUME NEW r \in Merge!Renames, NEW p \in Paths, head[p] # ancestor[p]
  PROVE  /\ p \in Merge!Touched(Merge!Changes(r))
         /\ p \in Merge!Gone => \/ p \notin DOMAIN r /\ Merge!Change("D", p, p) \in Merge!Changes(r)
                                \/ p \in DOMAIN r /\ r[p] \in Merge!Added /\ Merge!Change("R", p, r[p]) \in Merge!Changes(r)
         /\ p \in Merge!Added => \/ Merge!Change("A", p, p) \in Merge!Changes(r)
                                 \/ \E q \in DOMAIN r : r[q] = p /\ q \in Merge!Gone /\ Merge!Change("R", q, p) \in Merge!Changes(r)
         /\ p \notin Merge!Gone \cup Merge!Added => Merge!Change(IF ancestor[p].kind = head[p].kind THEN "M" ELSE "T", p, p) \in Merge!Changes(r)
<1>1. p \in Merge!Gone => \/ p \notin DOMAIN r /\ Merge!Change("D", p, p) \in Merge!Changes(r)
                          \/ p \in DOMAIN r /\ r[p] \in Merge!Added /\ Merge!Change("R", p, r[p]) \in Merge!Changes(r)
  BY RenameTypes DEF Merge!Changes
<1>2. p \in Merge!Added => \/ Merge!Change("A", p, p) \in Merge!Changes(r)
                           \/ \E q \in DOMAIN r : r[q] = p /\ q \in Merge!Gone /\ Merge!Change("R", q, p) \in Merge!Changes(r)
  BY RenameTypes DEF Merge!Changes, Merge!Range
<1>3. p \notin Merge!Gone \cup Merge!Added => Merge!Change(IF ancestor[p].kind = head[p].kind THEN "M" ELSE "T", p, p) \in Merge!Changes(r)
  BY DEF Merge!Changes
<1>4. \A s, x, y : Merge!Change(s, x, y).old = x /\ Merge!Change(s, x, y).path = y
  BY DEF Merge!Change
<1>5. p \in Merge!Touched(Merge!Changes(r))
  BY <1>1, <1>2, <1>3, <1>4 DEF Merge!Touched
<1> QED
  BY <1>1, <1>2, <1>3, <1>5

\* And a change names what it is of.
LEMMA ChangeOf ==
  ASSUME NEW r \in Merge!Renames, NEW c \in Merge!Changes(r)
  PROVE  \/ c.status = "D" /\ c.old \in Merge!Gone /\ c.path = c.old
         \/ c.status = "A" /\ c.old \in Merge!Added /\ c.path = c.old
         \/ c.status = "R" /\ c.old \in Merge!Gone /\ c.path \in Merge!Added
         \/ c.status \in {"M", "T"} /\ c.old \in Paths \ (Merge!Gone \cup Merge!Added) /\ c.path = c.old
BY RenameTypes DEF Merge!Changes, Merge!Change

\* What is new in a tree is among the additions.
LEMMA NewIsAdded ==
  ASSUME Merge!TypeOK, NEW r \in Merge!Renames, NEW p \in Paths, NEW line \in head[p].lines,
         line \notin UNION {ancestor[q].lines : q \in Paths}
  PROVE  line \in Merge!Additions(Merge!Changes(r), p)
<1>1. head[p] # ancestor[p]
  OBVIOUS
<1>2. head[p] # Merge!Absent
  BY DEF Merge!Absent
<1>3. p \notin Merge!Gone
  BY <1>2 DEF Merge!Gone
<1>4. Merge!Gone \subseteq Paths
  BY DEF Merge!Gone
<1>5. ASSUME NEW c \in Merge!Changes(r), c.path = p, c.status # "D", c.status \in {"A", "T"} \/ c.old \in Paths
      PROVE  line \in Merge!Additions(Merge!Changes(r), p)
  BY <1>5 DEF Merge!Additions
<1>6. \A s, x, y : Merge!Change(s, x, y).old = x /\ Merge!Change(s, x, y).path = y /\ Merge!Change(s, x, y).status = s
  BY DEF Merge!Change
<1>7. CASE p \in Merge!Added
  BY <1>1, <1>4, <1>5, <1>6, <1>7, ChangesAll
<1>8. CASE p \notin Merge!Added
  BY <1>1, <1>3, <1>5, <1>6, <1>8, ChangesAll
<1> QED
  BY <1>7, <1>8

-----------------------------------------------------------------------------
(* What a check that blocks nothing has found. *)

LEMMA NoRowFails ==
  ASSUME NEW r \in Merge!Renames, NEW o \in Options, Merge!Mergeable(o, r)
  PROVE  /\ Merge!DeletedTests(Merge!Changes(r)) = {} \/ Merge!TestEdit(o) # "FAIL"
         /\ Merge!EditedTests(Merge!Changes(r)) = {} \/ Merge!TestEdit(o) # "FAIL"
         /\ Merge!Thinned(Merge!Changes(r)) = {} \/ Merge!TestEdit(o) # "FAIL"
         /\ Merge!GateConfig(Merge!Changes(r)) = {} \/ Merge!Strict(o) # "FAIL"
         /\ ~Merge!Weakened(Merge!Changes(r)) \/ Merge!Strict(o) # "FAIL"
         /\ ~Merge!Marked(Merge!Changes(r))
         /\ Merge!ProtectedRow(o, Merge!Changes(r)) # "FAIL" /\ Merge!CurrentRow(o) # "FAIL" /\ Merge!FixupRow(o) # "FAIL" /\ Merge!MergesRow(o) # "FAIL"
<1>1. \A x \in DOMAIN Merge!Rows(o, r) : Merge!Rows(o, r)[x] # "FAIL"
  BY DEF Merge!Mergeable, Merge!Range
<1>2. /\ {"deleted", "edited", "thinned", "config", "weakened", "markers", "protected", "current", "fixups", "merges"} \subseteq DOMAIN Merge!Rows(o, r)
      /\ Merge!Rows(o, r).deleted = Merge!Unless(Merge!DeletedTests(Merge!Changes(r)) # {}, Merge!TestEdit(o))
      /\ Merge!Rows(o, r).edited = Merge!Unless(Merge!EditedTests(Merge!Changes(r)) # {}, Merge!TestEdit(o))
      /\ Merge!Rows(o, r).thinned = Merge!Unless(Merge!Thinned(Merge!Changes(r)) # {}, Merge!TestEdit(o))
      /\ Merge!Rows(o, r).config = Merge!Unless(Merge!GateConfig(Merge!Changes(r)) # {}, Merge!Strict(o))
      /\ Merge!Rows(o, r).weakened = Merge!Unless(Merge!Weakened(Merge!Changes(r)), Merge!Strict(o))
      /\ Merge!Rows(o, r).markers = Merge!Unless(Merge!Marked(Merge!Changes(r)), "FAIL")
      /\ Merge!Rows(o, r).protected = Merge!ProtectedRow(o, Merge!Changes(r))
      /\ Merge!Rows(o, r).current = Merge!CurrentRow(o) /\ Merge!Rows(o, r).fixups = Merge!FixupRow(o) /\ Merge!Rows(o, r).merges = Merge!MergesRow(o)
  BY DEF Merge!Rows
<1> QED
  BY <1>1, <1>2 DEF Merge!Unless

LEMMA UntouchedStays ==
  ASSUME NEW r \in Merge!Renames, NEW S \in SUBSET Paths, Merge!Touched(Merge!Changes(r)) \cap S = {}
  PROVE  \A p \in S : Merge!Merged[p] = base[p]
BY ChangesAll DEF Merge!Merged

LEMMA TestsAreKept ==
  ASSUME Merge!MergeAssumption, Merge!TypeOK, NEW r \in Merge!Renames, NEW o \in Options, Merge!Mergeable(o, r),
         Merge!Author(o) = "agent", ~o.allowTestEdits
  PROVE  Merge!TestsKept(o)
<1> DEFINE changes == Merge!Changes(r)
<1>1. Merge!DeletedTests(changes) = {} /\ Merge!EditedTests(changes) = {} /\ Merge!Thinned(changes) = {}
  BY NoRowFails DEF Merge!TestEdit, Merge!Strict
<1>2. \A s, x, y : /\ Merge!Change(s, x, y).old = x /\ Merge!Change(s, x, y).path = y /\ Merge!Change(s, x, y).status = s
                   /\ Merge!Change(s, x, y).same = (ancestor[x] = head[y])
  BY DEF Merge!Change
<1>3. SUFFICES ASSUME NEW p \in TestPaths, base[p] = ancestor[p], base[p] # Merge!Absent, head[p] # ancestor[p]
               PROVE  \/ \E q \in TestPaths : Merge!Merged[q] = base[p]
                      \/ /\ Merge!Merged[p].kind # base[p].kind /\ Merge!Merged[p] # Merge!Absent
                         /\ Cardinality(base[p].lines \cap Asserting) <= Cardinality(Merge!Merged[p].lines \cap Asserting)
  BY PathsIn, MergeCounts DEF Merge!TestsKept, Merge!Merged
<1>4. p \in Paths /\ Merge!Merged[p] = head[p] /\ p \notin Merge!Added
  BY <1>3, PathsIn DEF Merge!Merged, Merge!Added
<1>5. CASE p \in Merge!Gone
  <2>1. p \in DOMAIN r /\ r[p] \in Merge!Added /\ Merge!Change("R", p, r[p]) \in changes
    <3>1. Merge!Change("D", p, p) \notin changes
      BY <1>1, <1>2 DEF Merge!DeletedTests
    <3> QED
      BY <1>3, <1>4, <1>5, <3>1, ChangesAll
  <2>2. r[p] \in TestPaths
    BY <1>1, <1>2, <2>1 DEF Merge!DeletedTests
  <2>3. ancestor[p] = head[r[p]]
    <3> SUFFICES ASSUME ancestor[p] # head[r[p]] PROVE FALSE
      OBVIOUS
    <3>1. PICK c \in changes : c = Merge!Change("R", p, r[p])
      BY <2>1
    <3>2. c.old = p /\ c.path = r[p] /\ c.status = "R" /\ ~c.same
      BY <3>1 DEF Merge!Change
    <3> QED
      BY <1>1, <2>2, <3>2 DEF Merge!EditedTests
  <2>4. Merge!Merged[r[p]] = head[r[p]]
    BY <2>1 DEF Merge!Added, Merge!Merged
  <2> QED
    BY <1>3, <2>2, <2>3, <2>4
<1>6. CASE p \notin Merge!Gone
  <2>1. Merge!Change(IF ancestor[p].kind = head[p].kind THEN "M" ELSE "T", p, p) \in changes
    BY <1>3, <1>4, <1>6, ChangesAll
  <2>2. ancestor[p].kind # head[p].kind
    <3> SUFFICES ASSUME ancestor[p].kind = head[p].kind PROVE FALSE
      OBVIOUS
    <3>1. PICK c \in changes : c = Merge!Change("M", p, p)
      BY <2>1
    <3>2. c.old = p /\ c.path = p /\ c.status = "M"
      BY <1>2, <3>1
    <3> QED
      BY <1>1, <3>2 DEF Merge!EditedTests
  <2>3. Merge!Change("T", p, p) \in changes
    BY <2>1, <2>2
  <2>4. \A c \in changes : c.old = p \/ c.path = p => c.status \in {"M", "T"} /\ c.old = p /\ c.path = p
    BY <1>4, <1>6, ChangeOf
  <2>5. \A c \in changes : c.old = p => c.status = "T"
    <3> SUFFICES ASSUME NEW c \in changes, c.old = p, c.status = "M" PROVE FALSE
      BY <2>4
    <3>1. c.path = p
      BY <2>4
    <3> QED
      BY <1>1, <3>1 DEF Merge!EditedTests
  <2>6. Merge!Removed(changes, p) = ancestor[p].lines
    BY <1>2, <2>3, <2>4, <2>5 DEF Merge!Removed
  <2>7. Merge!Additions(changes, p) = head[p].lines
    BY <1>2, <2>3, <2>4, <2>5 DEF Merge!Additions
  <2>8. ancestor[p] \in Contents /\ head[p] \in Contents
    BY <1>3, <1>4, <1>6 DEF Merge!TypeOK, Merge!Trees, Merge!Gone
  <2>9. Cardinality(ancestor[p].lines \cap Asserting) <= Cardinality(head[p].lines \cap Asserting)
    <3>1. ~(Cardinality(ancestor[p].lines \cap Asserting) > Cardinality(head[p].lines \cap Asserting))
      BY <1>1, <1>3, <2>6, <2>7, MergeCounts DEF Merge!Thinned
    <3>2. IsFiniteSet(ancestor[p].lines \cap Asserting) /\ IsFiniteSet(head[p].lines \cap Asserting)
      BY <2>8, FS_Subset, MergeCounts DEF Merge!MergeAssumption
    <3> QED
      BY <3>1, <3>2, FS_CardinalityType
  <2>10. head[p] # Merge!Absent
    BY <1>3, <1>4, <1>6 DEF Merge!Gone
  <2> QED
    BY <1>3, <1>4, <2>2, <2>9, <2>10
<1> QED
  BY <1>5, <1>6

LEMMA GatesAreHeld ==
  ASSUME Merge!MergeAssumption, MergeInv
  PROVE  Merge!GatesHold
<1> SUFFICES ASSUME NEW r \in Merge!Renames, NEW o \in Options, Merge!Mergeable(o, r)
             PROVE  /\ Merge!Author(o) = "agent" /\ ~o.allowTestEdits /\ ~o.oldGit => Merge!TestsKept(o)
                    /\ Merge!Author(o) = "agent" /\ ~o.oldGit => Merge!JudgesKept
                    /\ o.protected /\ ~o.oldGit => \A p \in ProtectedPaths : Merge!Merged[p] = base[p]
                    /\ o.requireUpToDate => Merge!Merged = head
                    /\ \A p \in Paths : Merge!Merged[p].lines \cap Markers \subseteq ancestor[p].lines \cup base[p].lines \cup
                                                 UNION {ancestor[q].lines : q \in Paths}
                    /\ o.style # "squash" => \A c \in commits : c.subject # "fixup" \/ c.merge
  BY DEF Merge!GatesHold
<1>0. Merge!TypeOK
  BY DEF MergeInv
<1>1. Merge!Author(o) = "agent" /\ ~o.allowTestEdits => Merge!TestsKept(o)
  BY <1>0, TestsAreKept
<1>2. Merge!Author(o) = "agent" => Merge!JudgesKept
  <2> SUFFICES ASSUME Merge!Author(o) = "agent" PROVE Merge!JudgesKept
    OBVIOUS
  <2>1. Merge!GateConfig(Merge!Changes(r)) = {} /\ ~Merge!Weakened(Merge!Changes(r))
    BY NoRowFails DEF Merge!Strict
  <2>2. \A p \in GatePaths : Merge!Merged[p] = base[p]
    BY <2>1, UntouchedStays, PathsIn DEF Merge!GateConfig
  <2>3. \A p \in Paths : Merge!Additions(Merge!Changes(r), p) \cap Weakening = {}
    BY <2>1 DEF Merge!Weakened
  <2> QED
    BY <1>0, <2>2, <2>3, NewIsAdded DEF Merge!JudgesKept
<1>3. o.protected => \A p \in ProtectedPaths : Merge!Merged[p] = base[p]
  <2> SUFFICES ASSUME o.protected PROVE \A p \in ProtectedPaths : Merge!Merged[p] = base[p]
    OBVIOUS
  <2>1. Merge!Touched(Merge!Changes(r)) \cap ProtectedPaths = {}
    BY NoRowFails DEF Merge!ProtectedRow, Merge!Unless
  <2> QED
    BY <2>1, UntouchedStays, PathsIn
<1>4. o.requireUpToDate => Merge!Merged = head
  <2> SUFFICES ASSUME o.requireUpToDate PROVE Merge!Merged = head
    OBVIOUS
  <2>1. behind = 0
    <3>1. Merge!CurrentRow(o) # "FAIL"
      BY NoRowFails
    <3> QED
      BY <1>0, <3>1 DEF Merge!CurrentRow, Merge!Unless, Merge!TypeOK, Merge!MergeAssumption
  <2>2. base = ancestor
    BY <2>1 DEF MergeInv
  <2> QED
    BY <1>0, <2>2 DEF Merge!TypeOK, Merge!Trees, Merge!Merged
<1>5. ASSUME NEW p \in Paths
      PROVE  Merge!Merged[p].lines \cap Markers \subseteq ancestor[p].lines \cup base[p].lines \cup UNION {ancestor[q].lines : q \in Paths}
  <2>1. Merge!Additions(Merge!Changes(r), p) \cap Markers = {}
    BY NoRowFails DEF Merge!Marked
  <2>2. Merge!Merged[p] = base[p] \/ Merge!Merged[p] = head[p]
    BY DEF Merge!Merged
  <2> QED
    BY <1>0, <2>1, <2>2, NewIsAdded
<1>6. o.style # "squash" => \A c \in commits : c.subject # "fixup" \/ c.merge
  BY NoRowFails DEF Merge!FixupRow, Merge!Unless, Merge!Own
<1> QED
  BY <1>1, <1>2, <1>3, <1>4, <1>5, <1>6

\* Whatever the check lets through keeps the tests, the gates and the files of a ticket.
THEOREM GatesAlwaysHold ==
  ASSUME Merge!MergeAssumption
  PROVE  Merge!Spec => []GatesHold
BY MergeInit, MergeStep, GatesAreHeld, PTL DEF Merge!Spec, GatesHold
=============================================================================
