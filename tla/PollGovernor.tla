---------------------------- MODULE PollGovernor ----------------------------
(***************************************************************************)
(* The poll governor of Forgejo's run view                                 *)
(* (src/kubernetes/apps/forgejo/forgejo/app/custom/wg-pipeline-canary.js): *)
(* it stands in for window.fetch and withholds the view's polls while the  *)
(* tab is hidden, those of a finished job for a while, and answers those of *)
(* the artifacts from its cache.                                           *)
(*                                                                         *)
(* The view is external: every second, and after an artifact is deleted,   *)
(* it fetches the job and the artifacts together, unless it is at it; a    *)
(* rejected fetch makes it drop both answers.  Versions of the two are     *)
(* numbered; a finished job is run again, so its odd versions are running. *)
(* Time is counted in ticks of the view.                                   *)
(***************************************************************************)
EXTENDS Naturals, FiniteSets

CONSTANTS
  JobInterval, ArtifactsTTL,    \* 5 s and 15 s in the code
  LastVersion,                  \* bound: versions of the job and of the artifacts
  MaxHides, MaxLosses           \* bounds: the tab is hidden, fetches that fail

VARIABLES
  there,      \* Forgejo's versions
  deleting,   \* the view waits for the deletion of an artifact
  shown,      \* the view's versions
  hidden,
  load,       \* the load in progress: what has been answered, -1 for nothing yet
  flights,    \* artifacts requests whose answer the governor will cache
  finished, jobAge,             \* viewedJobFinished, and the time since lastJobFetchAt
  cached, cacheAge,             \* artifactsBody, and the time since artifactsFetchedAt
  hides, losses

governorVars == <<there, deleting, shown, hidden, load, flights, finished, jobAge, cached, cacheAge, hides, losses>>

Running(job) == job % 2 = 1
NoLoad == [on |-> FALSE, job |-> 0, artifacts |-> 0]

Init ==
  /\ there = [job |-> 1, artifacts |-> 1] /\ deleting = "no" /\ shown = there /\ hidden = FALSE
  /\ load = NoLoad /\ flights = {}
  /\ finished = FALSE /\ jobAge = JobInterval
  /\ cached = 1 /\ cacheAge = 0 /\ hides = 0 /\ losses = 0

Gate == <<finished, jobAge, cached, cacheAge>>
View == <<shown, load>>

-----------------------------------------------------------------------------
(* Forgejo, the user and the clock. *)

JobChanges ==
  /\ there.job < LastVersion /\ there' = [there EXCEPT !.job = @ + 1]
  /\ UNCHANGED <<deleting, View, hidden, flights, Gate, hides, losses>>

\* A job uploads an artifact.
ArtifactsChange ==
  /\ there.artifacts + (IF deleting = "sent" THEN 1 ELSE 0) < LastVersion
  /\ there' = [there EXCEPT !.artifacts = @ + 1]
  /\ UNCHANGED <<deleting, View, hidden, flights, Gate, hides, losses>>

\* The view's deletion of one has been answered; it loads next.
Deleted ==
  /\ deleting = "sent" /\ deleting' = "gone" /\ there' = [there EXCEPT !.artifacts = @ + 1]
  /\ UNCHANGED <<View, hidden, flights, Gate, hides, losses>>

ReopenGate == jobAge' = JobInterval /\ cacheAge' = ArtifactsTTL

Visibility ==
  /\ hidden \/ hides < MaxHides
  /\ hidden' = ~hidden /\ hides' = (IF hidden THEN hides ELSE hides + 1)
  /\ IF hidden THEN ReopenGate ELSE UNCHANGED <<jobAge, cacheAge>>
  /\ UNCHANGED <<there, deleting, View, flights, finished, cached, losses>>

\* A click in the view, that may be one to delete an artifact.
Click ==
  /\ ~hidden /\ deleting = "no" /\ there.artifacts < LastVersion
  /\ ReopenGate /\ deleting' = "sent"
  /\ UNCHANGED <<there, View, hidden, flights, finished, cached, hides, losses>>

Older(age, limit) == IF age < limit THEN age + 1 ELSE age

Tick ==
  /\ jobAge < JobInterval \/ cacheAge < ArtifactsTTL
  /\ jobAge' = Older(jobAge, JobInterval) /\ cacheAge' = Older(cacheAge, ArtifactsTTL)
  /\ UNCHANGED <<there, deleting, View, hidden, flights, finished, cached, hides, losses>>

-----------------------------------------------------------------------------
(* window.fetch, called by the view's loadJob. *)

Throttled == finished /\ jobAge < JobInterval

Cached == cacheAge < ArtifactsTTL

\* Both requests are made; the load is over at once if the job's is rejected.
Load ==
  /\ ~load.on /\ deleting' = (IF deleting = "gone" THEN "no" ELSE deleting)
  /\ IF hidden THEN UNCHANGED <<load, flights, jobAge>>
     ELSE /\ load' = IF Throttled THEN NoLoad
                     ELSE [on |-> TRUE, job |-> 0, artifacts |-> IF Cached THEN cached ELSE 0]
          /\ flights' = IF Cached THEN flights ELSE flights \cup {[version |-> 0, mine |-> ~Throttled]}
          /\ jobAge' = IF Throttled THEN jobAge ELSE 0
  /\ UNCHANGED <<there, shown, hidden, finished, cached, cacheAge, hides, losses>>

\* Forgejo answers the job's request: trackViewedJob sees the answer before the view.
JobAnswered ==
  /\ load.on /\ load.job = 0
  /\ load' = [load EXCEPT !.job = there.job] /\ finished' = ~Running(there.job)
  /\ UNCHANGED <<there, deleting, shown, hidden, flights, jobAge, cached, cacheAge, hides, losses>>

\* And the artifacts': it may be on its way for a while.
ArtifactsRead(f) ==
  /\ f.version = 0
  /\ flights' = (flights \ {f}) \cup {[f EXCEPT !.version = there.artifacts]}
  /\ UNCHANGED <<there, deleting, View, hidden, Gate, hides, losses>>

\* cacheArtifacts.
ArtifactsAnswered(f) ==
  /\ f.version # 0
  /\ flights' = flights \ {f} /\ cached' = f.version /\ cacheAge' = 0
  /\ load' = (IF f.mine /\ load.on /\ load.artifacts = 0 THEN [load EXCEPT !.artifacts = f.version] ELSE load)
  /\ UNCHANGED <<there, deleting, shown, hidden, finished, jobAge, hides, losses>>

\* One of the two fails: the view drops both, and what is in flight is only cached.
LoadFails ==
  /\ load.on /\ losses < MaxLosses /\ losses' = losses + 1
  /\ load' = NoLoad
  /\ \E lose \in {{}, {f \in flights : f.mine}} :
       flights' = {[f EXCEPT !.mine = FALSE] : f \in flights \ lose}
  /\ UNCHANGED <<there, deleting, shown, hidden, Gate, hides>>

Loaded ==
  /\ load.on /\ load.job # 0 /\ load.artifacts # 0
  /\ shown' = [job |-> load.job, artifacts |-> load.artifacts] /\ load' = NoLoad
  /\ UNCHANGED <<there, deleting, hidden, flights, Gate, hides, losses>>

Answer == JobAnswered \/ Loaded \/ \E f \in flights : ArtifactsRead(f) \/ ArtifactsAnswered(f)

Next == JobChanges \/ ArtifactsChange \/ Deleted \/ Visibility \/ Click \/ Tick \/ Load \/ LoadFails \/ Answer

\* The view polls, requests are answered, time passes, a hidden tab is looked at again,
\* and a deletion reaches Forgejo.
FairSpec ==
  /\ Init /\ [][Next]_governorVars
  /\ WF_governorVars(Tick) /\ WF_governorVars(Load) /\ WF_governorVars(Answer)
  /\ WF_governorVars(hidden /\ Visibility) /\ WF_governorVars(Deleted)

-----------------------------------------------------------------------------
(* Properties. *)

Versions == 0..LastVersion

TypeOK ==
  /\ there \in [job : 1..LastVersion, artifacts : 1..LastVersion] /\ shown \in [job : 1..LastVersion, artifacts : 1..LastVersion]
  /\ load \in [on : BOOLEAN, job : Versions, artifacts : Versions]
  /\ flights \subseteq [version : Versions, mine : BOOLEAN]
  /\ jobAge \in 0..JobInterval /\ cacheAge \in 0..ArtifactsTTL /\ cached \in Versions
  /\ deleting \in {"no", "sent", "gone"}

\* Whatever is withheld, replayed, lost or overtaken, the view shows the job and the
\* artifacts that Forgejo has once these rest.
Settled == shown = there

\* "Re-running, or deleting an artifact still refreshes at once": does not hold.  A poll
\* between the click and the end of the deletion caches the list that still has the
\* artifact, and the view's load after the deletion is answered from it.
DeletionShown ==
  [][deleting = "gone" /\ ~load.on /\ load'.on => load'.artifacts \in {0, there.artifacts}]_governorVars
=============================================================================
