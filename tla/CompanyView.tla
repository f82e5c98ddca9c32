----------------------------- MODULE CompanyView -----------------------------
(***************************************************************************)
(* The company view (src/kubernetes/apps/ai/omnigraph/company-view/app):   *)
(* every hour a pod copies into the company graph what the brain graph     *)
(* holds of the repositories tiered internal: the repositories, their      *)
(* decision records, and the topics that nothing but internal repositories *)
(* is about (the taint rule).                                              *)
(*                                                                         *)
(* The brain is read with one query after another while the importers and  *)
(* the distiller write to it; nobody else writes to the company graph.     *)
(* Contents and vectors of rows are left out: a row is there or is not.    *)
(***************************************************************************)
EXTENDS Naturals, FiniteSets, Sequences

CONSTANTS
  Repos, Projects, Artifacts, Records, VaultNotes, Topics,
  HomeOf,       \* the repository of a project, artifact or record
  Nobody,
  FirstTiers,   \* the tiers at the start
  FirstAbout,   \* the links from nodes to topics at the start
  MaxChanges,   \* bound: commits to the brain and changes of tiers
  MaxFaults     \* bound: pods that die

Sources == Projects \cup Artifacts \cup Records \cup VaultNotes
Notes   == Records \cup VaultNotes

SourceAssumption ==
  /\ HomeOf \in [Projects \cup Artifacts \cup Records -> Repos]
  /\ LET kinds == <<Repos, Projects, Artifacts, Records, VaultNotes>>
     IN  \A i, j \in 1..5 : i # j => kinds[i] \cap kinds[j] = {}
  /\ FirstTiers \subseteq [Repos -> {"internal", "personal", Nobody}]
  /\ FirstAbout \subseteq SUBSET (Sources \X Topics)
  /\ MaxChanges \in Nat /\ MaxFaults \in Nat

VARIABLES
  tiers,      \* the tier of a repository, Nobody when it has none
  there,      \* the brain's nodes
  about,      \* the brain's links from nodes to topics
  company,    \* the company graph
  phase,      \* idle, the query that comes next, apply
  read,       \* the answers of the queries so far
  plan,       \* what is still to be applied
  steady,     \* nothing changed since the last run started, and that run did not fail
  moments,    \* what the brain has held since the run started, while it reads and plans
  changes, faults

vars == <<tiers, there, about, company, phase, read, plan, steady, moments, changes, faults>>

Tiers == {"internal", "personal", Nobody}

\* BRAIN_QUERIES, in the order of the dictionary; record_urls only reads what a row says.
Queries == <<"projects", "artifact_projects", "records", "topics",
             "note_topics", "artifact_topics", "project_topics">>

NextQuery(q) ==
  LET i == CHOOSE i \in DOMAIN Queries : Queries[i] = q
  IN  IF i = Len(Queries) THEN "plan" ELSE Queries[i + 1]

Companies == [repos : SUBSET Repos, topics : SUBSET Topics, records : SUBSET Records,
              of : SUBSET Records, about : SUBSET ((Repos \cup Records) \X Topics)]
Nothing == [repos |-> {}, topics |-> {}, records |-> {}, of |-> {}, about |-> {}]

NothingRead == [tiers |-> [r \in Repos |-> Nobody], projects |-> {}, artifacts |-> {},
                records |-> {}, topics |-> {}, links |-> {}]

NoPlan == [unlink |-> {}, drop |-> Nothing, load |-> Nothing]

Init ==
  /\ tiers \in FirstTiers /\ there = Sources \cup Topics
  /\ about \in FirstAbout
  /\ company = Nothing /\ phase = "idle" /\ read = NothingRead /\ plan = NoPlan
  /\ steady = FALSE /\ moments = {} /\ changes = 0 /\ faults = 0

-----------------------------------------------------------------------------
(* Reading. *)

\* What the brain holds now, as one snapshot would show it.
Now == [tiers |-> tiers, projects |-> there \cap Projects, artifacts |-> there \cap Artifacts,
        records |-> there \cap Records, topics |-> there \cap Topics, links |-> about]

\* plan_command: the tiers come from a mounted file.  (Tiers it refuses end the run,
\* which is Fail.)
Start ==
  /\ phase = "idle"
  /\ phase' = Queries[1] /\ read' = [NothingRead EXCEPT !.tiers = tiers]
  /\ steady' = TRUE /\ moments' = {Now}
  /\ UNCHANGED <<tiers, there, about, company, plan, changes, faults>>

LinksOf(S) == {l \in about : l[1] \in S}

\* read_brain: one query at a time.
Query ==
  /\ phase \in {Queries[i] : i \in DOMAIN Queries}
  /\ read' = CASE phase = "projects"          -> [read EXCEPT !.projects = there \cap Projects]
               [] phase = "artifact_projects" -> [read EXCEPT !.artifacts = there \cap Artifacts]
               [] phase = "records"           -> [read EXCEPT !.records = there \cap Records]
               [] phase = "topics"            -> [read EXCEPT !.topics = there \cap Topics]
               [] phase = "note_topics"       -> [read EXCEPT !.links = @ \cup LinksOf(Notes)]
               [] phase = "artifact_topics"   -> [read EXCEPT !.links = @ \cup LinksOf(Artifacts)]
               [] phase = "project_topics"    -> [read EXCEPT !.links = @ \cup LinksOf(Projects)]
  /\ phase' = NextQuery(phase)
  /\ UNCHANGED <<tiers, there, about, company, plan, steady, moments, changes, faults>>

-----------------------------------------------------------------------------
(* build_view. *)

\* project_tiers: the repositories of the projects that the brain showed.
Shown(b) == {HomeOf[p] : p \in b.projects}

\* internal_projects
Internal(b) ==
  {r \in Shown(b) : b.tiers[r] = "internal" /\ \E a \in b.artifacts : HomeOf[a] = r}

\* Mutant: a document of a repository without a tier counts as internal.
InternalUnlessPersonal(b, s) ==
  /\ s \in b.projects \cup b.artifacts \cup b.records
  /\ HomeOf[s] \in Shown(b) /\ b.tiers[HomeOf[s]] # "personal"

\* source_tier: what is neither project, artifact nor record is personal.
InternalSource(b, s) ==
  /\ s \in b.projects \cup b.artifacts \cup b.records
  /\ HomeOf[s] \in Shown(b) /\ b.tiers[HomeOf[s]] = "internal"

Qualifying(b) ==
  {t \in b.topics : LET about_t == {s \in Sources : <<s, t>> \in b.links}
                    IN  about_t # {} /\ \A s \in about_t : InternalSource(b, s)}

ViewLinks(b) ==
  {l \in Records \X Qualifying(b) :
     l \in b.links /\ l[1] \in b.records /\ HomeOf[l[1]] \in Internal(b)}
    \cup {l \in Internal(b) \X Qualifying(b) :
            \E s \in b.projects \cup b.artifacts : HomeOf[s] = l[1] /\ <<s, l[2]>> \in b.links}

View(b) ==
  LET shown == {k \in b.records : HomeOf[k] \in Internal(b)}
  IN  [repos |-> Internal(b), topics |-> {l[2] : l \in ViewLinks(b)}, records |-> shown,
       of |-> shown, about |-> ViewLinks(b)]

-----------------------------------------------------------------------------
(* plan_writes. *)

\* The sources whose links to topics differ.
Relinked(v) ==
  {s \in Repos \cup Records : {l \in company.about : l[1] = s} # {l \in v.about : l[1] = s}}

\* delete ... where from: such a source loses all its links first.
Unlinked(v) == {l \in company.about : l[1] \in Relinked(v)}

\* ... and gets them all, those that stay as well.
Loaded(v) == {l \in v.about : l[1] \in Relinked(v)}

PlanOf(v) ==
  [unlink |-> Unlinked(v),
   drop |-> [repos |-> company.repos \ v.repos, topics |-> company.topics \ v.topics,
             records |-> company.records \ v.records, of |-> company.of \ v.of, about |-> {}],
   load |-> [repos |-> v.repos \ company.repos, topics |-> v.topics \ company.topics,
             records |-> v.records \ company.records, of |-> v.of \ company.of,
             about |-> Loaded(v)]]

\* A brain without projects is refused; the company graph is read last.
MakePlan ==
  /\ phase = "plan" /\ read.projects # {}
  /\ plan' = PlanOf(View(read)) /\ phase' = "unlink"
  /\ UNCHANGED <<tiers, there, about, company, read, steady, moments, changes, faults>>

RefuseNothingVisible ==
  /\ phase = "plan" /\ read.projects = {}
  /\ phase' = "idle" /\ read' = NothingRead /\ steady' = FALSE /\ moments' = {}
  /\ UNCHANGED <<tiers, there, about, company, plan, changes, faults>>

-----------------------------------------------------------------------------
(* apply.sh: the deletes, then the loads, in this order. *)

ApplyUnchanged == <<tiers, there, about, read, steady, changes, faults>>

Unlink ==
  /\ phase = "unlink"
  /\ moments' = {}
  /\ IF plan.unlink = {} /\ plan.drop.of = {} THEN phase' = "drop" /\ UNCHANGED <<company, plan>>
     ELSE /\ \/ \E l \in plan.unlink :
                  /\ company' = [company EXCEPT !.about = @ \ {l}]
                  /\ plan' = [plan EXCEPT !.unlink = @ \ {l}]
             \/ \E k \in plan.drop.of :
                  /\ company' = [company EXCEPT !.of = @ \ {k}]
                  /\ plan' = [plan EXCEPT !.drop.of = @ \ {k}]
          /\ UNCHANGED phase
  /\ UNCHANGED ApplyUnchanged

\* A node goes with its edges.
WithoutNodes(c, r, k, t) ==
  [repos |-> c.repos \ r, topics |-> c.topics \ t, records |-> c.records \ k,
   of |-> {o \in c.of : o \notin k /\ HomeOf[o] \notin r},
   about |-> {l \in c.about : l[1] \notin r \cup k /\ l[2] \notin t}]

DropNodes ==
  /\ phase = "drop"
  /\ LET d == plan.drop
         step(r, k, t) ==
           /\ company' = WithoutNodes(company, r, k, t)
           /\ plan' = [plan EXCEPT !.drop.repos = @ \ r, !.drop.records = @ \ k, !.drop.topics = @ \ t]
     IN  IF d.records # {} THEN step({}, d.records, {}) /\ UNCHANGED phase
         ELSE IF d.repos # {} THEN step(d.repos, {}, {}) /\ UNCHANGED phase
         ELSE IF d.topics # {} THEN step({}, {}, d.topics) /\ UNCHANGED phase
         ELSE phase' = "load" /\ UNCHANGED <<company, plan>>
  /\ UNCHANGED moments /\ UNCHANGED ApplyUnchanged

LoadNodes ==
  /\ phase = "load"
  /\ LET p == plan.load
         load(field) == /\ company' = [company EXCEPT ![field] = @ \cup p[field]]
                        /\ plan' = [plan EXCEPT !.load[field] = {}]
                        /\ UNCHANGED phase
     IN  IF p.repos # {} THEN load("repos")
         ELSE IF p.topics # {} THEN load("topics")
         ELSE IF p.records # {} THEN load("records")
         ELSE phase' = "link" /\ UNCHANGED <<company, plan>>
  /\ UNCHANGED moments /\ UNCHANGED ApplyUnchanged

\* What the server demands of an edge.
Accepted(l)   == l[1] \in company.repos \cup company.records /\ l[2] \in company.topics
AcceptedOf(k) == k \in company.records /\ HomeOf[k] \in company.repos

LoadEdges ==
  /\ phase = "link"
  /\ IF plan.load.about = {} /\ plan.load.of = {}
     THEN phase' = "idle" /\ read' = NothingRead /\ plan' = NoPlan /\ UNCHANGED company
     ELSE /\ \/ \E l \in plan.load.about :
                  /\ Accepted(l)
                  /\ company' = [company EXCEPT !.about = @ \cup {l}]
                  /\ plan' = [plan EXCEPT !.load.about = @ \ {l}]
             \/ \E k \in plan.load.of :
                  /\ AcceptedOf(k)
                  /\ company' = [company EXCEPT !.of = @ \cup {k}]
                  /\ plan' = [plan EXCEPT !.load.of = @ \ {k}]
          /\ UNCHANGED <<phase, read>>
  /\ UNCHANGED <<tiers, there, about, steady, moments, changes, faults>>

Fail ==
  /\ phase # "idle" /\ faults < MaxFaults /\ faults' = faults + 1
  /\ phase' = "idle" /\ read' = NothingRead /\ plan' = NoPlan /\ steady' = FALSE /\ moments' = {}
  /\ UNCHANGED <<tiers, there, about, company, changes>>

-----------------------------------------------------------------------------
(* The others. *)

Moment == moments' = IF moments = {} THEN {} ELSE moments \cup {Now'}

Change == changes < MaxChanges /\ changes' = changes + 1 /\ steady' = FALSE /\ Moment

\* The distiller loads the links of several documents in one commit.
Distilled ==
  /\ about' \in SUBSET {l \in Sources \X Topics : {l[1], l[2]} \subseteq there}
  /\ about' # about
  /\ UNCHANGED <<tiers, there, company, phase, read, plan, faults>>
  /\ Change

\* An importer writes or deletes a document; its links go with it.
Imported ==
  /\ \E s \in Sources :
       /\ there' = IF s \in there THEN there \ {s} ELSE there \cup {s}
       /\ about' = {l \in about : l[1] # s}
  /\ UNCHANGED <<tiers, company, phase, read, plan, faults>>
  /\ Change

Retiered ==
  /\ \E r \in Repos, t \in Tiers : t # tiers[r] /\ tiers' = [tiers EXCEPT ![r] = t]
  /\ UNCHANGED <<there, about, company, phase, read, plan, faults>>
  /\ Change

PodStep == Start \/ Query \/ MakePlan \/ RefuseNothingVisible \/ Unlink \/ DropNodes \/ LoadNodes \/ LoadEdges

Next == PodStep \/ Fail \/ Distilled \/ Imported \/ Retiered

Spec == Init /\ [][Next]_vars

\* The CronJob starts a pod every hour, and a pod that lives goes on.
FairSpec == Spec /\ WF_vars(PodStep)

-----------------------------------------------------------------------------
(* Properties. *)

Phases == {Queries[i] : i \in DOMAIN Queries} \cup {"idle", "plan", "unlink", "drop", "load", "link"}

\* Every variable holds values of its kind.
TypeOK ==
  /\ tiers \in [Repos -> Tiers] /\ there \subseteq Sources \cup Topics
  /\ about \subseteq Sources \X Topics /\ company \in Companies /\ phase \in Phases
  /\ read.tiers \in [Repos -> Tiers] /\ read.projects \subseteq Projects
  /\ read.artifacts \subseteq Artifacts /\ read.records \subseteq Records
  /\ read.topics \subseteq Topics /\ read.links \subseteq Sources \X Topics
  /\ plan.unlink \subseteq (Repos \cup Records) \X Topics
  /\ plan.drop \in Companies /\ plan.load \in Companies
  /\ steady \in BOOLEAN /\ changes \in Nat /\ faults \in Nat

\* A run during which nothing changed, however the one before it ended, leaves the
\* company graph equal to the view of the brain.
CompleteRunMirrors ==
  (phase = "idle" /\ steady) => company = View(Now)

\* No topic is loaded that a document outside the internal tier is about all the
\* time from the start of the run to its plan: no vault note, no personal repository,
\* none without a tier.
TaintedStaysOut ==
  phase = "unlink" =>
    \A s \in Sources, t \in plan.load.topics :
      (moments # {} /\ \A m \in moments : <<s, t>> \in m.links) =>
         s \notin VaultNotes /\ read.tiers[HomeOf[s]] = "internal"

\* What a run of the company view promises.
CompanySound == CompleteRunMirrors /\ TaintedStaysOut

\* The taint rule of the runbook: every topic that is loaded was, at some moment of
\* the run, one that nothing but internal documents were about.
TaintRule ==
  phase = "unlink" =>
    \A t \in plan.load.topics :
      moments # {} => \E m \in moments : t \in View([m EXCEPT !.tiers = read.tiers]).topics

\* The server never refuses an edge, and an edge, which the server does not
\* deduplicate, is never loaded while it is there: not after a pod that died between
\* the deletes and the loads either.
EdgesLoadCleanly ==
  phase = "link" =>
    /\ \A l \in plan.load.about : Accepted(l) /\ l \notin company.about
    /\ \A k \in plan.load.of : AcceptedOf(k) /\ k \notin company.of

\* The company graph is the view; it stays what it was while the brain shows no project.
Settled == there \cap Projects # {} => company = View(Now)

\* Once the brain and the tiers are left alone, the company graph settles on the view.
Converges == <>[]Settled
=============================================================================
