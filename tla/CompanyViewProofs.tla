--------------------------- MODULE CompanyViewProofs ---------------------------
(***************************************************************************)
(* Proofs about CompanyView for every set of repositories, documents and   *)
(* topics, every start and every bound.                                    *)
(*                                                                         *)
(*   TypeInv    the types, with the shape of what is read and planned      *)
(*   ApplyInv   while a plan is applied: what remains of it leads to the   *)
(*              view of the answers (PlanInv), no later group is begun     *)
(*              while an earlier one has rows left (OrderInv), and the     *)
(*              edges in the company graph end in its nodes (EndsInv)      *)
(*   MomentInv  a link that was there at every moment since the start is   *)
(*              in the answers once its query has been asked               *)
(*   SteadyInv  while nothing changes the answers are what the brain holds *)
(*                                                                         *)
(* Each is preserved by Next together with those above it that it uses.  A *)
(* run that died may have left any part of its plan undone: ApplyInv is    *)
(* said of the plan of this run, which was made from what that left.       *)
(***************************************************************************)
EXTENDS CompanyView, TLAPS

\* The records the variables hold.
Reads == [tiers : [Repos -> Tiers], projects : SUBSET Projects, artifacts : SUBSET Artifacts,
          records : SUBSET Records, topics : SUBSET Topics, links : SUBSET (Sources \X Topics)]

Plans == [unlink : SUBSET ((Repos \cup Records) \X Topics), drop : Companies, load : Companies]

TypeInv == TypeOK /\ read \in Reads /\ plan \in Plans

Asking   == phase \in {Queries[i] : i \in DOMAIN Queries}
Reading  == Asking \/ phase = "plan"
Applying == phase \in {"unlink", "drop", "load", "link"}

-----------------------------------------------------------------------------
(* The queries and the view of their answers. *)

LEMMA QueriesAre ==
  {Queries[i] : i \in DOMAIN Queries} =
    {"projects", "artifact_projects", "records", "topics", "note_topics", "artifact_topics", "project_topics"}
<1>1. DOMAIN Queries = 1..7
  BY DEF Queries
<1>2. 1..7 = {1, 2, 3, 4, 5, 6, 7}
  OBVIOUS
<1> QED BY <1>1, <1>2 DEF Queries

LEMMA NextIs ==
  /\ NextQuery("projects") = "artifact_projects" /\ NextQuery("artifact_projects") = "records"
  /\ NextQuery("records") = "topics" /\ NextQuery("topics") = "note_topics"
  /\ NextQuery("note_topics") = "artifact_topics" /\ NextQuery("artifact_topics") = "project_topics"
  /\ NextQuery("project_topics") = "plan"
<1>1. DOMAIN Queries = {1, 2, 3, 4, 5, 6, 7} /\ Len(Queries) = 7
  <2>1. 1..7 = {1, 2, 3, 4, 5, 6, 7}
    OBVIOUS
  <2> QED BY <2>1 DEF Queries
<1>2. /\ Queries[1] = "projects" /\ Queries[2] = "artifact_projects" /\ Queries[3] = "records"
      /\ Queries[4] = "topics" /\ Queries[5] = "note_topics" /\ Queries[6] = "artifact_topics"
      /\ Queries[7] = "project_topics"
  BY DEF Queries
<1>3. ASSUME NEW i \in {1, 2, 3, 4, 5, 6, 7}
      PROVE  NextQuery(Queries[i]) = IF i = 7 THEN "plan" ELSE Queries[i + 1]
  <2>1. (CHOOSE j \in DOMAIN Queries : Queries[j] = Queries[i]) = i
    BY <1>1, <1>2
  <2> QED BY <1>1, <2>1 DEF NextQuery
<1> QED BY <1>2, <1>3

\* An answer leaves the phase for the next query, or for the plan after the last one.
LEMMA Asks ==
  ASSUME Query
  PROVE  \/ phase = "projects" /\ phase' = "artifact_projects" /\ read' = [read EXCEPT !.projects = there \cap Projects]
         \/ phase = "artifact_projects" /\ phase' = "records" /\ read' = [read EXCEPT !.artifacts = there \cap Artifacts]
         \/ phase = "records" /\ phase' = "topics" /\ read' = [read EXCEPT !.records = there \cap Records]
         \/ phase = "topics" /\ phase' = "note_topics" /\ read' = [read EXCEPT !.topics = there \cap Topics]
         \/ phase = "note_topics" /\ phase' = "artifact_topics" /\ read' = [read EXCEPT !.links = @ \cup LinksOf(Notes)]
         \/ phase = "artifact_topics" /\ phase' = "project_topics" /\ read' = [read EXCEPT !.links = @ \cup LinksOf(Artifacts)]
         \/ phase = "project_topics" /\ phase' = "plan" /\ read' = [read EXCEPT !.links = @ \cup LinksOf(Projects)]
<1>1. phase \in {"projects", "artifact_projects", "records", "topics", "note_topics", "artifact_topics", "project_topics"}
  BY QueriesAre DEF Query
<1>2. CASE phase = "projects"
  BY <1>2, NextIs DEF Query
<1>3. CASE phase = "artifact_projects"
  BY <1>3, NextIs DEF Query
<1>4. CASE phase = "records"
  BY <1>4, NextIs DEF Query
<1>5. CASE phase = "topics"
  BY <1>5, NextIs DEF Query
<1>6. CASE phase = "note_topics"
  BY <1>6, NextIs DEF Query
<1>7. CASE phase = "artifact_topics"
  BY <1>7, NextIs DEF Query
<1>8. CASE phase = "project_topics"
  BY <1>8, NextIs DEF Query
<1> QED BY <1>1, <1>2, <1>3, <1>4, <1>5, <1>6, <1>7, <1>8

LEMMA KindsApart ==
  ASSUME SourceAssumption
  PROVE  /\ Repos \cap Records = {}
         /\ VaultNotes \cap (Projects \cup Artifacts \cup Records) = {}
         /\ Projects \cap Artifacts = {} /\ Records \cap (Projects \cup Artifacts) = {}
<1> DEFINE kinds == <<Repos, Projects, Artifacts, Records, VaultNotes>>
<1>1. \A i, j \in 1..5 : i # j => kinds[i] \cap kinds[j] = {}
  BY DEF SourceAssumption
<1>2. kinds[1] = Repos /\ kinds[2] = Projects /\ kinds[3] = Artifacts /\ kinds[4] = Records /\ kinds[5] = VaultNotes
  OBVIOUS
<1> HIDE DEF kinds
<1> QED BY <1>1, <1>2

\* The view has the ends of its edges.
LEMMA ViewIs ==
  ASSUME SourceAssumption, NEW b \in Reads
  PROVE  /\ View(b) \in Companies
         /\ View(b).of = View(b).records /\ \A k \in View(b).of : HomeOf[k] \in View(b).repos
         /\ \A l \in View(b).about : l[1] \in View(b).repos \cup View(b).records /\ l[2] \in View(b).topics
<1> DEFINE shown == {k \in b.records : HomeOf[k] \in Internal(b)}
           v == View(b)
<1>1. /\ v.repos = Internal(b) /\ v.topics = {l[2] : l \in ViewLinks(b)} /\ v.records = shown
      /\ v.of = shown /\ v.about = ViewLinks(b)
      /\ v = [repos |-> v.repos, topics |-> v.topics, records |-> v.records, of |-> v.of, about |-> v.about]
  BY DEF View
<1>2. Internal(b) \subseteq Repos
  BY DEF Internal, Shown, Reads, SourceAssumption
<1>3. Qualifying(b) \subseteq Topics
  BY DEF Qualifying, Reads
<1>4. ASSUME NEW l \in ViewLinks(b)
      PROVE  l \in (Repos \cup Records) \X Topics /\ l[1] \in Internal(b) \cup shown
  <2>1. \/ \E s \in Records, t \in Qualifying(b) : l = <<s, t>> /\ s \in b.records /\ HomeOf[s] \in Internal(b)
        \/ \E r \in Internal(b), t \in Qualifying(b) : l = <<r, t>>
    BY <1>4 DEF ViewLinks
  <2> QED BY <1>2, <1>3, <2>1
<1>5. v.topics \subseteq Topics
  BY <1>1, <1>4
<1>6. shown \subseteq Records
  BY DEF Reads
<1>7. v.about \subseteq (Repos \cup Records) \X Topics
  BY <1>1, <1>4
<1>8. v \in Companies
  <2> HIDE DEF v, shown
  <2> QED BY <1>1, <1>2, <1>5, <1>6, <1>7 DEF Companies
<1> QED BY <1>1, <1>4, <1>8

-----------------------------------------------------------------------------
(* Types. *)

LEMMA ApplyUnchangedIs ==
  ASSUME Unlink \/ DropNodes \/ LoadNodes \/ LoadEdges
  PROVE  UNCHANGED <<tiers, there, about, steady, changes, faults>> /\ Applying
BY DEF Unlink, DropNodes, LoadNodes, LoadEdges, ApplyUnchanged, Applying

\* What the steps of apply.sh do, field by field.
LEMMA UnlinkIs ==
  ASSUME TypeInv, Unlink
  PROVE  /\ phase = "unlink" /\ moments' = {} /\ read' = read
         /\ \/ plan.unlink = {} /\ plan.drop.of = {} /\ phase' = "drop" /\ UNCHANGED <<company, plan>>
            \/ \E l \in plan.unlink :
                 /\ phase' = "unlink" /\ company' \in Companies /\ plan' \in Plans
                 /\ company'.about = company.about \ {l} /\ plan'.unlink = plan.unlink \ {l}
                 /\ UNCHANGED <<company.repos, company.topics, company.records, company.of, plan.drop, plan.load>>
            \/ \E k \in plan.drop.of :
                 /\ phase' = "unlink" /\ company' \in Companies /\ plan' \in Plans
                 /\ company'.of = company.of \ {k} /\ plan'.drop.of = plan.drop.of \ {k}
                 /\ UNCHANGED <<company.repos, company.topics, company.records, company.about, plan.unlink,
                                plan.drop.repos, plan.drop.topics, plan.drop.records, plan.load>>
<1>0. company \in Companies /\ plan \in Plans /\ plan.drop \in Companies
  BY DEF TypeInv, TypeOK, Plans
<1>1. phase = "unlink" /\ moments' = {} /\ read' = read
  BY DEF Unlink, ApplyUnchanged
<1>2. CASE plan.unlink = {} /\ plan.drop.of = {}
  BY <1>1, <1>2 DEF Unlink
<1>3. CASE ~(plan.unlink = {} /\ plan.drop.of = {})
  <2>1. phase' = "unlink"
    BY <1>1, <1>3 DEF Unlink
  <2>2. CASE \E l \in plan.unlink : /\ company' = [company EXCEPT !.about = @ \ {l}]
                                    /\ plan' = [plan EXCEPT !.unlink = @ \ {l}]
    <3>1. PICK l \in plan.unlink : /\ company' = [company EXCEPT !.about = @ \ {l}]
                                   /\ plan' = [plan EXCEPT !.unlink = @ \ {l}]
      BY <2>2
    <3>2. company' \in Companies /\ company'.about = company.about \ {l}
          /\ UNCHANGED <<company.repos, company.topics, company.records, company.of>>
      BY ONLY <1>0, <3>1 DEF Companies
    <3>3. plan' \in Plans /\ plan'.unlink = plan.unlink \ {l} /\ UNCHANGED <<plan.drop, plan.load>>
      BY ONLY <1>0, <3>1 DEF Plans
    <3> QED BY <1>1, <2>1, <3>2, <3>3
  <2>3. CASE \E k \in plan.drop.of : /\ company' = [company EXCEPT !.of = @ \ {k}]
                                     /\ plan' = [plan EXCEPT !.drop.of = @ \ {k}]
    <3>1. PICK k \in plan.drop.of : /\ company' = [company EXCEPT !.of = @ \ {k}]
                                    /\ plan' = [plan EXCEPT !.drop.of = @ \ {k}]
      BY <2>3
    <3>2. company' \in Companies /\ company'.of = company.of \ {k}
          /\ UNCHANGED <<company.repos, company.topics, company.records, company.about>>
      BY ONLY <1>0, <3>1 DEF Companies
    <3>3. plan' \in Plans /\ plan'.drop.of = plan.drop.of \ {k}
          /\ UNCHANGED <<plan.unlink, plan.drop.repos, plan.drop.topics, plan.drop.records, plan.load>>
      BY ONLY <1>0, <3>1 DEF Plans, Companies
    <3> QED BY <1>1, <2>1, <3>2, <3>3
  <2> QED BY <1>3, <2>2, <2>3 DEF Unlink
<1> QED BY <1>2, <1>3

LEMMA DropNodesIs ==
  ASSUME TypeInv, DropNodes
  PROVE  /\ phase = "drop" /\ UNCHANGED <<read, moments>>
         /\ \/ /\ plan.drop.records = {} /\ plan.drop.repos = {} /\ plan.drop.topics = {}
               /\ phase' = "load" /\ UNCHANGED <<company, plan>>
            \/ \E r \in SUBSET plan.drop.repos, k \in SUBSET plan.drop.records, t \in SUBSET plan.drop.topics :
                 /\ phase' = "drop" /\ company' = WithoutNodes(company, r, k, t)
                 /\ company' \in Companies /\ plan' \in Plans
                 /\ plan'.drop.repos = plan.drop.repos \ r /\ plan'.drop.records = plan.drop.records \ k
                 /\ plan'.drop.topics = plan.drop.topics \ t
                 /\ UNCHANGED <<plan.unlink, plan.drop.of, plan.load>>
<1>0. company \in Companies /\ plan \in Plans /\ plan.drop \in Companies
  BY DEF TypeInv, TypeOK, Plans
<1>1. phase = "drop" /\ UNCHANGED <<read, moments>>
  BY DEF DropNodes, ApplyUnchanged
<1> DEFINE Step(r, k, t) ==
      /\ company' = WithoutNodes(company, r, k, t)
      /\ plan' = [plan EXCEPT !.drop.repos = @ \ r, !.drop.records = @ \ k, !.drop.topics = @ \ t]
<1>2. CASE plan.drop.records = {} /\ plan.drop.repos = {} /\ plan.drop.topics = {}
  BY <1>1, <1>2 DEF DropNodes
<1>3. CASE ~(plan.drop.records = {} /\ plan.drop.repos = {} /\ plan.drop.topics = {})
  <2>1. phase' = "drop" /\ \/ Step({}, plan.drop.records, {}) \/ Step(plan.drop.repos, {}, {})
                           \/ Step({}, {}, plan.drop.topics)
    BY <1>1, <1>3 DEF DropNodes
  <2>2. PICK r \in SUBSET plan.drop.repos, k \in SUBSET plan.drop.records, t \in SUBSET plan.drop.topics :
          Step(r, k, t)
    <3> HIDE DEF Step
    <3>1. CASE Step({}, plan.drop.records, {})
      BY <3>1
    <3>2. CASE Step(plan.drop.repos, {}, {})
      BY <3>2
    <3>3. CASE Step({}, {}, plan.drop.topics)
      BY <3>3
    <3> QED BY <2>1, <3>1, <3>2, <3>3
  <2>3. company' \in Companies
    BY ONLY <1>0, <2>2 DEF Companies, WithoutNodes
  <2>4. /\ plan' \in Plans
        /\ plan'.drop.repos = plan.drop.repos \ r /\ plan'.drop.records = plan.drop.records \ k
        /\ plan'.drop.topics = plan.drop.topics \ t
        /\ UNCHANGED <<plan.unlink, plan.drop.of, plan.load>>
    BY ONLY <1>0, <2>2 DEF Plans, Companies
  <2>5. company' = WithoutNodes(company, r, k, t)
    BY <2>2
  <2> HIDE DEF Step
  <2> QED BY <1>1, <2>1, <2>3, <2>4, <2>5
<1> QED BY <1>2, <1>3

LEMMA LoadNodesIs ==
  ASSUME TypeInv, LoadNodes
  PROVE  /\ phase = "load" /\ UNCHANGED <<read, moments, plan.unlink, plan.drop>>
         /\ \/ /\ plan.load.repos = {} /\ plan.load.topics = {} /\ plan.load.records = {}
               /\ phase' = "link" /\ UNCHANGED <<company, plan>>
            \/ /\ phase' = "load" /\ company' \in Companies /\ plan' \in Plans
               /\ UNCHANGED <<company.of, company.about, plan.load.of, plan.load.about>>
               /\ \/ /\ company'.repos = company.repos \cup plan.load.repos /\ plan'.load.repos = {}
                     /\ UNCHANGED <<company.topics, company.records, plan.load.topics, plan.load.records>>
                  \/ /\ company'.topics = company.topics \cup plan.load.topics /\ plan'.load.topics = {}
                     /\ UNCHANGED <<company.repos, company.records, plan.load.repos, plan.load.records>>
                  \/ /\ company'.records = company.records \cup plan.load.records /\ plan'.load.records = {}
                     /\ UNCHANGED <<company.repos, company.topics, plan.load.repos, plan.load.topics>>
<1>0. company \in Companies /\ plan \in Plans /\ plan.load \in Companies
  BY DEF TypeInv, TypeOK, Plans
<1>1. phase = "load" /\ UNCHANGED <<read, moments>>
  BY DEF LoadNodes, ApplyUnchanged
<1>2. CASE plan.load.repos = {} /\ plan.load.topics = {} /\ plan.load.records = {}
  BY <1>1, <1>2 DEF LoadNodes
<1>3. CASE ~(plan.load.repos = {} /\ plan.load.topics = {} /\ plan.load.records = {})
  <2>1. phase' = "load"
    BY <1>1, <1>3 DEF LoadNodes
  <2>2. CASE company' = [company EXCEPT !.repos = @ \cup plan.load.repos] /\ plan' = [plan EXCEPT !.load.repos = {}]
    BY ONLY <1>0, <1>1, <2>1, <2>2 DEF Companies, Plans
  <2>3. CASE company' = [company EXCEPT !.topics = @ \cup plan.load.topics] /\ plan' = [plan EXCEPT !.load.topics = {}]
    BY ONLY <1>0, <1>1, <2>1, <2>3 DEF Companies, Plans
  <2>4. CASE company' = [company EXCEPT !.records = @ \cup plan.load.records] /\ plan' = [plan EXCEPT !.load.records = {}]
    BY ONLY <1>0, <1>1, <2>1, <2>4 DEF Companies, Plans
  <2> QED BY <1>1, <1>3, <2>2, <2>3, <2>4 DEF LoadNodes
<1> QED BY <1>2, <1>3

LEMMA LoadEdgesIs ==
  ASSUME TypeInv, LoadEdges
  PROVE  /\ phase = "link" /\ UNCHANGED <<moments>>
         /\ \/ /\ plan.load.about = {} /\ plan.load.of = {} /\ phase' = "idle" /\ read' = NothingRead
               /\ plan' = NoPlan /\ UNCHANGED company
            \/ \E l \in plan.load.about :
                 /\ Accepted(l) /\ phase' = "link" /\ read' = read /\ company' \in Companies /\ plan' \in Plans
                 /\ company'.about = company.about \cup {l} /\ plan'.load.about = plan.load.about \ {l}
                 /\ UNCHANGED <<company.repos, company.topics, company.records, company.of, plan.unlink, plan.drop,
                                plan.load.repos, plan.load.topics, plan.load.records, plan.load.of>>
            \/ \E k \in plan.load.of :
                 /\ AcceptedOf(k) /\ phase' = "link" /\ read' = read /\ company' \in Companies /\ plan' \in Plans
                 /\ company'.of = company.of \cup {k} /\ plan'.load.of = plan.load.of \ {k}
                 /\ UNCHANGED <<company.repos, company.topics, company.records, company.about, plan.unlink, plan.drop,
                                plan.load.repos, plan.load.topics, plan.load.records, plan.load.about>>
<1>0. company \in Companies /\ plan \in Plans /\ plan.load \in Companies
  BY DEF TypeInv, TypeOK, Plans
<1>1. phase = "link" /\ UNCHANGED <<moments>>
  BY DEF LoadEdges
<1>2. CASE plan.load.about = {} /\ plan.load.of = {}
  BY <1>1, <1>2 DEF LoadEdges
<1>3. CASE ~(plan.load.about = {} /\ plan.load.of = {})
  <2>1. phase' = "link" /\ read' = read
    BY <1>1, <1>3 DEF LoadEdges
  <2>2. CASE \E l \in plan.load.about : /\ Accepted(l) /\ company' = [company EXCEPT !.about = @ \cup {l}]
                                        /\ plan' = [plan EXCEPT !.load.about = @ \ {l}]
    <3>1. PICK l \in plan.load.about : /\ Accepted(l) /\ company' = [company EXCEPT !.about = @ \cup {l}]
                                       /\ plan' = [plan EXCEPT !.load.about = @ \ {l}]
      BY <2>2
    <3>2. company' \in Companies /\ company'.about = company.about \cup {l}
          /\ UNCHANGED <<company.repos, company.topics, company.records, company.of>>
      BY ONLY <1>0, <3>1 DEF Companies
    <3>3. plan' \in Plans /\ plan'.load.about = plan.load.about \ {l}
          /\ UNCHANGED <<plan.unlink, plan.drop, plan.load.repos, plan.load.topics, plan.load.records, plan.load.of>>
      BY ONLY <1>0, <3>1 DEF Plans, Companies
    <3> QED BY <1>1, <2>1, <3>1, <3>2, <3>3
  <2>3. CASE \E k \in plan.load.of : /\ AcceptedOf(k) /\ company' = [company EXCEPT !.of = @ \cup {k}]
                                     /\ plan' = [plan EXCEPT !.load.of = @ \ {k}]
    <3>1. PICK k \in plan.load.of : /\ AcceptedOf(k) /\ company' = [company EXCEPT !.of = @ \cup {k}]
                                    /\ plan' = [plan EXCEPT !.load.of = @ \ {k}]
      BY <2>3
    <3>2. company' \in Companies /\ company'.of = company.of \cup {k}
          /\ UNCHANGED <<company.repos, company.topics, company.records, company.about>>
      BY ONLY <1>0, <3>1 DEF Companies
    <3>3. plan' \in Plans /\ plan'.load.of = plan.load.of \ {k}
          /\ UNCHANGED <<plan.unlink, plan.drop, plan.load.repos, plan.load.topics, plan.load.records, plan.load.about>>
      BY ONLY <1>0, <3>1 DEF Plans, Companies
    <3> QED BY <1>1, <2>1, <3>1, <3>2, <3>3
  <2> QED BY <1>3, <2>2, <2>3 DEF LoadEdges
<1> QED BY <1>2, <1>3

LEMMA TypeInit ==
  ASSUME SourceAssumption, Init
  PROVE  TypeInv
<1>1. NothingRead \in Reads /\ NoPlan \in Plans /\ Nothing \in Companies
  BY DEF NothingRead, NoPlan, Nothing, Reads, Plans, Companies, Tiers
<1>2. tiers \in [Repos -> Tiers] /\ about \subseteq Sources \X Topics
  BY DEF Init, SourceAssumption, Tiers
<1>3. /\ read.tiers \in [Repos -> Tiers] /\ read.projects \subseteq Projects
      /\ read.artifacts \subseteq Artifacts /\ read.records \subseteq Records
      /\ read.topics \subseteq Topics /\ read.links \subseteq Sources \X Topics
      /\ plan.unlink \subseteq (Repos \cup Records) \X Topics /\ plan.drop \in Companies /\ plan.load \in Companies
  BY <1>1 DEF Init, Reads, Plans
<1>4. there \subseteq Sources \cup Topics /\ phase \in Phases /\ steady \in BOOLEAN /\ changes \in Nat /\ faults \in Nat
      /\ company \in Companies
  BY <1>1 DEF Init, Phases
<1> QED BY <1>1, <1>2, <1>3, <1>4 DEF TypeInv, TypeOK, Init

\* The plan of a view.
LEMMA PlanIs ==
  ASSUME NEW v \in Companies, company \in Companies
  PROVE  /\ PlanOf(v) \in Plans
         /\ PlanOf(v).unlink = Unlinked(v) /\ PlanOf(v).load.about = Loaded(v)
         /\ PlanOf(v).drop.repos = company.repos \ v.repos /\ PlanOf(v).load.repos = v.repos \ company.repos
         /\ PlanOf(v).drop.topics = company.topics \ v.topics /\ PlanOf(v).load.topics = v.topics \ company.topics
         /\ PlanOf(v).drop.records = company.records \ v.records /\ PlanOf(v).load.records = v.records \ company.records
         /\ PlanOf(v).drop.of = company.of \ v.of /\ PlanOf(v).load.of = v.of \ company.of
<1>1. Unlinked(v) \subseteq (Repos \cup Records) \X Topics /\ Loaded(v) \subseteq (Repos \cup Records) \X Topics
  BY DEF Unlinked, Loaded, Companies
<1>2. PlanOf(v).drop \in Companies /\ PlanOf(v).load \in Companies
  BY <1>1 DEF PlanOf, Companies
<1>3. PlanOf(v) \in Plans
  BY <1>1, <1>2 DEF PlanOf, Plans
<1> QED BY <1>3 DEF PlanOf

LEMMA TypeStep ==
  ASSUME SourceAssumption, TypeInv, [Next]_vars
  PROVE  TypeInv'
<1>0. /\ tiers \in [Repos -> Tiers] /\ there \subseteq Sources \cup Topics /\ about \subseteq Sources \X Topics
      /\ company \in Companies /\ phase \in Phases /\ steady \in BOOLEAN /\ changes \in Nat /\ faults \in Nat
      /\ read \in Reads /\ plan \in Plans
  BY DEF TypeInv, TypeOK
<1>n. NothingRead \in Reads /\ NoPlan \in Plans
  BY DEF NothingRead, NoPlan, Nothing, Reads, Plans, Companies, Tiers
<1>p. Phases = {"projects", "artifact_projects", "records", "topics", "note_topics", "artifact_topics",
                "project_topics", "idle", "plan", "unlink", "drop", "load", "link"}
  BY QueriesAre DEF Phases
<1>a. ASSUME tiers' \in [Repos -> Tiers], there' \subseteq Sources \cup Topics, about' \subseteq Sources \X Topics,
             company' \in Companies, phase' \in Phases, steady' \in BOOLEAN, changes' \in Nat, faults' \in Nat,
             read' \in Reads, plan' \in Plans
      PROVE  TypeInv'
  <2>1. /\ read'.tiers \in [Repos -> Tiers] /\ read'.projects \subseteq Projects
        /\ read'.artifacts \subseteq Artifacts /\ read'.records \subseteq Records
        /\ read'.topics \subseteq Topics /\ read'.links \subseteq Sources \X Topics
        /\ plan'.unlink \subseteq (Repos \cup Records) \X Topics /\ plan'.drop \in Companies /\ plan'.load \in Companies
    BY <1>a DEF Reads, Plans
  <2> QED BY <1>a, <2>1 DEF TypeInv, TypeOK
<1>1. CASE Start
  <2>1. read' \in Reads
    BY <1>0, <1>1, <1>n DEF Start, Reads
  <2>2. phase' = "projects"
    BY <1>1 DEF Start, Queries
  <2> QED BY <1>0, <1>1, <1>a, <1>p, <2>1, <2>2 DEF Start
<1>2. CASE Query
  <2>1. read' \in Reads
    <3>1. LinksOf(Notes) \cup LinksOf(Artifacts) \cup LinksOf(Projects) \subseteq Sources \X Topics
      BY <1>0 DEF LinksOf
    <3> QED BY <1>0, <1>2, <3>1, Asks DEF Reads
  <2>2. phase' \in Phases
    BY <1>2, <1>p, Asks
  <2> QED BY <1>0, <1>2, <1>a, <2>1, <2>2 DEF Query
<1>3. CASE MakePlan
  <2>1. plan' \in Plans
    BY <1>0, <1>3, PlanIs, ViewIs DEF MakePlan
  <2> QED BY <1>0, <1>3, <1>a, <1>p, <2>1 DEF MakePlan
<1>4. CASE RefuseNothingVisible
  BY <1>0, <1>4, <1>a, <1>n, <1>p DEF RefuseNothingVisible
<1>5. CASE Unlink
  BY <1>0, <1>5, <1>a, <1>p, UnlinkIs, ApplyUnchangedIs
<1>6. CASE DropNodes
  BY <1>0, <1>6, <1>a, <1>p, DropNodesIs, ApplyUnchangedIs
<1>7. CASE LoadNodes
  BY <1>0, <1>7, <1>a, <1>p, LoadNodesIs, ApplyUnchangedIs
<1>8. CASE LoadEdges
  BY <1>0, <1>8, <1>a, <1>n, <1>p, LoadEdgesIs, ApplyUnchangedIs
<1>c. changes \in Nat => changes + 1 \in Nat
  OBVIOUS
<1>f. faults \in Nat => faults + 1 \in Nat
  OBVIOUS
<1>g. ASSUME Change PROVE steady' \in BOOLEAN /\ changes' \in Nat
  BY <1>0, <1>c, <1>g DEF Change
<1>9. CASE Fail
  <2>1. faults' \in Nat /\ steady' \in BOOLEAN
    BY <1>0, <1>9, <1>f DEF Fail
  <2>2. phase' \in Phases /\ read' \in Reads /\ plan' \in Plans
    BY <1>9, <1>n, <1>p DEF Fail
  <2>3. UNCHANGED <<tiers, there, about, company, changes>>
    BY <1>9 DEF Fail
  <2> QED BY <1>0, <1>a, <2>1, <2>2, <2>3
<1>10. CASE Distilled
  <2>1. about' \subseteq Sources \X Topics
    BY <1>10 DEF Distilled
  <2>2. Change /\ UNCHANGED <<tiers, there, company, phase, read, plan, faults>>
    BY <1>10 DEF Distilled
  <2> QED BY <1>0, <1>a, <1>g, <2>1, <2>2
<1>11. CASE Imported
  <2>1. about' \subseteq Sources \X Topics /\ there' \subseteq Sources \cup Topics
    BY <1>0, <1>11 DEF Imported
  <2>2. Change /\ UNCHANGED <<tiers, company, phase, read, plan, faults>>
    BY <1>11 DEF Imported
  <2> QED BY <1>0, <1>a, <1>g, <2>1, <2>2
<1>12. CASE Retiered
  <2>1. tiers' \in [Repos -> Tiers]
    BY <1>0, <1>12 DEF Retiered
  <2>2. Change /\ UNCHANGED <<there, about, company, phase, read, plan, faults>>
    BY <1>12 DEF Retiered
  <2> QED BY <1>0, <1>a, <1>g, <2>1, <2>2
<1>13. CASE UNCHANGED vars
  BY <1>0, <1>13, <1>a, <1>p DEF vars
<1> QED BY <1>1, <1>2, <1>3, <1>4, <1>5, <1>6, <1>7, <1>8, <1>9, <1>10, <1>11, <1>12, <1>13 DEF Next, PodStep

\* Every variable holds values of its kind, whatever the brain holds and however it
\* changes while it is read: the view of any answers is a graph the server takes.
THEOREM TypeCorrect ==
  ASSUME SourceAssumption
  PROVE  Spec => []TypeOK
<1>1. Init => TypeInv
  BY TypeInit
<1>2. TypeInv /\ [Next]_vars => TypeInv'
  BY TypeStep
<1>3. TypeInv => TypeOK
  BY DEF TypeInv
<1> QED BY <1>1, <1>2, <1>3, PTL DEF Spec

-----------------------------------------------------------------------------
(* The company graph on its way to the view of the answers. *)

\* An edge ends in nodes.
EndsInv ==
  /\ \A l \in company.about : Accepted(l)
  /\ \A k \in company.of : AcceptedOf(k)

\* What deletes and loads still to come make of the graph c is the view v, and an edge to
\* load is not in the graph once those to delete are gone.
NodesPlan(v, c, p) ==
  /\ p.drop.repos \cap v.repos = {} /\ (c.repos \ p.drop.repos) \cup p.load.repos = v.repos
  /\ p.drop.topics \cap v.topics = {} /\ (c.topics \ p.drop.topics) \cup p.load.topics = v.topics
  /\ p.drop.records \cap v.records = {} /\ (c.records \ p.drop.records) \cup p.load.records = v.records

EdgesPlan(v, c, p) ==
  /\ (c.of \ p.drop.of) \cup p.load.of = v.of /\ p.load.of \cap c.of = {}
  /\ (c.about \ p.unlink) \cup p.load.about = v.about
  /\ p.load.about \cap (c.about \ p.unlink) = {}

\* The files in their order.
OrderInv ==
  /\ phase \in {"drop", "load", "link"} => plan.unlink = {} /\ plan.drop.of = {}
  /\ phase \in {"load", "link"} => plan.drop.records = {} /\ plan.drop.repos = {} /\ plan.drop.topics = {}
  /\ phase = "link" => plan.load.repos = {} /\ plan.load.topics = {} /\ plan.load.records = {}

PlanInv == Applying => NodesPlan(View(read), company, plan) /\ EdgesPlan(View(read), company, plan)

ApplyInv == EndsInv /\ OrderInv /\ PlanInv

\* The steps that leave the company graph alone.
LEMMA CompanyLeft ==
  ASSUME [Next]_vars, ~MakePlan, ~Unlink, ~DropNodes, ~LoadNodes, ~LoadEdges
  PROVE  UNCHANGED company /\ (Applying' => Applying /\ UNCHANGED <<phase, read, plan>>)
<1>1. CASE Start
  BY <1>1 DEF Start, Applying, Queries
<1>2. CASE Query
  BY <1>2, Asks DEF Query, Applying
<1>3. CASE RefuseNothingVisible \/ Fail
  BY <1>3 DEF RefuseNothingVisible, Fail, Applying
<1>4. CASE Distilled \/ Imported \/ Retiered \/ UNCHANGED vars
  BY <1>4 DEF Distilled, Imported, Retiered, vars, Applying
<1> QED BY <1>1, <1>2, <1>3, <1>4 DEF Next, PodStep

\* The plan of a view leads to it.
LEMMA PlanLeads ==
  ASSUME NEW v \in Companies, company \in Companies
  PROVE  NodesPlan(v, company, PlanOf(v)) /\ EdgesPlan(v, company, PlanOf(v))
<1> DEFINE p == PlanOf(v)
<1>0. /\ p.unlink = Unlinked(v) /\ p.load.about = Loaded(v)
      /\ p.drop.repos = company.repos \ v.repos /\ p.load.repos = v.repos \ company.repos
      /\ p.drop.topics = company.topics \ v.topics /\ p.load.topics = v.topics \ company.topics
      /\ p.drop.records = company.records \ v.records /\ p.load.records = v.records \ company.records
      /\ p.drop.of = company.of \ v.of /\ p.load.of = v.of \ company.of
  BY PlanIs
<1> HIDE DEF p
<1>1. NodesPlan(v, company, p)
  BY <1>0 DEF NodesPlan
<1>2. (company.of \ p.drop.of) \cup p.load.of = v.of /\ p.load.of \cap company.of = {}
  BY <1>0
<1>4. \A l \in company.about \cup v.about : l[1] \in Repos \cup Records
  BY DEF Companies
<1>5. ASSUME NEW l PROVE l \in (company.about \ Unlinked(v)) \cup Loaded(v) <=> l \in v.about
  <2>1. CASE l[1] \in Relinked(v)
    BY <2>1 DEF Unlinked, Loaded
  <2>2. CASE l[1] \notin Relinked(v) /\ l[1] \in Repos \cup Records
    <3>1. {m \in company.about : m[1] = l[1]} = {m \in v.about : m[1] = l[1]}
      BY <2>2 DEF Relinked
    <3> QED BY <2>2, <3>1 DEF Unlinked, Loaded
  <2>3. CASE l[1] \notin Repos \cup Records
    BY <1>4, <2>3 DEF Unlinked, Loaded
  <2> QED BY <2>1, <2>2, <2>3
<1>6. Loaded(v) \cap (company.about \ Unlinked(v)) = {}
  BY DEF Unlinked, Loaded
<1>7. EdgesPlan(v, company, p)
  BY <1>0, <1>2, <1>5, <1>6 DEF EdgesPlan
<1> QED BY <1>1, <1>7 DEF p

LEMMA ApplyStep ==
  ASSUME SourceAssumption, TypeInv, ApplyInv, [Next]_vars
  PROVE  ApplyInv'
<1> DEFINE v == View(read)
<1>0. company \in Companies /\ plan \in Plans /\ read \in Reads
  BY DEF TypeInv, TypeOK
<1>v. /\ v \in Companies /\ v.of = v.records /\ \A k \in v.of : HomeOf[k] \in v.repos
      /\ \A l \in v.about : l[1] \in v.repos \cup v.records /\ l[2] \in v.topics
  BY <1>0, ViewIs
<1>p. Applying => NodesPlan(v, company, plan) /\ EdgesPlan(v, company, plan)
  BY DEF ApplyInv, PlanInv
<1>q. ASSUME read' = read, NodesPlan(v, company', plan'), EdgesPlan(v, company', plan') PROVE PlanInv'
  BY <1>q DEF PlanInv
<1> HIDE DEF v
<1>1. CASE ~MakePlan /\ ~Unlink /\ ~DropNodes /\ ~LoadNodes /\ ~LoadEdges
  <2>1. UNCHANGED company /\ (Applying' => Applying /\ UNCHANGED <<phase, read, plan>>)
    BY <1>1, CompanyLeft
  <2>2. EndsInv'
    BY <2>1 DEF ApplyInv, EndsInv, Accepted, AcceptedOf
  <2>3. CASE Applying'
    <3>1. OrderInv'
      BY <2>1, <2>3 DEF ApplyInv, OrderInv
    <3>2. NodesPlan(v, company', plan') /\ EdgesPlan(v, company', plan')
      BY <1>p, <2>1, <2>3
    <3> QED BY <1>q, <2>1, <2>2, <2>3, <3>1, <3>2 DEF ApplyInv
  <2>4. CASE ~Applying'
    BY <2>2, <2>4 DEF ApplyInv, OrderInv, PlanInv, Applying
  <2> QED BY <2>3, <2>4
<1>2. CASE MakePlan
  <2>1. UNCHANGED <<company, read>> /\ plan' = PlanOf(v) /\ phase' = "unlink"
    BY <1>2 DEF MakePlan, v
  <2>2. EndsInv'
    BY <2>1 DEF ApplyInv, EndsInv, Accepted, AcceptedOf
  <2>3. OrderInv'
    BY <2>1 DEF OrderInv
  <2>4. NodesPlan(v, company', plan') /\ EdgesPlan(v, company', plan')
    BY <1>0, <1>v, <2>1, PlanLeads
  <2> QED BY <1>q, <2>1, <2>2, <2>3, <2>4 DEF ApplyInv
<1>3. CASE Unlink
  <2>0. phase = "unlink" /\ read' = read /\ NodesPlan(v, company, plan) /\ EdgesPlan(v, company, plan)
    BY <1>3, <1>p, UnlinkIs DEF Applying
  <2>1. CASE plan.unlink = {} /\ plan.drop.of = {} /\ phase' = "drop" /\ UNCHANGED <<company, plan>>
    <3>1. EndsInv'
      BY <2>1 DEF ApplyInv, EndsInv, Accepted, AcceptedOf
    <3>2. OrderInv'
      BY <2>1 DEF OrderInv
    <3> QED BY <1>q, <2>0, <2>1, <3>1, <3>2 DEF ApplyInv
  <2>2. CASE \E l \in plan.unlink :
               /\ phase' = "unlink" /\ company'.about = company.about \ {l} /\ plan'.unlink = plan.unlink \ {l}
               /\ UNCHANGED <<company.repos, company.topics, company.records, company.of, plan.drop, plan.load>>
    <3>1. EndsInv'
      BY <2>2 DEF ApplyInv, EndsInv, Accepted, AcceptedOf
    <3>2. OrderInv'
      BY <2>2 DEF OrderInv
    <3>3. NodesPlan(v, company', plan')
      BY <2>0, <2>2 DEF NodesPlan
    <3>4. EdgesPlan(v, company', plan')
      BY <2>0, <2>2 DEF EdgesPlan
    <3> QED BY <1>q, <2>0, <3>1, <3>2, <3>3, <3>4 DEF ApplyInv
  <2>3. CASE \E k \in plan.drop.of :
               /\ phase' = "unlink" /\ company'.of = company.of \ {k} /\ plan'.drop.of = plan.drop.of \ {k}
               /\ UNCHANGED <<company.repos, company.topics, company.records, company.about, plan.unlink,
                              plan.drop.repos, plan.drop.topics, plan.drop.records, plan.load>>
    <3>1. EndsInv'
      BY <2>3 DEF ApplyInv, EndsInv, Accepted, AcceptedOf
    <3>2. OrderInv'
      BY <2>3 DEF OrderInv
    <3>3. NodesPlan(v, company', plan')
      BY <2>0, <2>3 DEF NodesPlan
    <3>4. EdgesPlan(v, company', plan')
      BY <2>0, <2>3 DEF EdgesPlan
    <3> QED BY <1>q, <2>0, <3>1, <3>2, <3>3, <3>4 DEF ApplyInv
  <2> QED BY <1>3, <2>1, <2>2, <2>3, UnlinkIs
<1>4. CASE DropNodes
  <2>0. phase = "drop" /\ read' = read /\ NodesPlan(v, company, plan) /\ EdgesPlan(v, company, plan)
        /\ plan.unlink = {} /\ plan.drop.of = {}
    BY <1>4, <1>p, DropNodesIs DEF Applying, ApplyInv, OrderInv
  <2>1. CASE plan.drop.records = {} /\ plan.drop.repos = {} /\ plan.drop.topics = {} /\ phase' = "load"
             /\ UNCHANGED <<company, plan>>
    <3>1. EndsInv'
      BY <2>1 DEF ApplyInv, EndsInv, Accepted, AcceptedOf
    <3>2. OrderInv'
      BY <2>0, <2>1 DEF OrderInv
    <3> QED BY <1>q, <2>0, <2>1, <3>1, <3>2 DEF ApplyInv
  <2>2. CASE \E r \in SUBSET plan.drop.repos, k \in SUBSET plan.drop.records, t \in SUBSET plan.drop.topics :
               /\ phase' = "drop" /\ company' = WithoutNodes(company, r, k, t)
               /\ plan'.drop.repos = plan.drop.repos \ r /\ plan'.drop.records = plan.drop.records \ k
               /\ plan'.drop.topics = plan.drop.topics \ t
               /\ UNCHANGED <<plan.unlink, plan.drop.of, plan.load>>
    <3>0. PICK r \in SUBSET plan.drop.repos, k \in SUBSET plan.drop.records, t \in SUBSET plan.drop.topics :
               /\ phase' = "drop" /\ company' = WithoutNodes(company, r, k, t)
               /\ plan'.drop.repos = plan.drop.repos \ r /\ plan'.drop.records = plan.drop.records \ k
               /\ plan'.drop.topics = plan.drop.topics \ t
               /\ UNCHANGED <<plan.unlink, plan.drop.of, plan.load>>
      BY <2>2
    <3>a. /\ company'.repos = company.repos \ r /\ company'.topics = company.topics \ t
          /\ company'.records = company.records \ k
          /\ company'.of = {o \in company.of : o \notin k /\ HomeOf[o] \notin r}
          /\ company'.about = {l \in company.about : l[1] \notin r \cup k /\ l[2] \notin t}
      BY <3>0 DEF WithoutNodes
    <3>1. EndsInv'
      BY <3>a DEF ApplyInv, EndsInv, Accepted, AcceptedOf
    <3>2. OrderInv'
      BY <2>0, <3>0 DEF OrderInv
    <3>3. NodesPlan(v, company', plan')
      BY <2>0, <3>0, <3>a DEF NodesPlan
    <3>4. r \cap v.repos = {} /\ k \cap v.records = {} /\ t \cap v.topics = {}
      BY <2>0, <3>0 DEF NodesPlan
    \* Whoever has both ends in the view stays.
    <3>5. company.of \subseteq v.of /\ company.about \subseteq v.about
      BY <2>0 DEF EdgesPlan
    <3>6. company'.of = company.of
      BY <1>v, <3>4, <3>5, <3>a
    <3>7. company'.about = company.about
      <4>1. ASSUME NEW l \in company.about PROVE l[1] \notin r \cup k /\ l[2] \notin t
        <5>1. l[2] \in v.topics /\ l[1] \in v.repos \cup v.records
          BY <1>v, <3>5
        <5>2. r \subseteq Repos /\ k \subseteq Records
          BY <1>0, <3>0 DEF Plans, Companies
        <5>3. l[1] \notin r \cup k
          BY <1>v, <3>4, <5>1, <5>2, KindsApart DEF Companies
        <5> QED BY <3>4, <5>1, <5>3
      <4> QED BY <3>a, <4>1
    <3>8. EdgesPlan(v, company', plan')
      BY <2>0, <3>0, <3>6, <3>7 DEF EdgesPlan
    <3> QED BY <1>q, <2>0, <3>1, <3>2, <3>3, <3>8 DEF ApplyInv
  <2> QED BY <1>4, <2>1, <2>2, DropNodesIs
<1>5. CASE LoadNodes
  <2>0. phase = "load" /\ read' = read /\ NodesPlan(v, company, plan) /\ EdgesPlan(v, company, plan)
        /\ plan.unlink = {} /\ plan.drop.of = {} /\ UNCHANGED <<plan.unlink, plan.drop>>
        /\ plan.drop.records = {} /\ plan.drop.repos = {} /\ plan.drop.topics = {}
    BY <1>5, <1>p, LoadNodesIs DEF Applying, ApplyInv, OrderInv
  <2>1. CASE plan.load.repos = {} /\ plan.load.topics = {} /\ plan.load.records = {} /\ phase' = "link"
             /\ UNCHANGED <<company, plan>>
    <3>1. EndsInv'
      BY <2>1 DEF ApplyInv, EndsInv, Accepted, AcceptedOf
    <3>2. OrderInv'
      BY <2>0, <2>1 DEF OrderInv
    <3> QED BY <1>q, <2>0, <2>1, <3>1, <3>2 DEF ApplyInv
  <2>2. CASE /\ phase' = "load"
             /\ UNCHANGED <<company.of, company.about, plan.load.of, plan.load.about>>
             /\ \/ /\ company'.repos = company.repos \cup plan.load.repos /\ plan'.load.repos = {}
                   /\ UNCHANGED <<company.topics, company.records, plan.load.topics, plan.load.records>>
                \/ /\ company'.topics = company.topics \cup plan.load.topics /\ plan'.load.topics = {}
                   /\ UNCHANGED <<company.repos, company.records, plan.load.repos, plan.load.records>>
                \/ /\ company'.records = company.records \cup plan.load.records /\ plan'.load.records = {}
                   /\ UNCHANGED <<company.repos, company.topics, plan.load.repos, plan.load.topics>>
    <3>1. EndsInv'
      BY <2>2 DEF ApplyInv, EndsInv, Accepted, AcceptedOf
    <3>2. OrderInv'
      BY <2>0, <2>2 DEF OrderInv
    <3>3. NodesPlan(v, company', plan')
      BY <2>0, <2>2 DEF NodesPlan
    <3>4. EdgesPlan(v, company', plan')
      BY <2>0, <2>2 DEF EdgesPlan
    <3> QED BY <1>q, <2>0, <3>1, <3>2, <3>3, <3>4 DEF ApplyInv
  <2> QED BY <1>5, <2>1, <2>2, LoadNodesIs
<1>6. CASE LoadEdges
  <2>0. phase = "link" /\ NodesPlan(v, company, plan) /\ EdgesPlan(v, company, plan)
        /\ plan.unlink = {} /\ plan.drop.of = {}
        /\ plan.drop.records = {} /\ plan.drop.repos = {} /\ plan.drop.topics = {}
        /\ plan.load.records = {} /\ plan.load.repos = {} /\ plan.load.topics = {}
    BY <1>6, <1>p, LoadEdgesIs DEF Applying, ApplyInv, OrderInv
  <2>1. CASE phase' = "idle" /\ UNCHANGED company
    BY <2>1 DEF ApplyInv, EndsInv, OrderInv, PlanInv, Applying, Accepted, AcceptedOf
  <2>2. CASE \E l \in plan.load.about :
               /\ Accepted(l) /\ phase' = "link" /\ read' = read
               /\ company'.about = company.about \cup {l} /\ plan'.load.about = plan.load.about \ {l}
               /\ UNCHANGED <<company.repos, company.topics, company.records, company.of, plan.unlink, plan.drop,
                              plan.load.repos, plan.load.topics, plan.load.records, plan.load.of>>
    <3>1. EndsInv'
      BY <2>2 DEF ApplyInv, EndsInv, Accepted, AcceptedOf
    <3>2. OrderInv'
      BY <2>0, <2>2 DEF OrderInv
    <3>3. NodesPlan(v, company', plan')
      BY <2>0, <2>2 DEF NodesPlan
    <3>4. EdgesPlan(v, company', plan')
      BY <2>0, <2>2 DEF EdgesPlan
    <3> QED BY <1>q, <2>2, <3>1, <3>2, <3>3, <3>4 DEF ApplyInv
  <2>3. CASE \E k \in plan.load.of :
               /\ AcceptedOf(k) /\ phase' = "link" /\ read' = read
               /\ company'.of = company.of \cup {k} /\ plan'.load.of = plan.load.of \ {k}
               /\ UNCHANGED <<company.repos, company.topics, company.records, company.about, plan.unlink, plan.drop,
                              plan.load.repos, plan.load.topics, plan.load.records, plan.load.about>>
    <3>1. EndsInv'
      BY <2>3 DEF ApplyInv, EndsInv, Accepted, AcceptedOf
    <3>2. OrderInv'
      BY <2>0, <2>3 DEF OrderInv
    <3>3. NodesPlan(v, company', plan')
      BY <2>0, <2>3 DEF NodesPlan
    <3>4. EdgesPlan(v, company', plan')
      BY <2>0, <2>3 DEF EdgesPlan
    <3> QED BY <1>q, <2>3, <3>1, <3>2, <3>3, <3>4 DEF ApplyInv
  <2> QED BY <1>6, <2>1, <2>2, <2>3, LoadEdgesIs
<1> QED BY <1>1, <1>2, <1>3, <1>4, <1>5, <1>6

\* The server refuses no edge of a run and never gets one that it has, for every brain,
\* whatever changed while it was read and however many runs died half-way.
THEOREM EdgesClean ==
  ASSUME SourceAssumption
  PROVE  Spec => []EdgesLoadCleanly
<1>1. Init => TypeInv /\ ApplyInv
  <2>1. ASSUME Init PROVE ApplyInv
    BY <2>1 DEF Init, ApplyInv, EndsInv, OrderInv, PlanInv, Applying, Nothing, NoPlan
  <2> QED BY <2>1, TypeInit
<1>2. TypeInv /\ ApplyInv /\ [Next]_vars => TypeInv' /\ ApplyInv'
  BY TypeStep, ApplyStep
<1>3. TypeInv /\ ApplyInv => EdgesLoadCleanly
  <2> SUFFICES ASSUME TypeInv, ApplyInv, phase = "link"
               PROVE  /\ \A l \in plan.load.about : Accepted(l) /\ l \notin company.about
                      /\ \A k \in plan.load.of : AcceptedOf(k) /\ k \notin company.of
    BY DEF EdgesLoadCleanly
  <2> DEFINE v == View(read)
  <2>1. /\ v.of = v.records /\ \A k \in v.of : HomeOf[k] \in v.repos
        /\ \A l \in v.about : l[1] \in v.repos \cup v.records /\ l[2] \in v.topics
    BY ViewIs DEF TypeInv
  <2>2. NodesPlan(v, company, plan) /\ EdgesPlan(v, company, plan)
    BY DEF ApplyInv, PlanInv, Applying
  <2> HIDE DEF v
  <2>3. company.repos = v.repos /\ company.topics = v.topics /\ company.records = v.records
    BY <2>2 DEF NodesPlan, ApplyInv, OrderInv
  <2>4. plan.load.of \subseteq v.of /\ plan.load.of \cap company.of = {}
        /\ plan.load.about \subseteq v.about /\ plan.load.about \cap company.about = {}
    BY <2>2 DEF EdgesPlan, ApplyInv, OrderInv
  <2> QED BY <2>1, <2>3, <2>4 DEF Accepted, AcceptedOf
<1> QED BY <1>1, <1>2, <1>3, PTL DEF Spec

-----------------------------------------------------------------------------
(* What a run has read. *)

\* The links a run has asked for: those of the nodes whose query has been answered.
AskedNotes     == phase \in {"artifact_topics", "project_topics", "plan"}
AskedArtifacts == phase \in {"project_topics", "plan"}

Asked(s) ==
  \/ Applying \/ phase = "plan"
  \/ s \in Notes /\ AskedNotes
  \/ s \in Artifacts /\ AskedArtifacts

\* What the brain holds is one of the moments of the run, and a link that was there in
\* all of them is in the answers.
Seen ==
  \A s \in Sources, t \in Topics :
    (Asked(s) /\ \A m \in moments : <<s, t>> \in m.links) => <<s, t>> \in read.links

MomentInv ==
  /\ Reading => Now \in moments /\ Seen
  /\ TaintedStaysOut

\* A step of somebody else adds a moment, and takes none.
LEMMA ChangeIs ==
  ASSUME Distilled \/ Imported \/ Retiered
  PROVE  /\ UNCHANGED <<company, phase, read, plan, faults>> /\ steady' = FALSE
         /\ moments' = IF moments = {} THEN {} ELSE moments \cup {Now'}
BY DEF Distilled, Imported, Retiered, Change, Moment

LEMMA PhasesApart ==
  /\ Asking <=> phase \in {"projects", "artifact_projects", "records", "topics", "note_topics",
                            "artifact_topics", "project_topics"}
  /\ Asking' <=> phase' \in {"projects", "artifact_projects", "records", "topics", "note_topics",
                              "artifact_topics", "project_topics"}
BY QueriesAre DEF Asking

\* A topic of the plan is one that nothing but internal documents is about.
LEMMA TopicsQualify ==
  ASSUME SourceAssumption, TypeInv, MomentInv, MakePlan
  PROVE  TaintedStaysOut'
<1> SUFFICES ASSUME phase' = "unlink", NEW s \in Sources, NEW t \in plan'.load.topics,
                    moments' # {}, \A m \in moments' : <<s, t>> \in m.links
             PROVE  s \notin VaultNotes /\ read'.tiers[HomeOf[s]] = "internal"
  BY DEF TaintedStaysOut
<1>0. phase = "plan" /\ UNCHANGED <<read, moments>> /\ plan' = PlanOf(View(read))
  BY DEF MakePlan
<1>1. t \in View(read).topics
  BY <1>0 DEF PlanOf
<1>2. t \in Qualifying(read) /\ t \in Topics
  <2>1. PICK l \in ViewLinks(read) : t = l[2]
    BY <1>1 DEF View
  <2>2. l[2] \in Qualifying(read)
    BY <2>1 DEF ViewLinks
  <2>3. Qualifying(read) \subseteq Topics
    BY DEF Qualifying, TypeInv, Reads
  <2> QED BY <2>1, <2>2, <2>3
<1>3. <<s, t>> \in read.links
  BY <1>0, <1>2 DEF MomentInv, Reading, Seen, Asked
<1>4. InternalSource(read, s)
  BY <1>2, <1>3 DEF Qualifying
<1>5. s \in Projects \cup Artifacts \cup Records /\ read.tiers[HomeOf[s]] = "internal"
  BY <1>4 DEF InternalSource, TypeInv, Reads
<1> QED BY <1>0, <1>5, KindsApart

LEMMA MomentStep ==
  ASSUME SourceAssumption, TypeInv, TypeInv', MomentInv, [Next]_vars
  PROVE  MomentInv'
<1>a. ASSUME phase' # "unlink", ~Reading' PROVE MomentInv'
  BY <1>a DEF MomentInv, TaintedStaysOut
<1>1. CASE Start
  <2>1. phase' = "projects" /\ moments' = {Now} /\ Now' = Now
    BY <1>1 DEF Start, Queries, Now
  <2>2. Seen'
    BY <2>1 DEF Seen, Asked, Applying, AskedNotes, AskedArtifacts
  <2> QED BY <2>1, <2>2 DEF MomentInv, TaintedStaysOut
<1>2. CASE Query
  <2>0. UNCHANGED <<moments, about>> /\ Now' = Now /\ Now.links = about /\ Reading /\ phase' # "unlink"
    BY <1>2, Asks DEF Query, Now, Reading, Asking
  <2>1. Now' \in moments'
    BY <2>0 DEF MomentInv
  <2>2. ASSUME NEW s \in Sources, NEW t \in Topics, Asked(s)', \A m \in moments' : <<s, t>> \in m.links
        PROVE  <<s, t>> \in read'.links
    <3>1. <<s, t>> \in about
      BY <2>0, <2>1, <2>2
    <3>2. read.links \subseteq read'.links
      BY <1>2, Asks DEF TypeInv, Reads
    <3>3. CASE Asked(s)
      BY <2>0, <2>2, <3>2, <3>3 DEF MomentInv, Seen
    <3>4. CASE ~Asked(s)
      <4>1. \/ phase = "note_topics" /\ s \in Notes
            \/ phase = "artifact_topics" /\ s \in Artifacts
            \/ phase = "project_topics" /\ s \in Projects
        BY <1>2, <2>2, <3>4, Asks DEF Asked, Applying, AskedNotes, AskedArtifacts, Sources, Notes
      <4>2. <<s, t>> \in LinksOf(Notes) \/ s \notin Notes
        BY <3>1 DEF LinksOf
      <4>3. <<s, t>> \in LinksOf(Artifacts) \/ s \notin Artifacts
        BY <3>1 DEF LinksOf
      <4>4. <<s, t>> \in LinksOf(Projects) \/ s \notin Projects
        BY <3>1 DEF LinksOf
      <4> QED BY <1>2, <4>1, <4>2, <4>3, <4>4, Asks DEF TypeInv, Reads
    <3> QED BY <3>3, <3>4
  <2>3. Seen'
    BY <2>2 DEF Seen
  <2> QED BY <2>0, <2>1, <2>3 DEF MomentInv, TaintedStaysOut
<1>3. CASE MakePlan
  <2>1. ~Reading'
    BY <1>3, PhasesApart DEF MakePlan, Reading
  <2> QED BY <1>3, <2>1, TopicsQualify DEF MomentInv
<1>4. CASE RefuseNothingVisible \/ Fail
  <2>1. phase' = "idle"
    BY <1>4 DEF RefuseNothingVisible, Fail
  <2> QED BY <1>a, <2>1, PhasesApart DEF Reading
<1>5. CASE Unlink
  <2>1. moments' = {} /\ phase' \in {"unlink", "drop"}
    BY <1>5, UnlinkIs
  <2> QED BY <2>1, PhasesApart DEF MomentInv, TaintedStaysOut, Reading
<1>6. CASE DropNodes \/ LoadNodes \/ LoadEdges
  <2>1. phase' \in {"drop", "load", "link", "idle"}
    BY <1>6, DropNodesIs, LoadNodesIs, LoadEdgesIs
  <2> QED BY <1>a, <2>1, PhasesApart DEF Reading
<1>7. CASE Distilled \/ Imported \/ Retiered
  <2>0. UNCHANGED <<phase, read, plan>> /\ moments' = IF moments = {} THEN {} ELSE moments \cup {Now'}
    BY <1>7, ChangeIs
  <2>1. Reading' => Now' \in moments'
    BY <2>0 DEF MomentInv, Reading, Asking
  <2>2. Reading' => Seen'
    BY <2>0 DEF MomentInv, Reading, Asking, Seen, Asked, Applying, AskedNotes, AskedArtifacts
  <2>3. TaintedStaysOut'
    BY <2>0 DEF MomentInv, TaintedStaysOut
  <2> QED BY <2>1, <2>2, <2>3 DEF MomentInv
<1>8. CASE UNCHANGED vars
  BY <1>8 DEF vars, MomentInv, Reading, Asking, Seen, Asked, Applying, AskedNotes, AskedArtifacts, TaintedStaysOut, Now
<1> QED BY <1>1, <1>2, <1>3, <1>4, <1>5, <1>6, <1>7, <1>8 DEF Next, PodStep

\* No topic is loaded into the company graph that a vault note, or a document of a
\* repository outside the internal tier, is about all the time from the start of the run
\* to its plan, although the links are read in three queries with others' writes between
\* them (build_view, source_tier).
THEOREM TaintKept ==
  ASSUME SourceAssumption
  PROVE  Spec => []TaintedStaysOut
<1>1. Init => TypeInv /\ MomentInv
  <2>1. ASSUME Init PROVE MomentInv
    <3>1. phase = "idle"
      BY <2>1 DEF Init
    <3> QED BY <3>1, PhasesApart DEF MomentInv, TaintedStaysOut, Reading
  <2> QED BY <2>1, TypeInit
<1>2. TypeInv /\ MomentInv /\ [Next]_vars => TypeInv' /\ MomentInv'
  BY TypeStep, MomentStep
<1>3. MomentInv => TaintedStaysOut
  BY DEF MomentInv
<1> QED BY <1>1, <1>2, <1>3, PTL DEF Spec

-----------------------------------------------------------------------------
(* A run during which nothing changes. *)

AskedTopics  == AskedNotes \/ phase = "note_topics"
AskedRecords == AskedTopics \/ phase = "topics"
AskedRows    == AskedRecords \/ phase = "records"
AskedOne     == AskedRows \/ phase = "artifact_projects"

\* The answers are what the brain holds, as far as they go.
ReadsNow ==
  /\ read.tiers = tiers
  /\ AskedOne \/ Applying => read.projects = there \cap Projects
  /\ AskedRows \/ Applying => read.artifacts = there \cap Artifacts
  /\ AskedRecords \/ Applying => read.records = there \cap Records
  /\ AskedTopics \/ Applying => read.topics = there \cap Topics
  /\ read.links = {l \in about : Asked(l[1])}

SteadyInv ==
  /\ (Reading \/ Applying) /\ steady => ReadsNow
  /\ CompleteRunMirrors

\* A query adds its answer to those before it.
LEMMA QueryReads ==
  ASSUME TypeInv, Query, ReadsNow
  PROVE  ReadsNow'
<1>0. UNCHANGED <<tiers, there, about>> /\ about \subseteq Sources \X Topics /\ read \in Reads
  BY DEF Query, TypeInv, TypeOK
<1>1. CASE phase = "projects"
  <2>1. phase' = "artifact_projects" /\ read' = [read EXCEPT !.projects = there \cap Projects]
    BY <1>1, Asks
  <2>2. read'.links = {l \in about : Asked(l[1])'}
    BY <1>0, <1>1, <2>1 DEF ReadsNow, Reads, Asked, Applying, AskedNotes, AskedArtifacts
  <2> QED BY <1>0, <1>1, <2>1, <2>2
          DEF ReadsNow, Reads, Applying, AskedOne, AskedRows, AskedRecords, AskedTopics, AskedNotes
<1>2. CASE phase = "artifact_projects"
  <2>1. phase' = "records" /\ read' = [read EXCEPT !.artifacts = there \cap Artifacts]
    BY <1>2, Asks
  <2>2. read'.links = {l \in about : Asked(l[1])'}
    BY <1>0, <1>2, <2>1 DEF ReadsNow, Reads, Asked, Applying, AskedNotes, AskedArtifacts
  <2> QED BY <1>0, <1>2, <2>1, <2>2
          DEF ReadsNow, Reads, Applying, AskedOne, AskedRows, AskedRecords, AskedTopics, AskedNotes
<1>3. CASE phase = "records"
  <2>1. phase' = "topics" /\ read' = [read EXCEPT !.records = there \cap Records]
    BY <1>3, Asks
  <2>2. read'.links = {l \in about : Asked(l[1])'}
    BY <1>0, <1>3, <2>1 DEF ReadsNow, Reads, Asked, Applying, AskedNotes, AskedArtifacts
  <2> QED BY <1>0, <1>3, <2>1, <2>2
          DEF ReadsNow, Reads, Applying, AskedOne, AskedRows, AskedRecords, AskedTopics, AskedNotes
<1>4. CASE phase = "topics"
  <2>1. phase' = "note_topics" /\ read' = [read EXCEPT !.topics = there \cap Topics]
    BY <1>4, Asks
  <2>2. read'.links = {l \in about : Asked(l[1])'}
    BY <1>0, <1>4, <2>1 DEF ReadsNow, Reads, Asked, Applying, AskedNotes, AskedArtifacts
  <2> QED BY <1>0, <1>4, <2>1, <2>2
          DEF ReadsNow, Reads, Applying, AskedOne, AskedRows, AskedRecords, AskedTopics, AskedNotes
<1>5. CASE phase \in {"note_topics", "artifact_topics", "project_topics"}
  <2>1. \/ phase = "note_topics" /\ phase' = "artifact_topics" /\ read' = [read EXCEPT !.links = @ \cup LinksOf(Notes)]
        \/ phase = "artifact_topics" /\ phase' = "project_topics" /\ read' = [read EXCEPT !.links = @ \cup LinksOf(Artifacts)]
        \/ phase = "project_topics" /\ phase' = "plan" /\ read' = [read EXCEPT !.links = @ \cup LinksOf(Projects)]
    BY <1>5, Asks
  <2>2. ASSUME NEW l \in Sources \X Topics PROVE l \in read'.links <=> (l \in about /\ Asked(l[1])')
    <3>1. l[1] \in Notes \cup Artifacts \cup Projects
      BY <2>2 DEF Sources, Notes
    <3>2. l \in read.links <=> (l \in about /\ Asked(l[1]))
      BY DEF ReadsNow
    <3> QED BY <1>0, <2>1, <3>1, <3>2 DEF Reads, LinksOf, Asked, Applying, AskedNotes, AskedArtifacts
  <2>3. read'.links \subseteq Sources \X Topics
    BY <1>0, <2>1 DEF Reads, LinksOf
  <2>4. read'.links = {l \in about : Asked(l[1])'}
    BY <1>0, <2>2, <2>3
  <2> QED BY <1>0, <2>1, <2>4
          DEF ReadsNow, Reads, Applying, AskedOne, AskedRows, AskedRecords, AskedTopics, AskedNotes
<1> QED BY <1>1, <1>2, <1>3, <1>4, <1>5, Asks

\* All answers together are the brain.
LEMMA ReadsAll ==
  ASSUME TypeInv, ReadsNow, Applying
  PROVE  View(read) = View(Now)
<1>0. read \in Reads /\ about \subseteq Sources \X Topics
  BY DEF TypeInv, TypeOK
<1>1. read.links = about
  BY <1>0 DEF ReadsNow, Asked
<1>2. /\ read.tiers = tiers /\ read.projects = there \cap Projects /\ read.artifacts = there \cap Artifacts
      /\ read.records = there \cap Records /\ read.topics = there \cap Topics
  BY DEF ReadsNow
<1>3. read = [tiers |-> read.tiers, projects |-> read.projects, artifacts |-> read.artifacts,
              records |-> read.records, topics |-> read.topics, links |-> read.links]
  BY <1>0 DEF Reads
<1>4. read = Now
  BY <1>1, <1>2, <1>3 DEF Now
<1> QED BY <1>4

LEMMA SteadyStep ==
  ASSUME SourceAssumption, TypeInv, ApplyInv, SteadyInv, [Next]_vars
  PROVE  SteadyInv'
<1>b. ASSUME steady' = FALSE PROVE SteadyInv'
  BY <1>b DEF SteadyInv, CompleteRunMirrors
<1>1. CASE Start
  <2>1. phase' = "projects" /\ read' = [NothingRead EXCEPT !.tiers = tiers] /\ tiers' = tiers
    BY <1>1 DEF Start, Queries
  <2>2. read'.tiers = tiers /\ read'.links = {}
    BY <2>1 DEF NothingRead
  <2>3. ReadsNow'
    BY <2>1, <2>2 DEF ReadsNow, Asked, Applying, AskedOne, AskedRows, AskedRecords, AskedTopics, AskedNotes,
                      AskedArtifacts
  <2> QED BY <2>1, <2>3 DEF SteadyInv, CompleteRunMirrors
<1>2. CASE Query
  <2>1. Reading /\ steady' = steady /\ phase' # "idle"
    BY <1>2, Asks DEF Query, Reading, Asking
  <2>2. ~steady \/ ReadsNow
    BY <2>1 DEF SteadyInv
  <2>3. CASE ReadsNow
    BY <1>2, <2>1, <2>3, QueryReads DEF SteadyInv, CompleteRunMirrors
  <2>4. CASE ~steady
    BY <2>1, <2>4 DEF SteadyInv, CompleteRunMirrors
  <2> QED BY <2>2, <2>3, <2>4
<1>c. ASSUME UNCHANGED <<tiers, there, about, steady, read>>, phase = "plan" \/ Applying, Applying' PROVE SteadyInv'
  <2>1. ReadsNow => ReadsNow'
    BY <1>c DEF ReadsNow, Asked, Applying, AskedOne, AskedRows, AskedRecords, AskedTopics, AskedNotes, AskedArtifacts
  <2>2. phase' # "idle"
    BY <1>c DEF Applying
  <2>3. steady => ReadsNow
    BY <1>c DEF SteadyInv, Reading
  <2> QED BY <1>c, <2>1, <2>2, <2>3 DEF SteadyInv, CompleteRunMirrors
<1>3. CASE MakePlan
  BY <1>c, <1>3 DEF MakePlan, Applying
<1>4. CASE RefuseNothingVisible \/ Fail
  BY <1>b, <1>4 DEF RefuseNothingVisible, Fail
<1>5. CASE Unlink
  BY <1>c, <1>5, UnlinkIs, ApplyUnchangedIs DEF Applying
<1>6. CASE DropNodes
  BY <1>c, <1>6, DropNodesIs, ApplyUnchangedIs DEF Applying
<1>7. CASE LoadNodes
  BY <1>c, <1>7, LoadNodesIs, ApplyUnchangedIs DEF Applying
<1>8. CASE LoadEdges
  <2>1. CASE phase' = "link" /\ read' = read
    BY <1>c, <1>8, <2>1, ApplyUnchangedIs DEF Applying
  <2>2. CASE phase' = "idle"
    <3>0. phase = "link" /\ plan.load.about = {} /\ plan.load.of = {} /\ UNCHANGED company
      BY <1>8, <2>2, LoadEdgesIs
    <3>1. company = View(read)
      <4> DEFINE v == View(read)
      <4>1. v \in Companies
        BY ViewIs DEF TypeInv
      <4>2. NodesPlan(v, company, plan) /\ EdgesPlan(v, company, plan)
        BY <3>0 DEF ApplyInv, PlanInv, Applying
      <4> HIDE DEF v
      <4>3. /\ company.repos = v.repos /\ company.topics = v.topics /\ company.records = v.records
            /\ company.of = v.of /\ company.about = v.about
        BY <3>0, <4>2 DEF NodesPlan, EdgesPlan, ApplyInv, OrderInv
      <4>4. company = v
        BY <4>1, <4>3 DEF TypeInv, TypeOK, Companies
      <4> QED BY <4>4 DEF v
    <3>2. steady => company = View(Now)
      BY <3>0, <3>1, ReadsAll DEF SteadyInv, Applying
    <3>3. UNCHANGED <<tiers, there, about, steady>>
      BY <1>8, ApplyUnchangedIs
    <3>4. Now' = Now
      BY <3>3 DEF Now
    <3> QED BY <2>2, <3>0, <3>2, <3>3, <3>4, PhasesApart DEF SteadyInv, CompleteRunMirrors, Reading, Applying
  <2> QED BY <1>8, <2>1, <2>2, LoadEdgesIs
<1>9. CASE Distilled \/ Imported \/ Retiered
  BY <1>b, <1>9, ChangeIs
<1>10. CASE UNCHANGED vars
  <2>1. UNCHANGED <<tiers, there, about, company, phase, read, steady>>
    BY <1>10 DEF vars
  <2>2. ReadsNow => ReadsNow'
    BY <2>1 DEF ReadsNow, Asked, Applying, AskedOne, AskedRows, AskedRecords, AskedTopics, AskedNotes, AskedArtifacts
  <2>3. Now' = Now
    BY <2>1 DEF Now
  <2>4. (Reading \/ Applying)' => Reading \/ Applying
    BY <2>1 DEF Reading, Asking, Applying
  <2>5. View(Now)' = View(Now)
    BY <2>3
  <2>6. CompleteRunMirrors'
    BY <2>1, <2>5 DEF SteadyInv, CompleteRunMirrors
  <2> QED BY <2>1, <2>2, <2>4, <2>6 DEF SteadyInv
<1> QED BY <1>1, <1>2, <1>3, <1>4, <1>5, <1>6, <1>7, <1>8, <1>9, <1>10 DEF Next, PodStep

\* A run during which nothing changes leaves the company graph equal to the view of the
\* brain, however the runs before it ended.
THEOREM RunMirrors ==
  ASSUME SourceAssumption
  PROVE  Spec => []CompleteRunMirrors
<1>1. Init => TypeInv /\ ApplyInv /\ SteadyInv
  <2>1. ASSUME Init PROVE ApplyInv /\ SteadyInv
    <3>1. ApplyInv
      BY <2>1 DEF Init, ApplyInv, EndsInv, OrderInv, PlanInv, Applying, Nothing, NoPlan
    <3>2. SteadyInv
      BY <2>1 DEF Init, SteadyInv, CompleteRunMirrors
    <3> QED BY <3>1, <3>2
  <2> QED BY <2>1, TypeInit
<1>2. TypeInv /\ ApplyInv /\ SteadyInv /\ [Next]_vars => TypeInv' /\ ApplyInv' /\ SteadyInv'
  BY TypeStep, ApplyStep, SteadyStep
<1>3. SteadyInv => CompleteRunMirrors
  BY DEF SteadyInv
<1> QED BY <1>1, <1>2, <1>3, PTL DEF Spec

\* Both at once: the company graph is the view after a run nothing disturbed, and no run
\* loads a topic that something tainted is about from its start to its plan.
THEOREM RunIsSound ==
  ASSUME SourceAssumption
  PROVE  Spec => []CompanySound
BY RunMirrors, TaintKept, PTL DEF CompanySound
=============================================================================
