---------------------------- MODULE DistillProofs ----------------------------
(***************************************************************************)
(* Proofs about Distill for every set of documents, names, texts, answers  *)
(* and bounds.                                                             *)
(*                                                                         *)
(*   TypeInv   the types; what is read is selected; a plan is made last    *)
(*   SpendInv  what the calls in flight may still cost fits the overshoot, *)
(*             and so do the questions that follow the extractions         *)
(*   DropInv   a plan drops no topic that a foreign link of its snapshot   *)
(*             names                                                       *)
(*   GraphInv  links end in topics, and aliases mean what their topic does *)
(*   UniqueInv topics and planned topics are of distinct concepts          *)
(*   LinkInv   what a document's links come to, phase by phase; rows last  *)
(*   TidyInv   the graph that carrying out the plan leads to               *)
(*                                                                         *)
(* Each is preserved by Next together with those above it that it uses.    *)
(* Then the tools server, and at the end all users of the brain beside     *)
(* each other.                                                             *)
(***************************************************************************)
EXTENDS BrainGraph, TLAPS, FiniteSetTheorems, WellFoundedInduction, SequenceTheorems

-----------------------------------------------------------------------------
(* The least element of a set of numbers. *)

LEMMA LeastIn ==
  ASSUME NEW S, S \subseteq Nat, S # {}
  PROVE  Least(S) \in S /\ \A y \in S : Least(S) <= y
<1>1. PICK x \in S : \A y \in S : ~(<<y, x>> \in OpToRel(<, Nat))
  BY NatLessThanWellFounded, WFMin
<1>2. \A y \in S : x <= y
  <2> SUFFICES ASSUME NEW y \in S, y < x PROVE FALSE
    OBVIOUS
  <2>1. <<y, x>> \in Nat \X Nat /\ <<y, x>>[1] < <<y, x>>[2]
    OBVIOUS
  <2>2. <<y, x>> \in OpToRel(<, Nat)
    BY <2>1, Zenon DEF OpToRel
  <2> QED BY <1>1, <2>2
<1> QED BY <1>2 DEF Least

-----------------------------------------------------------------------------
(* Types. *)

Chosen ==
  \A d \in queue \cup inflight \cup read :
    snap.docs[d] # 0 /\ snap.graph.rows[d] # snap.docs[d]

PlansLate == (phase # "apply" => plan = NoPlan) /\ plan.record \subseteq read

TypeInv == TypeOK /\ Chosen /\ PlansLate

Texts == UNION {Extraction(d) : d \in read}

LEMMA TextsAreNames ==
  ASSUME SetsAssumption, TypeInv
  PROVE  /\ \A d \in read : Extraction(d) \in SUBSET Names
         /\ Texts \subseteq Names
<1>1. ASSUME NEW d \in read PROVE Extraction(d) \in SUBSET Names
  <2>1. d \in Docs /\ snap.docs[d] \in 1..MaxVersion
    BY <1>1 DEF TypeInv, TypeOK, Chosen, Versions, SetsAssumption
  <2>2. <<d, snap.docs[d]>> \in Docs \X (1..MaxVersion)
    BY <2>1
  <2>3. Mentions[<<d, snap.docs[d]>>] \in SUBSET Names
    BY <2>2 DEF SetsAssumption
  <2> QED BY <2>3 DEF Extraction
<1> QED BY <1>1 DEF Texts

LEMMA KnownAreNames ==
  ASSUME SetsAssumption, TypeInv
  PROVE  Known \subseteq Names /\ Known \subseteq Nat /\ Names \subseteq Nat
BY DEF Known, TypeInv, TypeOK, Graphs, SetsAssumption

LEMMA FreshAreTexts ==
  ASSUME NEW judged
  PROVE  /\ Fresh(judged) \subseteq Texts /\ Fresh(judged) \cap Known = {}
         /\ \A n \in Texts : n \in Known \/ (judged /\ Holders(n) # {}) \/ n \in Fresh(judged)
BY DEF Fresh, Texts

\* What a name becomes is a topic of the graph or one of the new names.
LEMMA CanonicalIs ==
  ASSUME SetsAssumption, TypeInv, NEW judged \in BOOLEAN, NEW n \in Texts
  PROVE  Canonical(n, judged) \in Known \cup Fresh(judged)
<1> USE TextsAreNames, KnownAreNames, FreshAreTexts
<1>1. CASE n \in Known
  BY <1>1 DEF Canonical
<1>2. CASE n \notin Known /\ judged /\ Holders(n) # {}
  <2>1. Holders(n) \subseteq Known
    BY DEF Holders
  <2>2. Least(Holders(n)) \in Holders(n)
    BY <1>2, <2>1, LeastIn
  <2> QED BY <1>2, <2>1, <2>2 DEF Canonical
<1>3. CASE n \notin Known /\ ~(judged /\ Holders(n) # {})
  <2> DEFINE T == Twins(n, judged)
  <2>0. Canonical(n, judged) = IF T = {} THEN n
                               ELSE IF T \cap Known # {} THEN Least(T \cap Known) ELSE Least(T)
    BY <1>3 DEF Canonical
  <2>1. T \subseteq Known \cup Fresh(judged)
    BY DEF Twins
  <2>2. T \subseteq Nat
    BY <2>1
  <2>3. n \in Fresh(judged)
    BY <1>3
  <2> HIDE DEF T
  <2>4. T \cap Known # {} => Least(T \cap Known) \in T \cap Known
    BY <2>2, LeastIn
  <2>5. T # {} => Least(T) \in T
    BY <2>2, LeastIn
  <2> QED BY <2>0, <2>1, <2>3, <2>4, <2>5
<1> QED BY <1>1, <1>2, <1>3

LEMMA CanonicalNames ==
  ASSUME SetsAssumption, TypeInv, NEW judged \in BOOLEAN
  PROVE  /\ Known \cup Fresh(judged) \subseteq Names
         /\ \A d \in read : Wanted(d, judged) \subseteq Known \cup Fresh(judged)
<1>1. Known \cup Fresh(judged) \subseteq Names
  BY TextsAreNames, KnownAreNames, FreshAreTexts
<1>2. ASSUME NEW d \in read, NEW n \in Extraction(d)
      PROVE  Canonical(n, judged) \in Known \cup Fresh(judged)
  <2>1. n \in Texts
    BY <1>2 DEF Texts
  <2> QED BY <2>1, CanonicalIs
<1> QED BY <1>1, <1>2 DEF Wanted

LEMMA OwnedNames ==
  ASSUME SetsAssumption, TypeInv, NEW judged \in BOOLEAN, NEW d \in Docs
  PROVE  OwnedAfter(d, judged) \subseteq Names
<1>1. snap.graph.owned[d] \subseteq Names
  BY DEF TypeInv, TypeOK, Graphs
<1> QED BY <1>1, CanonicalNames DEF OwnedAfter

LEMMA TogetherCounts ==
  ASSUME SetsAssumption, NEW judged, NEW p
  PROVE  Together(p, judged) \in Nat
BY FS_Subset, FS_CardinalityType DEF Together, SetsAssumption

LEMMA PlanParts ==
  ASSUME NEW a \in SUBSET (Docs \X Names), NEW b \in SUBSET Pairs, NEW c \in SUBSET Names,
         NEW e \in SUBSET Docs, NEW f \in SUBSET Names, NEW g \in [Names -> SUBSET Names],
         NEW h \in SUBSET (Docs \X Names), NEW i \in SUBSET Pairs, NEW j \in [Pairs -> Nat],
         NEW k \in SUBSET Docs
  PROVE  [unlink |-> a, unrelate |-> b, drop |-> c, forget |-> e, topics |-> f, aliases |-> g,
          link |-> h, relate |-> i, count |-> j, record |-> k] \in Plans
BY DEF Plans

LEMMA PlanTyped ==
  ASSUME SetsAssumption, TypeInv, NEW judged \in BOOLEAN
  PROVE  PlanOf(judged) \in Plans /\ PlanOf(judged).record = read
<1> DEFINE P == PlanOf(judged)
<1>0. read \subseteq Docs
  BY DEF TypeInv, TypeOK
<1>1. P.unlink \in SUBSET (Docs \X Names)
  <2>1. \A d \in Docs : snap.graph.owned[d] \subseteq Names
    BY DEF TypeInv, TypeOK, Graphs
  <2> QED BY <1>0, <2>1 DEF PlanOf
<1>2. P.unrelate \in SUBSET Pairs
  BY DEF PlanOf, Unrelate
<1>3. P.drop \in SUBSET Names
  BY KnownAreNames DEF PlanOf
<1>4. P.forget \in SUBSET Docs
  BY DEF PlanOf
<1>5. P.topics \in SUBSET Names
  BY CanonicalNames DEF PlanOf
<1>6. P.aliases \in [Names -> SUBSET Names]
  <2>1. ASSUME NEW t \in Names PROVE NewAliases(t, judged) \in SUBSET Names
    <3>1. Fresh(judged) \subseteq Names
      BY CanonicalNames
    <3>2. (IF t \in Known THEN snap.graph.aliases[t] ELSE {}) \subseteq Names
      BY DEF TypeInv, TypeOK, Graphs
    <3> QED BY <3>1, <3>2 DEF NewAliases
  <2> QED BY <2>1 DEF PlanOf
<1>7. P.link \in SUBSET (Docs \X Names)
  BY <1>0, OwnedNames DEF PlanOf
<1>8. P.relate \in SUBSET Pairs
  BY DEF PlanOf
<1>9. P.count \in [Pairs -> Nat]
  BY TogetherCounts DEF PlanOf
<1>10. P.record = read
  BY DEF PlanOf
<1>11. P = [unlink |-> P.unlink, unrelate |-> P.unrelate, drop |-> P.drop, forget |-> P.forget,
            topics |-> P.topics, aliases |-> P.aliases, link |-> P.link, relate |-> P.relate,
            count |-> P.count, record |-> P.record]
  BY DEF PlanOf
<1>12. P.record \in SUBSET Docs
  BY <1>0, <1>10
<1> HIDE DEF P
<1>13. P \in Plans
  BY ONLY <1>1, <1>2, <1>3, <1>4, <1>5, <1>6, <1>7, <1>8, <1>9, <1>11, <1>12, PlanParts
<1> QED BY <1>10, <1>13 DEF P

LEMMA CallsCost ==
  ASSUME NEW n \in Nat, NEW w \in Nat, NEW c \in Nat
  PROVE  /\ n * c \in Nat /\ (n + 1) * c = n * c + c
         /\ n <= w => n * c <= w * c
<1>1. n * c \in Nat /\ (n + 1) * c = n * c + c
  OBVIOUS
<1>2. ASSUME n <= w PROVE n * c <= w * c
  <2>1. PICK k \in Nat : w = n + k
    BY <1>2, w - n \in Nat, w = n + (w - n)
  <2>2. w * c = n * c + k * c /\ k * c \in Nat
    BY <2>1
  <2> QED BY <2>2, <1>1
<1> QED BY <1>1, <1>2

\* The questions of a run are counted, and are no more than its extractions allow.
LEMMA QuestionsCounted ==
  ASSUME SetsAssumption, BoundAssumption, TypeInv, NEW judged \in BOOLEAN
  PROVE  /\ MostAsked(judged) \in Nat /\ QuestionLimit \in Nat /\ MostAsked(judged) <= QuestionLimit
         /\ \A cost \in 0..(MostAsked(judged) * MaxQuestionCost) :
              cost \in Nat /\ cost <= QuestionLimit * MaxQuestionCost
<1> DEFINE a == Cardinality(AliasQuestions)
           f == Cardinality(Fresh(judged))
           g == Cardinality(Fresh(FALSE))
           u == Cardinality(AuditQuestions(judged))
<1>1. /\ MergeCandidates \in Nat /\ MaxAliasQuestions \in Nat /\ MaxQuestionCost \in Nat
      /\ IsFiniteSet(Names)
  BY DEF BoundAssumption, SetsAssumption
<1>2. IsFiniteSet(Names \X Names)
  BY <1>1, FS_Product
<1>3. Fresh(judged) \subseteq Fresh(FALSE)
  BY DEF Fresh
<1>4. Fresh(FALSE) \subseteq Names
  BY CanonicalNames
<1>5. f \in Nat /\ g \in Nat /\ f <= g
  <2>1. IsFiniteSet(Fresh(FALSE))
    BY <1>1, <1>4, FS_Subset
  <2>2. IsFiniteSet(Fresh(judged)) /\ f <= g
    BY <1>3, <2>1, FS_Subset
  <2> QED BY <2>1, <2>2, FS_CardinalityType
<1>6. a \in Nat
  <2>1. AliasQuestions \subseteq Names \X Names
    BY KnownAreNames DEF AliasQuestions
  <2> QED BY <1>2, <2>1, FS_Subset, FS_CardinalityType
<1>7. u \in Nat
  <2>1. AuditQuestions(judged) \subseteq Names \X Names
    BY CanonicalNames DEF AuditQuestions
  <2> QED BY <1>2, <2>1, FS_Subset, FS_CardinalityType
<1>8. /\ MostAsked(judged) = a + MergeCandidates * f + (IF u <= MaxAliasQuestions THEN u ELSE MaxAliasQuestions)
      /\ QuestionLimit = a + MergeCandidates * g + MaxAliasQuestions
  BY DEF MostAsked, QuestionLimit
<1> HIDE DEF a, f, g, u
<1>9. /\ MergeCandidates * f \in Nat /\ MergeCandidates * g \in Nat
      /\ MergeCandidates * f <= MergeCandidates * g
  <2>1. f * MergeCandidates \in Nat /\ g * MergeCandidates \in Nat /\ f * MergeCandidates <= g * MergeCandidates
    BY <1>1, <1>5, CallsCost
  <2>2. MergeCandidates * f = f * MergeCandidates /\ MergeCandidates * g = g * MergeCandidates
    BY <1>1, <1>5
  <2> QED BY <2>1, <2>2
<1>10. MostAsked(judged) \in Nat /\ QuestionLimit \in Nat /\ MostAsked(judged) <= QuestionLimit
  BY <1>1, <1>6, <1>7, <1>8, <1>9
<1>11. /\ MostAsked(judged) * MaxQuestionCost \in Nat /\ QuestionLimit * MaxQuestionCost \in Nat
       /\ MostAsked(judged) * MaxQuestionCost <= QuestionLimit * MaxQuestionCost
  BY <1>1, <1>10, CallsCost
<1> QED BY <1>10, <1>11

LEMMA EmptyTyped ==
  ASSUME SetsAssumption
  PROVE  NoPlan \in Plans /\ EmptyGraph \in Graphs
<1>1. NoPlan \in Plans
  BY DEF NoPlan, Plans
<1>2. 0 \in Versions
  BY DEF SetsAssumption, Versions
<1>3. EmptyGraph \in Graphs
  BY <1>2 DEF EmptyGraph, Graphs
<1> QED BY <1>1, <1>3

LEMMA GraphUpdates ==
  ASSUME NEW g \in Graphs
  PROVE  /\ \A d \in Docs : \A S \in SUBSET Names : [g EXCEPT !.owned[d] = S] \in Graphs
         /\ \A d \in Docs : \A S \in SUBSET Names : [g EXCEPT !.foreign[d] = S] \in Graphs
         /\ \A f \in [Pairs -> Nat] : [g EXCEPT !.related = f] \in Graphs
         /\ \A f \in [Docs -> Versions] : [g EXCEPT !.rows = f] \in Graphs
         /\ \A d \in Docs : \A v \in Versions : [g EXCEPT !.rows[d] = v] \in Graphs
         /\ \A T \in SUBSET Names : \A t \in Names : \A S \in SUBSET Names :
              [g EXCEPT !.topics = T, !.aliases[t] = S] \in Graphs
BY DEF Graphs

LEMMA WithoutTyped ==
  ASSUME NEW g \in Graphs
  PROVE  /\ \A t \in Names : WithoutTopic(g, t) \in Graphs
         /\ \A d \in Docs : WithoutDoc(g, d) \in Graphs
<1>1. ASSUME NEW t \in Names PROVE WithoutTopic(g, t) \in Graphs
  <2> DEFINE ow == [d \in Docs |-> g.owned[d] \ {t}]
             fo == [d \in Docs |-> g.foreign[d] \ {t}]
             re == [p \in Pairs |-> IF t \in {p[1], p[2]} THEN 0 ELSE g.related[p]]
             al == [g.aliases EXCEPT ![t] = {}]
             to == g.topics \ {t}
  <2>1. /\ ow \in [Docs -> SUBSET Names] /\ fo \in [Docs -> SUBSET Names]
        /\ al \in [Names -> SUBSET Names] /\ to \in SUBSET Names
    BY DEF Graphs
  <2>2. re \in [Pairs -> Nat]
    BY DEF Graphs
  <2>3. WithoutTopic(g, t) = [g EXCEPT !.topics = to, !.aliases = al, !.owned = ow, !.foreign = fo,
                                       !.related = re]
    BY DEF WithoutTopic, Flip
  <2> HIDE DEF ow, fo, re, al, to
  <2>4. [g EXCEPT !.topics = to, !.aliases = al, !.owned = ow, !.foreign = fo, !.related = re] \in Graphs
    BY <2>1, <2>2 DEF Graphs
  <2> QED BY <2>3, <2>4
<1>2. ASSUME NEW d \in Docs PROVE WithoutDoc(g, d) \in Graphs
  BY DEF WithoutDoc, Graphs
<1> QED BY <1>1, <1>2

\* What a plan becomes as it is carried out.
LEMMA PlanUpdates ==
  ASSUME NEW p \in Plans
  PROVE  /\ \A e : [p EXCEPT !.unlink = @ \ {e}] \in Plans /\ [p EXCEPT !.link = @ \ {e}] \in Plans
         /\ \A t : [p EXCEPT !.drop = @ \ {t}] \in Plans /\ [p EXCEPT !.topics = @ \ {t}] \in Plans
         /\ \A d : [p EXCEPT !.record = @ \ {d}] \in Plans
         /\ [p EXCEPT !.unrelate = {}] \in Plans /\ [p EXCEPT !.forget = {}] \in Plans
         /\ [p EXCEPT !.relate = {}] \in Plans
BY DEF Plans

LEMMA PlanRecords ==
  ASSUME NEW p \in Plans
  PROVE  /\ \A e : [p EXCEPT !.unlink = @ \ {e}].record = p.record
         /\ \A e : [p EXCEPT !.link = @ \ {e}].record = p.record
         /\ \A t : [p EXCEPT !.drop = @ \ {t}].record = p.record
         /\ \A t : [p EXCEPT !.topics = @ \ {t}].record = p.record
         /\ \A d : [p EXCEPT !.record = @ \ {d}].record = p.record \ {d}
         /\ [p EXCEPT !.unrelate = {}].record = p.record /\ [p EXCEPT !.forget = {}].record = p.record
         /\ [p EXCEPT !.relate = {}].record = p.record
BY DEF Plans

LEMMA TypeInit ==
  ASSUME SetsAssumption, BoundAssumption, Init
  PROVE  TypeInv
<1>1. docs \in [Docs -> Versions] /\ 0 \in Versions
  BY DEF Init, SetsAssumption, Versions
<1>2. TypeOK
  BY <1>1, EmptyTyped DEF Init, TypeOK
<1>3. NoPlan.record = {}
  BY DEF NoPlan
<1> QED BY <1>2, <1>3 DEF TypeInv, Init, Chosen, PlansLate

\* The apply steps, which leave everything but the graph and the plan.
LEMMA ApplyTypes ==
  ASSUME SetsAssumption, TypeInv, ApplyStep
  PROVE  /\ graph' \in Graphs /\ plan' \in Plans /\ plan'.record \subseteq plan.record
         /\ phase = "apply" /\ UNCHANGED <<docs, phase, runVars, quiet, silent, keySpent, bounds>>
<1> USE DEF TypeInv, TypeOK
<1>0. graph \in Graphs /\ plan \in Plans
  OBVIOUS
<1>1. CASE Unlink
  <2>1. PICK e \in plan.unlink : /\ graph' = [graph EXCEPT !.owned[e[1]] = @ \ {e[2]}]
                                 /\ plan' = [plan EXCEPT !.unlink = @ \ {e}]
    BY <1>1 DEF Unlink
  <2>2. e[1] \in Docs
    BY <1>0 DEF Plans
  <2>3. graph.owned[e[1]] \ {e[2]} \in SUBSET Names
    BY <2>2 DEF Graphs
  <2>4. graph' \in Graphs
    BY <2>1, <2>2, <2>3, GraphUpdates
  <2>5. plan' \in Plans /\ plan'.record = plan.record
    BY ONLY <1>0, <2>1, PlanUpdates, PlanRecords
  <2> QED BY <1>1, <2>4, <2>5 DEF Unlink
<1>2. CASE Unrelated
  <2>1. [p \in Pairs |-> IF p \in plan.unrelate THEN 0 ELSE graph.related[p]] \in [Pairs -> Nat]
    BY DEF Graphs
  <2>2. graph' \in Graphs
    BY <1>2, <2>1, GraphUpdates DEF Unrelated
  <2>4. plan' = [plan EXCEPT !.unrelate = {}]
    BY <1>2 DEF Unrelated
  <2>3. plan' \in Plans /\ plan'.record = plan.record
    BY ONLY <1>0, <2>4, PlanUpdates, PlanRecords
  <2> QED BY <1>2, <2>2, <2>3 DEF Unrelated
<1>3. CASE Drop
  <2>1. PICK t \in plan.drop : graph' = WithoutTopic(graph, t) /\ plan' = [plan EXCEPT !.drop = @ \ {t}]
    BY <1>3 DEF Drop
  <2>2. t \in Names
    BY <1>0 DEF Plans
  <2>3. graph' \in Graphs
    BY <2>1, <2>2, WithoutTyped
  <2>4. plan' \in Plans /\ plan'.record = plan.record
    BY ONLY <1>0, <2>1, PlanUpdates, PlanRecords
  <2> QED BY <1>3, <2>3, <2>4 DEF Drop
<1>4. CASE Forget
  <2>1. [d \in Docs |-> IF d \in plan.forget THEN 0 ELSE graph.rows[d]] \in [Docs -> Versions]
    BY DEF Graphs, Versions, SetsAssumption
  <2>2. graph' \in Graphs
    BY <1>4, <2>1, GraphUpdates DEF Forget
  <2>4. plan' = [plan EXCEPT !.forget = {}]
    BY <1>4 DEF Forget
  <2>3. plan' \in Plans /\ plan'.record = plan.record
    BY ONLY <1>0, <2>4, PlanUpdates, PlanRecords
  <2> QED BY <1>4, <2>2, <2>3 DEF Forget
<1>5. CASE LoadTopic
  <2>1. PICK t \in plan.topics :
          /\ graph' = [graph EXCEPT !.topics = @ \cup {t}, !.aliases[t] = plan.aliases[t]]
          /\ plan' = [plan EXCEPT !.topics = @ \ {t}]
    BY <1>5 DEF LoadTopic
  <2>2. t \in Names /\ plan.aliases[t] \in SUBSET Names
    BY <1>0 DEF Plans
  <2>3. graph.topics \cup {t} \in SUBSET Names
    BY <1>0, <2>2 DEF Graphs
  <2>4. graph' \in Graphs
    BY <2>1, <2>2, <2>3, GraphUpdates
  <2>5. plan' \in Plans /\ plan'.record = plan.record
    BY ONLY <1>0, <2>1, PlanUpdates, PlanRecords
  <2> QED BY <1>5, <2>4, <2>5 DEF LoadTopic
<1>6. CASE LoadLink
  <2>1. PICK e \in plan.link : /\ graph' = [graph EXCEPT !.owned[e[1]] = @ \cup {e[2]}]
                               /\ plan' = [plan EXCEPT !.link = @ \ {e}]
    BY <1>6 DEF LoadLink
  <2>2. e[1] \in Docs /\ e[2] \in Names
    BY <1>0 DEF Plans
  <2>3. graph.owned[e[1]] \cup {e[2]} \in SUBSET Names
    BY <2>2 DEF Graphs
  <2>4. graph' \in Graphs
    BY <2>1, <2>2, <2>3, GraphUpdates
  <2>5. plan' \in Plans /\ plan'.record = plan.record
    BY ONLY <1>0, <2>1, PlanUpdates, PlanRecords
  <2> QED BY <1>6, <2>4, <2>5 DEF LoadLink
<1>7. CASE LoadRelated
  <2>1. [p \in Pairs |-> IF p \in plan.relate THEN plan.count[p] ELSE graph.related[p]] \in [Pairs -> Nat]
    BY DEF Graphs, Plans
  <2>2. graph' \in Graphs
    BY <1>7, <2>1, GraphUpdates DEF LoadRelated
  <2>4. plan' = [plan EXCEPT !.relate = {}]
    BY <1>7 DEF LoadRelated
  <2>3. plan' \in Plans /\ plan'.record = plan.record
    BY ONLY <1>0, <2>4, PlanUpdates, PlanRecords
  <2> QED BY <1>7, <2>2, <2>3 DEF LoadRelated
<1>8. CASE Record
  <2>1. PICK d \in plan.record : /\ graph' = [graph EXCEPT !.rows[d] = snap.docs[d]]
                                 /\ plan' = [plan EXCEPT !.record = @ \ {d}]
    BY <1>8 DEF Record
  <2>2. d \in Docs /\ snap.docs[d] \in Versions
    BY <1>0 DEF Plans
  <2>3. graph' \in Graphs
    BY <2>1, <2>2, GraphUpdates
  <2>5. plan' = [plan EXCEPT !.record = @ \ {d}]
    BY <2>1
  <2>6. plan' \in Plans /\ plan'.record = plan.record \ {d}
    BY ONLY <1>0, <2>5, PlanUpdates, PlanRecords
  <2>4. plan' \in Plans /\ plan'.record \subseteq plan.record
    BY <2>6
  <2> QED BY <1>8, <2>3, <2>4 DEF Record
<1> QED BY <1>1, <1>2, <1>3, <1>4, <1>5, <1>6, <1>7, <1>8 DEF ApplyStep

LEMMA TypeStep ==
  ASSUME SetsAssumption, BoundAssumption, TypeInv, [Next]_vars
  PROVE  TypeInv'
<1> USE DEF TypeInv, TypeOK, bounds, runVars
<1>0. NoPlan.record = {}
  BY DEF NoPlan
<1>1. CASE RefuseNothingVisible
  BY <1>1 DEF RefuseNothingVisible, Chosen, PlansLate
<1>2. CASE Snapshot
  <2>1. queue' \subseteq Docs
    BY <1>2 DEF Snapshot, Selected, Pending
  <2>2. snap' \in [docs : [Docs -> Versions], graph : Graphs]
    BY <1>2 DEF Snapshot
  <2>3. TypeOK'
    BY <1>2, <2>1, <2>2 DEF Snapshot
  <2>4. Chosen'
    BY <1>2 DEF Snapshot, Chosen, Selected, Pending
  <2>5. PlansLate'
    BY <1>0, <1>2 DEF Snapshot, PlansLate
  <2> QED BY <2>3, <2>4, <2>5
<1>3. CASE Submit
  <2>1. Least(queue) \in queue
    BY <1>3, LeastIn DEF Submit, CanSubmit, SetsAssumption
  <2> QED BY <1>3, <2>1 DEF Submit, Chosen, PlansLate
<1>4. CASE Answer
  <2>1. PICK d \in inflight :
          /\ inflight' = inflight \ {d}
          /\ read'  = IF Outcome(d) = "garbled" THEN read ELSE read \cup {d}
          /\ empty' = IF Outcome(d) = "refused" THEN empty \cup {d} ELSE empty
          /\ IF Outcome(d) = "refused" THEN spent' = spent
             ELSE \E cost \in 1..MaxCallCost : spent' = spent + cost
    BY <1>4 DEF Answer
  <2>2. spent' \in Nat
    BY <2>1 DEF BoundAssumption
  <2>3. read' \subseteq Docs /\ empty' \subseteq Docs /\ inflight' \subseteq Docs
    BY <2>1
  <2>4. TypeOK'
    BY <1>4, <2>2, <2>3 DEF Answer
  <2>5. Chosen'
    BY <1>4, <2>1 DEF Answer, Chosen
  <2>6. PlansLate'
    BY <1>0, <1>4 DEF Answer, PlansLate
  <2> QED BY <2>4, <2>5, <2>6
<1>5. CASE MakePlan
  <2>1. PICK judged \in BOOLEAN : /\ plan' = PlanOf(judged)
                                  /\ silent' = (silent \/ ~judged)
                                  /\ troubles' = IF judged THEN troubles ELSE troubles + 1
                                  /\ \E cost \in 0..(MostAsked(judged) * MaxQuestionCost) : spent' = spent + cost
    BY <1>5 DEF MakePlan
  <2>2. plan' \in Plans /\ plan'.record = read
    BY <2>1, PlanTyped
  <2>3. silent' \in BOOLEAN /\ troubles' \in Nat /\ spent' \in Nat
    BY <2>1, QuestionsCounted
  <2> QED BY <1>5, <2>2, <2>3 DEF MakePlan, Chosen, PlansLate
<1>6. CASE ApplyStep
  BY <1>6, ApplyTypes DEF Chosen, PlansLate
<1>7. CASE Finish \/ Refused \/ Fail
  <2>0. CASE Finish
    BY <1>0, <2>0, EmptyTyped DEF Finish, Ends, Chosen, PlansLate
  <2>2. CASE Refused
    BY <1>0, <2>2, EmptyTyped DEF Refused, Ends, Chosen, PlansLate
  <2>3. CASE Fail
    BY <1>0, <2>3, EmptyTyped DEF Fail, Ends, Chosen, PlansLate
  <2> QED BY <1>7, <2>0, <2>2, <2>3
<1>8. CASE CallFails
  <2>1. PICK d \in inflight, reached \in BOOLEAN :
       /\ inflight' = inflight \ {d}
       /\ unreachable' = IF reached THEN unreachable ELSE unreachable + 1
       /\ phase' = IF unreachable' >= Workers /\ read = {} THEN "idle" ELSE "extract"
       /\ quiet' = (quiet /\ phase' = "extract")
    BY <1>8 DEF CallFails
  <2>2. unreachable' \in Nat /\ phase' \in {"idle", "extract"} /\ quiet' \in BOOLEAN
    BY <2>1
  <2>3. TypeOK'
    BY <1>8, <2>1, <2>2 DEF CallFails
  <2>4. Chosen'
    BY <1>8, <2>1 DEF CallFails, Chosen
  <2>5. PlansLate'
    BY <1>8 DEF CallFails, PlansLate
  <2> QED BY <2>3, <2>4, <2>5
<1>9. CASE EditDoc
  <2>1. PICK d \in Docs, v \in Versions : docs' = Flip(docs, d, v)
                                          /\ graph' = IF v = 0 THEN WithoutDoc(graph, d) ELSE graph
    BY <1>9 DEF EditDoc
  <2>2. docs' \in [Docs -> Versions] /\ graph' \in Graphs
    BY <2>1, WithoutTyped DEF Flip
  <2>5. /\ UNCHANGED <<phase, snap, queue, inflight, read, empty, spent, unreachable, plan, silent, keySpent,
                       troubles, agentLinks, keySpents>>
        /\ edits' = edits + 1 /\ quiet' = FALSE
    BY <1>9 DEF EditDoc
  <2>6. edits' \in Nat
    BY <2>5
  <2>3. TypeOK'
    BY ONLY <2>2, <2>5, <2>6, TypeInv DEF TypeInv, TypeOK
  <2>4. Chosen' /\ PlansLate'
    BY <1>9 DEF EditDoc, Chosen, PlansLate
  <2> QED BY <2>3, <2>4
<1>10. CASE AgentLinks
  <2>1. PICK d \in Docs, t \in graph.topics : graph' = [graph EXCEPT !.foreign[d] = @ \cup {t}]
    BY <1>10 DEF AgentLinks
  <2>2. graph.foreign[d] \cup {t} \in SUBSET Names
    BY DEF Graphs
  <2>3. graph' \in Graphs
    BY <2>1, <2>2, GraphUpdates
  <2>6. /\ UNCHANGED <<docs, phase, snap, queue, inflight, read, empty, spent, unreachable, plan, silent, keySpent,
                       troubles, edits, keySpents>>
        /\ agentLinks' = agentLinks + 1 /\ quiet' = FALSE
    BY <1>10 DEF AgentLinks
  <2>7. agentLinks' \in Nat
    BY <2>6
  <2>4. TypeOK'
    BY ONLY <2>3, <2>6, <2>7, TypeInv DEF TypeInv, TypeOK
  <2>5. Chosen' /\ PlansLate'
    BY <1>10 DEF AgentLinks, Chosen, PlansLate
  <2> QED BY <2>4, <2>5
<1>11. CASE KeySpent \/ KeyRenewed
  <2>1. CASE KeySpent
    <3>1. TypeOK'
      BY <2>1 DEF KeySpent
    <3>2. Chosen' /\ PlansLate'
      BY <2>1 DEF KeySpent, Chosen, PlansLate
    <3> QED BY <3>1, <3>2
  <2>2. CASE KeyRenewed
    <3>1. TypeOK'
      BY <2>2 DEF KeyRenewed
    <3>2. Chosen' /\ PlansLate'
      BY <2>2 DEF KeyRenewed, Chosen, PlansLate
    <3> QED BY <3>1, <3>2
  <2> QED BY <1>11, <2>1, <2>2
<1>12. CASE UNCHANGED vars
  BY <1>12 DEF vars, Chosen, PlansLate
<1> QED BY <1>1, <1>2, <1>3, <1>4, <1>5, <1>6, <1>7, <1>8, <1>9, <1>10, <1>11, <1>12 DEF Next, PodStep

\* Every variable holds values of its kind: what a run of the distiller writes into the
\* graph, plans and counts is made of the documents and names it has read.
THEOREM TypeCorrect == Spec => []TypeOK
<1>1. Init => TypeInv
  BY TypeInit, SetsAssumption, BoundAssumption
<1>2. TypeInv /\ [Next]_vars => TypeInv'
  BY TypeStep, SetsAssumption, BoundAssumption
<1>3. TypeInv => TypeOK
  BY DEF TypeInv
<1> QED BY <1>1, <1>2, <1>3, PTL DEF Spec

-----------------------------------------------------------------------------
(* Spending. *)

\* What has been spent, with the dearest answers to what is in flight; and once the
\* extractions are over, with the questions they lead to.
SpendInv ==
  /\ Cardinality(inflight) <= Workers
  /\ phase # "apply" =>
       spent + Cardinality(inflight) * MaxCallCost < MaxSpend + Workers * MaxCallCost
  /\ phase = "apply" =>
       spent < MaxSpend + Workers * MaxCallCost + QuestionLimit * MaxQuestionCost

LEMMA InflightFinite ==
  ASSUME SetsAssumption, TypeInv
  PROVE  IsFiniteSet(inflight) /\ Cardinality(inflight) \in Nat
BY FS_Subset, FS_CardinalityType DEF TypeInv, TypeOK, SetsAssumption

\* The questions hang on the snapshot and on what was read.
LEMMA QuestionsStay ==
  ASSUME UNCHANGED <<snap, read, empty>>
  PROVE  QuestionLimit' = QuestionLimit
<1>1. Fresh(FALSE)' = Fresh(FALSE)
  BY DEF Fresh, Extraction, Known, Holders
<1>2. AliasQuestions' = AliasQuestions
  BY <1>1 DEF AliasQuestions, Known, Holders
<1> QED BY <1>1, <1>2 DEF QuestionLimit

LEMMA SpendStep ==
  ASSUME SetsAssumption, BoundAssumption, TypeInv, TypeInv', SpendInv, [Next]_vars
  PROVE  SpendInv'
<1> DEFINE n == Cardinality(inflight)
<1>a. /\ MaxSpend \in Nat \ {0} /\ MaxCallCost \in Nat \ {0} /\ Workers \in Nat \ {0}
      /\ spent \in Nat /\ spent' \in Nat
  BY DEF BoundAssumption, TypeInv, TypeOK
<1>b. n \in Nat /\ IsFiniteSet(inflight) /\ IsFiniteSet({}) /\ Cardinality({}) = 0
  BY InflightFinite, FS_EmptySet
<1>c. Workers * MaxCallCost \in Nat /\ n * MaxCallCost \in Nat /\ 0 * MaxCallCost = 0
  BY <1>a, <1>b, CallsCost
<1>0. /\ n <= Workers
      /\ phase # "apply" => spent + n * MaxCallCost < MaxSpend + Workers * MaxCallCost
      /\ phase = "apply" => spent < MaxSpend + Workers * MaxCallCost + QuestionLimit * MaxQuestionCost
  BY DEF SpendInv
<1> HIDE DEF n
\* A call that has ended leaves the others in flight.
<1>e. ASSUME NEW d \in inflight
      PROVE  /\ Cardinality(inflight \ {d}) = n - 1 /\ n - 1 \in Nat
             /\ (n - 1) * MaxCallCost + MaxCallCost = n * MaxCallCost
  <2>1. Cardinality(inflight \ {d}) = n - 1
    BY <1>b, <1>e, FS_RemoveElement DEF n
  <2>2. IsFiniteSet(inflight \ {d})
    BY <1>b, FS_Subset
  <2>3. n - 1 \in Nat
    BY <2>1, <2>2, FS_CardinalityType
  <2>4. ((n - 1) + 1) * MaxCallCost = (n - 1) * MaxCallCost + MaxCallCost
    BY <2>3, <1>a, CallsCost
  <2> QED BY <2>1, <2>3, <2>4, <1>b
<1>1. CASE Snapshot
  <2>1. inflight' = {} /\ spent' = 0 /\ phase' = "extract"
    BY <1>1 DEF Snapshot
  <2> QED BY <1>a, <1>b, <1>c, <2>1 DEF SpendInv
<1>2. CASE Submit
  <2>1. /\ n < Workers /\ spent < MaxSpend /\ spent' = spent /\ inflight' = inflight \cup {Least(queue)}
        /\ phase = "extract" /\ phase' = "extract"
    BY <1>2 DEF Submit, CanSubmit, n
  <2>2. Cardinality(inflight') \in {n, n + 1}
    BY <1>b, <2>1, FS_AddElement DEF n
  <2>3. (n + 1) * MaxCallCost <= Workers * MaxCallCost
    BY <1>a, <1>b, <2>1, CallsCost, n + 1 \in Nat, n + 1 <= Workers
  <2>4. (n + 1) * MaxCallCost \in Nat /\ n + 1 <= Workers
    BY <1>a, <1>b, <2>1, CallsCost, n + 1 \in Nat
  <2>5. CASE Cardinality(inflight') = n
    BY <1>0, <2>1, <2>5 DEF SpendInv
  <2>6. CASE Cardinality(inflight') = n + 1
    <3>1. spent' + (n + 1) * MaxCallCost < MaxSpend + Workers * MaxCallCost
      BY <1>a, <1>c, <2>1, <2>3, <2>4
    <3> QED BY <2>1, <2>4, <2>6, <3>1 DEF SpendInv
  <2> QED BY <2>2, <2>5, <2>6
<1>3. CASE Answer
  <2>1. PICK d \in inflight : /\ inflight' = inflight \ {d}
                              /\ IF Outcome(d) = "refused" THEN spent' = spent
                                 ELSE \E cost \in 1..MaxCallCost : spent' = spent + cost
                              /\ phase = "extract" /\ phase' = "extract"
    BY <1>3 DEF Answer
  <2>2. spent' <= spent + MaxCallCost
    BY <1>a, <2>1
  <2>3. Cardinality(inflight') = n - 1 /\ n - 1 \in Nat /\ (n - 1) * MaxCallCost + MaxCallCost = n * MaxCallCost
    BY <1>e, <2>1
  <2>4. (n - 1) * MaxCallCost \in Nat
    BY <1>a, <2>3, CallsCost
  <2>5. spent' + (n - 1) * MaxCallCost < MaxSpend + Workers * MaxCallCost
    BY <1>0, <1>a, <1>c, <2>1, <2>2, <2>3, <2>4
  <2>6. n - 1 <= Workers
    BY <1>0, <1>a, <1>b
  <2> QED BY <2>1, <2>3, <2>5, <2>6 DEF SpendInv
<1>4. CASE CallFails
  <2>1. PICK d \in inflight : /\ inflight' = inflight \ {d} /\ spent' = spent
                              /\ phase = "extract" /\ phase' \in {"idle", "extract"}
    BY <1>4 DEF CallFails
  <2>3. Cardinality(inflight') = n - 1 /\ n - 1 \in Nat /\ (n - 1) * MaxCallCost + MaxCallCost = n * MaxCallCost
    BY <1>e, <2>1
  <2>4. (n - 1) * MaxCallCost \in Nat
    BY <1>a, <2>3, CallsCost
  <2>5. spent' + (n - 1) * MaxCallCost < MaxSpend + Workers * MaxCallCost
    BY <1>0, <1>a, <1>c, <2>1, <2>3, <2>4
  <2>6. n - 1 <= Workers
    BY <1>0, <1>a, <1>b
  <2> QED BY <2>1, <2>3, <2>5, <2>6 DEF SpendInv
<1>5. CASE Finish \/ Refused \/ Fail
  <2>1. inflight' = {} /\ spent' = 0 /\ phase' = "idle"
    BY <1>5 DEF Finish, Refused, Fail, Ends
  <2> QED BY <1>a, <1>b, <1>c, <2>1 DEF SpendInv
<1>6. CASE MakePlan
  <2>1. PICK judged \in BOOLEAN : \E cost \in 0..(MostAsked(judged) * MaxQuestionCost) : spent' = spent + cost
    BY <1>6 DEF MakePlan
  <2>2. PICK cost \in 0..(MostAsked(judged) * MaxQuestionCost) : spent' = spent + cost
    BY <2>1
  <2>3. cost \in Nat /\ cost <= QuestionLimit * MaxQuestionCost /\ QuestionLimit * MaxQuestionCost \in Nat
    BY <2>2, QuestionsCounted, CallsCost DEF BoundAssumption
  <2>4. /\ inflight = {} /\ phase = "extract" /\ phase' = "apply"
        /\ UNCHANGED <<inflight, snap, read, empty>>
    BY <1>6 DEF MakePlan
  <2>5. n = 0
    BY <1>b, <2>4 DEF n
  <2>6. spent < MaxSpend + Workers * MaxCallCost
    BY <1>0, <1>a, <1>c, <2>4, <2>5
  <2>7. spent' < MaxSpend + Workers * MaxCallCost + QuestionLimit * MaxQuestionCost
    BY <1>a, <1>c, <2>2, <2>3, <2>6
  <2>8. QuestionLimit' = QuestionLimit
    BY <2>4, QuestionsStay
  <2> QED BY <1>0, <2>4, <2>7, <2>8 DEF SpendInv, n
<1>7. CASE UNCHANGED <<phase, inflight, spent, snap, read, empty>>
  BY <1>7, QuestionsStay DEF SpendInv
<1>8. CASE ApplyStep
  BY <1>7, <1>8, ApplyTypes DEF runVars
<1>9. CASE RefuseNothingVisible \/ EditDoc \/ AgentLinks \/ KeySpent \/ KeyRenewed \/ UNCHANGED vars
  BY <1>7, <1>9 DEF RefuseNothingVisible, EditDoc, AgentLinks, KeySpent, KeyRenewed, vars, runVars
<1> QED BY <1>1, <1>2, <1>3, <1>4, <1>5, <1>6, <1>8, <1>9 DEF Next, PodStep

\* A run overshoots its spend limit by less than one dearest extraction for every worker,
\* which is paid after the limit was compared, and then by the questions whether two names
\* are one topic, before which nothing is compared: one for every alias that an extracted
\* name matches, MERGE_CANDIDATES for every new name, and MAX_ALIAS_QUESTIONS.
THEOREM SpendCapped == Spec => []SpendBounded
<1>1. Init => TypeInv /\ SpendInv
  <2>1. ASSUME Init PROVE SpendInv
    <3>1. /\ inflight = {} /\ spent = 0 /\ Cardinality({}) = 0 /\ phase = "idle"
          /\ MaxSpend \in Nat \ {0} /\ MaxCallCost \in Nat \ {0} /\ Workers \in Nat \ {0}
      BY <2>1, FS_EmptySet, BoundAssumption DEF Init, BoundAssumption
    <3>2. Workers * MaxCallCost \in Nat /\ 0 * MaxCallCost = 0
      BY <3>1, CallsCost
    <3> QED BY <3>1, <3>2 DEF SpendInv
  <2> QED BY <2>1, TypeInit, SetsAssumption, BoundAssumption
<1>2. TypeInv /\ SpendInv /\ [Next]_vars => TypeInv' /\ SpendInv'
  BY TypeStep, SpendStep, SetsAssumption, BoundAssumption
<1>3. TypeInv /\ SpendInv => SpendBounded
  <2> SUFFICES ASSUME TypeInv, SpendInv PROVE SpendBounded
    OBVIOUS
  <2>1. /\ spent \in Nat /\ MaxSpend \in Nat /\ Workers \in Nat /\ MaxCallCost \in Nat
        /\ Cardinality(inflight) \in Nat
    BY InflightFinite, SetsAssumption, BoundAssumption DEF TypeInv, TypeOK, BoundAssumption
  <2>2. Cardinality(inflight) * MaxCallCost \in Nat /\ Workers * MaxCallCost \in Nat
    BY <2>1, CallsCost
  <2> QED BY <2>1, <2>2 DEF SpendInv, SpendBounded
<1> QED BY <1>1, <1>2, <1>3, PTL DEF Spec

-----------------------------------------------------------------------------
(* What an apply step does to the graph and to the plan, part by part. *)

LEMMA UnlinkIs ==
  ASSUME TypeInv, Unlink
  PROVE  \E e \in plan.unlink :
           /\ e[1] \in Docs /\ e[2] \in Names
           /\ \A d \in Docs : graph'.owned[d] = IF d = e[1] THEN graph.owned[d] \ {e[2]} ELSE graph.owned[d]
           /\ UNCHANGED <<graph.topics, graph.aliases, graph.foreign, graph.related, graph.rows>>
           /\ plan'.unlink = plan.unlink \ {e}
           /\ UNCHANGED <<plan.unrelate, plan.drop, plan.forget, plan.topics, plan.aliases, plan.link, plan.relate, plan.count, plan.record>>
<1>0. graph \in Graphs /\ plan \in Plans
  BY DEF TypeInv, TypeOK
<1>1. PICK e \in plan.unlink :
        /\ graph' = [graph EXCEPT !.owned[e[1]] = @ \ {e[2]}]
        /\ plan' = [plan EXCEPT !.unlink = @ \ {e}]
  BY DEF Unlink
<1>2. e[1] \in Docs /\ e[2] \in Names
  BY <1>0, <1>1 DEF Plans
<1>3. /\ \A d \in Docs : graph'.owned[d] = IF d = e[1] THEN graph.owned[d] \ {e[2]} ELSE graph.owned[d]
      /\ UNCHANGED <<graph.topics, graph.aliases, graph.foreign, graph.related, graph.rows>>
  BY ONLY <1>0, <1>1, <1>2 DEF Graphs
<1>4. /\ plan'.unlink = plan.unlink \ {e}
      /\ UNCHANGED <<plan.unrelate, plan.drop, plan.forget, plan.topics, plan.aliases, plan.link, plan.relate, plan.count, plan.record>>
  BY ONLY <1>0, <1>1 DEF Plans
<1> QED BY <1>1, <1>2, <1>3, <1>4

LEMMA UnrelatedIs ==
  ASSUME TypeInv, Unrelated
  PROVE  /\ plan.unlink = {}
         /\ \A p \in Pairs : graph'.related[p] = IF p \in plan.unrelate THEN 0 ELSE graph.related[p]
         /\ UNCHANGED <<graph.topics, graph.aliases, graph.owned, graph.foreign, graph.rows>>
         /\ plan'.unrelate = {}
         /\ UNCHANGED <<plan.unlink, plan.drop, plan.forget, plan.topics, plan.aliases, plan.link, plan.relate, plan.count, plan.record>>
<1>0. graph \in Graphs /\ plan \in Plans
  BY DEF TypeInv, TypeOK
<1>1. /\ graph' = [graph EXCEPT !.related =
                     [p \in Pairs |-> IF p \in plan.unrelate THEN 0 ELSE @[p]]]
      /\ plan' = [plan EXCEPT !.unrelate = {}]
  BY DEF Unrelated
<1>2. plan.unlink = {}
  BY <1>0, <1>1 DEF Unrelated
<1>3. /\ \A p \in Pairs : graph'.related[p] = IF p \in plan.unrelate THEN 0 ELSE graph.related[p]
      /\ UNCHANGED <<graph.topics, graph.aliases, graph.owned, graph.foreign, graph.rows>>
  BY ONLY <1>0, <1>1, <1>2 DEF Graphs
<1>4. /\ plan'.unrelate = {}
      /\ UNCHANGED <<plan.unlink, plan.drop, plan.forget, plan.topics, plan.aliases, plan.link, plan.relate, plan.count, plan.record>>
  BY ONLY <1>0, <1>1 DEF Plans
<1> QED BY <1>1, <1>2, <1>3, <1>4

LEMMA DropIs ==
  ASSUME TypeInv, Drop
  PROVE  \E t \in plan.drop :
           /\ t \in Names /\ plan.unlink = {} /\ plan.unrelate = {}
           /\ graph'.topics = graph.topics \ {t}
           /\ \A n \in Names : graph'.aliases[n] = IF n = t THEN {} ELSE graph.aliases[n]
           /\ \A d \in Docs : graph'.owned[d] = graph.owned[d] \ {t} /\ graph'.foreign[d] = graph.foreign[d] \ {t}
           /\ \A p \in Pairs : graph'.related[p] = IF t \in {p[1], p[2]} THEN 0 ELSE graph.related[p]
           /\ UNCHANGED <<graph.rows>>
           /\ plan'.drop = plan.drop \ {t}
           /\ UNCHANGED <<plan.unlink, plan.unrelate, plan.forget, plan.topics, plan.aliases, plan.link, plan.relate, plan.count, plan.record>>
<1>0. graph \in Graphs /\ plan \in Plans
  BY DEF TypeInv, TypeOK
<1>1. PICK t \in plan.drop :
        /\ graph' = WithoutTopic(graph, t)
        /\ plan' = [plan EXCEPT !.drop = @ \ {t}]
  BY DEF Drop
<1>2. t \in Names /\ plan.unlink = {} /\ plan.unrelate = {}
  BY <1>0, <1>1 DEF Drop, Plans
<1>3. /\ graph'.topics = graph.topics \ {t}
      /\ \A n \in Names : graph'.aliases[n] = IF n = t THEN {} ELSE graph.aliases[n]
      /\ \A d \in Docs : graph'.owned[d] = graph.owned[d] \ {t} /\ graph'.foreign[d] = graph.foreign[d] \ {t}
      /\ \A p \in Pairs : graph'.related[p] = IF t \in {p[1], p[2]} THEN 0 ELSE graph.related[p]
      /\ UNCHANGED <<graph.rows>>
  BY ONLY <1>0, <1>1, <1>2 DEF WithoutTopic, Flip, Graphs
<1>4. /\ plan'.drop = plan.drop \ {t}
      /\ UNCHANGED <<plan.unlink, plan.unrelate, plan.forget, plan.topics, plan.aliases, plan.link, plan.relate, plan.count, plan.record>>
  BY ONLY <1>0, <1>1 DEF Plans
<1> QED BY <1>1, <1>2, <1>3, <1>4

LEMMA ForgetIs ==
  ASSUME TypeInv, Forget
  PROVE  /\ Pruned
         /\ \A d \in Docs : graph'.rows[d] = IF d \in plan.forget THEN 0 ELSE graph.rows[d]
         /\ UNCHANGED <<graph.topics, graph.aliases, graph.owned, graph.foreign, graph.related>>
         /\ plan'.forget = {}
         /\ UNCHANGED <<plan.unlink, plan.unrelate, plan.drop, plan.topics, plan.aliases, plan.link, plan.relate, plan.count, plan.record>>
<1>0. graph \in Graphs /\ plan \in Plans
  BY DEF TypeInv, TypeOK
<1>1. /\ graph' = [graph EXCEPT !.rows = [d \in Docs |-> IF d \in plan.forget THEN 0 ELSE @[d]]]
      /\ plan' = [plan EXCEPT !.forget = {}]
  BY DEF Forget
<1>2. Pruned
  BY <1>0, <1>1 DEF Forget
<1>3. /\ \A d \in Docs : graph'.rows[d] = IF d \in plan.forget THEN 0 ELSE graph.rows[d]
      /\ UNCHANGED <<graph.topics, graph.aliases, graph.owned, graph.foreign, graph.related>>
  BY ONLY <1>0, <1>1, <1>2 DEF Graphs
<1>4. /\ plan'.forget = {}
      /\ UNCHANGED <<plan.unlink, plan.unrelate, plan.drop, plan.topics, plan.aliases, plan.link, plan.relate, plan.count, plan.record>>
  BY ONLY <1>0, <1>1 DEF Plans
<1> QED BY <1>1, <1>2, <1>3, <1>4

LEMMA LoadTopicIs ==
  ASSUME TypeInv, LoadTopic
  PROVE  \E t \in plan.topics :
           /\ t \in Names /\ Pruned /\ plan.forget = {}
           /\ graph'.topics = graph.topics \cup {t}
           /\ \A n \in Names : graph'.aliases[n] = IF n = t THEN plan.aliases[n] ELSE graph.aliases[n]
           /\ UNCHANGED <<graph.owned, graph.foreign, graph.related, graph.rows>>
           /\ plan'.topics = plan.topics \ {t}
           /\ UNCHANGED <<plan.unlink, plan.unrelate, plan.drop, plan.forget, plan.aliases, plan.link, plan.relate, plan.count, plan.record>>
<1>0. graph \in Graphs /\ plan \in Plans
  BY DEF TypeInv, TypeOK
<1>1. PICK t \in plan.topics :
        /\ graph' = [graph EXCEPT !.topics = @ \cup {t}, !.aliases[t] = plan.aliases[t]]
        /\ plan' = [plan EXCEPT !.topics = @ \ {t}]
  BY DEF LoadTopic
<1>2. t \in Names /\ Pruned /\ plan.forget = {}
  BY <1>0, <1>1 DEF LoadTopic, Plans
<1>3. /\ graph'.topics = graph.topics \cup {t}
      /\ \A n \in Names : graph'.aliases[n] = IF n = t THEN plan.aliases[n] ELSE graph.aliases[n]
      /\ UNCHANGED <<graph.owned, graph.foreign, graph.related, graph.rows>>
  BY ONLY <1>0, <1>1, <1>2 DEF Graphs
<1>4. /\ plan'.topics = plan.topics \ {t}
      /\ UNCHANGED <<plan.unlink, plan.unrelate, plan.drop, plan.forget, plan.aliases, plan.link, plan.relate, plan.count, plan.record>>
  BY ONLY <1>0, <1>1 DEF Plans
<1> QED BY <1>1, <1>2, <1>3, <1>4

LEMMA LoadLinkIs ==
  ASSUME TypeInv, LoadLink
  PROVE  \E e \in plan.link :
           /\ e[1] \in Docs /\ e[2] \in Names /\ e[2] \in graph.topics /\ docs[e[1]] # 0 /\ NodesLoaded
           /\ \A d \in Docs : graph'.owned[d] = IF d = e[1] THEN graph.owned[d] \cup {e[2]} ELSE graph.owned[d]
           /\ UNCHANGED <<graph.topics, graph.aliases, graph.foreign, graph.related, graph.rows>>
           /\ plan'.link = plan.link \ {e}
           /\ UNCHANGED <<plan.unlink, plan.unrelate, plan.drop, plan.forget, plan.topics, plan.aliases, plan.relate, plan.count, plan.record>>
<1>0. graph \in Graphs /\ plan \in Plans
  BY DEF TypeInv, TypeOK
<1>1. PICK e \in plan.link :
        /\ graph' = [graph EXCEPT !.owned[e[1]] = @ \cup {e[2]}]
        /\ plan' = [plan EXCEPT !.link = @ \ {e}]
  BY DEF LoadLink
<1>2. e[1] \in Docs /\ e[2] \in Names /\ e[2] \in graph.topics /\ docs[e[1]] # 0 /\ NodesLoaded
  BY <1>0, <1>1 DEF LoadLink, Plans, CanLink
<1>3. /\ \A d \in Docs : graph'.owned[d] = IF d = e[1] THEN graph.owned[d] \cup {e[2]} ELSE graph.owned[d]
      /\ UNCHANGED <<graph.topics, graph.aliases, graph.foreign, graph.related, graph.rows>>
  BY ONLY <1>0, <1>1, <1>2 DEF Graphs
<1>4. /\ plan'.link = plan.link \ {e}
      /\ UNCHANGED <<plan.unlink, plan.unrelate, plan.drop, plan.forget, plan.topics, plan.aliases, plan.relate, plan.count, plan.record>>
  BY ONLY <1>0, <1>1 DEF Plans
<1> QED BY <1>1, <1>2, <1>3, <1>4

LEMMA LoadRelatedIs ==
  ASSUME TypeInv, LoadRelated
  PROVE  /\ NodesLoaded /\ plan.link = {} /\ \A p \in plan.relate : {p[1], p[2]} \subseteq graph.topics
         /\ \A p \in Pairs : graph'.related[p] = IF p \in plan.relate THEN plan.count[p] ELSE graph.related[p]
         /\ UNCHANGED <<graph.topics, graph.aliases, graph.owned, graph.foreign, graph.rows>>
         /\ plan'.relate = {}
         /\ UNCHANGED <<plan.unlink, plan.unrelate, plan.drop, plan.forget, plan.topics, plan.aliases, plan.link, plan.count, plan.record>>
<1>0. graph \in Graphs /\ plan \in Plans
  BY DEF TypeInv, TypeOK
<1>1. /\ graph' = [graph EXCEPT !.related =
                     [p \in Pairs |-> IF p \in plan.relate THEN plan.count[p] ELSE @[p]]]
      /\ plan' = [plan EXCEPT !.relate = {}]
  BY DEF LoadRelated
<1>2. NodesLoaded /\ plan.link = {} /\ \A p \in plan.relate : {p[1], p[2]} \subseteq graph.topics
  BY <1>0, <1>1 DEF LoadRelated, CanRelate
<1>3. /\ \A p \in Pairs : graph'.related[p] = IF p \in plan.relate THEN plan.count[p] ELSE graph.related[p]
      /\ UNCHANGED <<graph.topics, graph.aliases, graph.owned, graph.foreign, graph.rows>>
  BY ONLY <1>0, <1>1, <1>2 DEF Graphs
<1>4. /\ plan'.relate = {}
      /\ UNCHANGED <<plan.unlink, plan.unrelate, plan.drop, plan.forget, plan.topics, plan.aliases, plan.link, plan.count, plan.record>>
  BY ONLY <1>0, <1>1 DEF Plans
<1> QED BY <1>1, <1>2, <1>3, <1>4

LEMMA RecordIs ==
  ASSUME TypeInv, Record
  PROVE  \E d \in plan.record :
           /\ d \in Docs /\ EdgesLoaded
           /\ \A f \in Docs : graph'.rows[f] = IF f = d THEN snap.docs[d] ELSE graph.rows[f]
           /\ UNCHANGED <<graph.topics, graph.aliases, graph.owned, graph.foreign, graph.related>>
           /\ plan'.record = plan.record \ {d}
           /\ UNCHANGED <<plan.unlink, plan.unrelate, plan.drop, plan.forget, plan.topics, plan.aliases, plan.link, plan.relate, plan.count>>
<1>0. graph \in Graphs /\ plan \in Plans
  BY DEF TypeInv, TypeOK
<1>1. PICK d \in plan.record :
        /\ graph' = [graph EXCEPT !.rows[d] = snap.docs[d]]
        /\ plan' = [plan EXCEPT !.record = @ \ {d}]
  BY DEF Record
<1>2. d \in Docs /\ EdgesLoaded
  BY <1>0, <1>1 DEF Record, Plans
<1>3. /\ \A f \in Docs : graph'.rows[f] = IF f = d THEN snap.docs[d] ELSE graph.rows[f]
      /\ UNCHANGED <<graph.topics, graph.aliases, graph.owned, graph.foreign, graph.related>>
  BY ONLY <1>0, <1>1, <1>2 DEF Graphs
<1>4. /\ plan'.record = plan.record \ {d}
      /\ UNCHANGED <<plan.unlink, plan.unrelate, plan.drop, plan.forget, plan.topics, plan.aliases, plan.link, plan.relate, plan.count>>
  BY ONLY <1>0, <1>1 DEF Plans
<1> QED BY <1>1, <1>2, <1>3, <1>4

-----------------------------------------------------------------------------
(* Links of others. *)

\* No topic that somebody else's link of the snapshot names is to be dropped.
DropInv == \A d \in Docs : plan.drop \cap snap.graph.foreign[d] = {}

LEMMA ReferencedStay ==
  ASSUME NEW judged \in BOOLEAN, NEW d \in Docs
  PROVE  LinksAfter(d, judged) \cap Doomed(judged) = {}
BY DEF Doomed, Referenced

\* The steps that leave the snapshot and the plan alone.
Bystanding ==
  RefuseNothingVisible \/ Submit \/ Answer \/ EditDoc \/ AgentLinks \/ KeySpent \/ KeyRenewed \/ UNCHANGED vars

\* The steps after which there is no plan.
Ending == Finish \/ Refused \/ Fail

LEMMA NextCases ==
  [Next]_vars => Bystanding \/ Ending \/ Snapshot \/ CallFails \/ MakePlan \/ ApplyStep
BY DEF Next, PodStep, Bystanding, Ending

LEMMA Bystanders ==
  Bystanding => UNCHANGED <<snap, plan, phase>>
BY DEF Bystanding, RefuseNothingVisible, Submit, Answer, EditDoc, AgentLinks, KeySpent, KeyRenewed, vars, runVars

LEMMA Endings ==
  Ending => /\ UNCHANGED <<docs, graph, snap, silent, keySpent>>
            /\ plan' = NoPlan /\ phase' = "idle" /\ read' = {} /\ empty' = {}
BY DEF Ending, Finish, Refused, Fail, Ends

LEMMA NothingPlanned ==
  /\ NoPlan.unlink = {} /\ NoPlan.unrelate = {} /\ NoPlan.drop = {} /\ NoPlan.forget = {}
  /\ NoPlan.topics = {} /\ NoPlan.link = {} /\ NoPlan.relate = {} /\ NoPlan.record = {}
  /\ NoPlan.aliases = [n \in Names |-> {}]
BY DEF NoPlan

\* An apply step takes work from the plan and adds none.
LEMMA PlanShrinks ==
  ASSUME TypeInv, ApplyStep
  PROVE  /\ plan'.drop \subseteq plan.drop /\ plan'.topics \subseteq plan.topics
         /\ plan'.aliases = plan.aliases /\ UNCHANGED <<snap, phase, read>> /\ phase = "apply"
<1>1. UNCHANGED <<snap, phase, read>> /\ phase = "apply"
  BY DEF ApplyStep, Unlink, Unrelated, Drop, Forget, LoadTopic, LoadLink, LoadRelated, Record, runVars
<1>2. CASE Unlink
  BY <1>1, <1>2, UnlinkIs
<1>3. CASE Unrelated
  BY <1>1, <1>3, UnrelatedIs
<1>4. CASE Drop
  BY <1>1, <1>4, DropIs
<1>5. CASE Forget
  BY <1>1, <1>5, ForgetIs
<1>6. CASE LoadTopic
  BY <1>1, <1>6, LoadTopicIs
<1>7. CASE LoadLink
  BY <1>1, <1>7, LoadLinkIs
<1>8. CASE LoadRelated
  BY <1>1, <1>8, LoadRelatedIs
<1>9. CASE Record
  BY <1>1, <1>9, RecordIs
<1> QED BY <1>2, <1>3, <1>4, <1>5, <1>6, <1>7, <1>8, <1>9 DEF ApplyStep

LEMMA DropStep ==
  ASSUME TypeInv, DropInv, [Next]_vars
  PROVE  DropInv'
<1>1. CASE Bystanding
  BY <1>1, Bystanders DEF DropInv
<1>2. CASE Ending
  BY <1>2, Endings, NothingPlanned DEF DropInv
<1>3. CASE Snapshot \/ CallFails
  <2>1. plan' = NoPlan
    BY <1>3 DEF Snapshot, CallFails, TypeInv, PlansLate
  <2> QED BY <2>1, NothingPlanned DEF DropInv
<1>4. CASE MakePlan
  <2>1. PICK judged \in BOOLEAN : plan' = PlanOf(judged) /\ snap' = snap
    BY <1>4 DEF MakePlan, runVars
  <2>2. plan'.drop = Known \cap Doomed(judged)
    BY <2>1 DEF PlanOf
  <2>3. \A d \in Docs : snap.graph.foreign[d] \subseteq LinksAfter(d, judged)
    BY DEF LinksAfter
  <2> QED BY <2>1, <2>2, <2>3, ReferencedStay DEF DropInv
<1>5. CASE ApplyStep
  BY <1>5, PlanShrinks DEF DropInv
<1> QED BY <1>1, <1>2, <1>3, <1>4, <1>5, NextCases

\* Only a drop takes a link of somebody else, when neither a document nor an agent moves.
LEMMA ForeignTaken ==
  ASSUME TypeInv, DropInv, [Next]_vars, ~UNCHANGED graph, UNCHANGED <<docs, agentLinks>>, NEW d \in Docs
  PROVE  (graph.foreign[d] \cap snap.graph.foreign[d]) \subseteq graph'.foreign[d]
<1>1. CASE Drop
  <2>1. PICK t \in plan.drop : \A f \in Docs : graph'.foreign[f] = graph.foreign[f] \ {t}
    BY <1>1, DropIs
  <2> QED BY <2>1 DEF DropInv
<1>2. CASE UNCHANGED graph.foreign
  BY <1>2
<1>3. CASE Unlink
  BY <1>2, <1>3, UnlinkIs
<1>4. CASE Unrelated
  BY <1>2, <1>4, UnrelatedIs
<1>5. CASE Forget
  BY <1>2, <1>5, ForgetIs
<1>6. CASE LoadTopic
  BY <1>2, <1>6, LoadTopicIs
<1>7. CASE LoadLink
  BY <1>2, <1>7, LoadLinkIs
<1>8. CASE LoadRelated
  BY <1>2, <1>8, LoadRelatedIs
<1>9. CASE Record
  BY <1>2, <1>9, RecordIs
<1>10. CASE AgentLinks
  <2>1. agentLinks' = agentLinks + 1 /\ agentLinks \in Nat
    BY <1>10 DEF AgentLinks, TypeInv, TypeOK
  <2> QED BY <2>1
<1>11. CASE EditDoc
  <2>1. PICK f \in Docs, v \in Versions : v # docs[f] /\ docs' = [docs EXCEPT ![f] = v]
    BY <1>11 DEF EditDoc, Flip
  <2>2. docs'[f] = v /\ docs[f] # v
    BY <2>1 DEF TypeInv, TypeOK
  <2> QED BY <2>2
<1>12. CASE Bystanding /\ ~EditDoc /\ ~AgentLinks
  BY <1>12 DEF Bystanding, RefuseNothingVisible, Submit, Answer, KeySpent, KeyRenewed, vars
<1>13. CASE Ending \/ Snapshot \/ CallFails \/ MakePlan
  BY <1>13, Endings DEF Snapshot, CallFails, MakePlan
<1> QED BY <1>1, <1>3, <1>4, <1>5, <1>6, <1>7, <1>8, <1>9, <1>10, <1>11, <1>12, <1>13, NextCases DEF ApplyStep

\* No step of a pod takes a link of a person or an agent that its snapshot has seen:
\* a topic that such a link names is referenced, and stays.
THEOREM ForeignLinksKept == Spec => KeepsForeignLinks
<1>1. Init => TypeInv /\ DropInv
  <2>1. Init => DropInv
    BY NothingPlanned DEF Init, DropInv
  <2> QED BY <2>1, TypeInit, SetsAssumption, BoundAssumption
<1>2. TypeInv /\ DropInv /\ [Next]_vars => TypeInv' /\ DropInv'
  BY TypeStep, DropStep, SetsAssumption, BoundAssumption
<1>3. TypeInv /\ DropInv /\ [Next]_vars =>
        [(~UNCHANGED graph /\ UNCHANGED <<docs, agentLinks>>) =>
            \A d \in Docs : (graph.foreign[d] \cap snap.graph.foreign[d]) \subseteq graph'.foreign[d]]_vars
  BY ForeignTaken
<1> QED BY <1>1, <1>2, <1>3, PTL DEF Spec, KeepsForeignLinks

-----------------------------------------------------------------------------
(* Topics. *)

AliasesTrue(aliases) == \A t \in Names : \A n \in aliases[t] : Concept[n] = Concept[t]

LinksEndInTopics(g) == \A d \in Docs : Linked(g, d) \subseteq g.topics

GraphInv ==
  /\ AliasesTrue(graph.aliases) /\ AliasesTrue(plan.aliases) /\ AliasesTrue(snap.graph.aliases)
  /\ LinksEndInTopics(graph) /\ LinksEndInTopics(snap.graph)
  /\ phase = "extract" => graph.topics = snap.graph.topics

\* No two topics, of the graph or about to be loaded, mean the same.
UniqueInv ==
  ~silent => \A s, t \in graph.topics \cup plan.topics : Concept[s] = Concept[t] => s = t

\* A name leads to a topic of its own concept.
LEMMA CanonicalMeans ==
  ASSUME SetsAssumption, TypeInv, AliasesTrue(snap.graph.aliases), NEW judged \in BOOLEAN, NEW n \in Texts
  PROVE  Concept[Canonical(n, judged)] = Concept[n]
<1> USE TextsAreNames, KnownAreNames, FreshAreTexts
<1>1. CASE n \in Known
  BY <1>1 DEF Canonical
<1>2. CASE n \notin Known /\ judged /\ Holders(n) # {}
  <2>1. Holders(n) \subseteq Known
    BY DEF Holders
  <2>2. Least(Holders(n)) \in Holders(n)
    BY <1>2, <2>1, LeastIn
  <2>3. n \in snap.graph.aliases[Least(Holders(n))] /\ Least(Holders(n)) \in Names
    BY <2>1, <2>2 DEF Holders
  <2>4. Concept[n] = Concept[Least(Holders(n))]
    BY <2>3 DEF AliasesTrue
  <2> QED BY <1>2, <2>4 DEF Canonical
<1>3. CASE n \notin Known /\ ~(judged /\ Holders(n) # {})
  <2> DEFINE T == Twins(n, judged)
  <2>0. Canonical(n, judged) = IF T = {} THEN n
                               ELSE IF T \cap Known # {} THEN Least(T \cap Known) ELSE Least(T)
    BY <1>3 DEF Canonical
  <2>1. T \subseteq Nat /\ \A t \in T : Concept[t] = Concept[n]
    BY DEF Twins
  <2> HIDE DEF T
  <2>4. T \cap Known # {} => Least(T \cap Known) \in T
    BY <2>1, LeastIn
  <2>5. T # {} => Least(T) \in T
    BY <2>1, LeastIn
  <2> QED BY <2>0, <2>1, <2>4, <2>5
<1> QED BY <1>1, <1>2, <1>3

\* A new name that becomes a topic is the first of its concept.
LEMMA NewIsFirst ==
  ASSUME SetsAssumption, TypeInv, NEW n \in Texts, NEW t, t = Canonical(n, TRUE), t \notin Known
  PROVE  t \in Fresh(TRUE) /\ Twins(t, TRUE) = {}
<1> USE TextsAreNames, KnownAreNames, FreshAreTexts
<1>0. t \in Fresh(TRUE) /\ Fresh(TRUE) \subseteq Nat
  BY CanonicalIs
<1>1. n \notin Known
  BY DEF Canonical
<1>2. Holders(n) = {}
  <2>1. ASSUME Holders(n) # {} PROVE FALSE
    <3>1. Holders(n) \subseteq Known
      BY DEF Holders
    <3>2. Least(Holders(n)) \in Holders(n)
      BY <2>1, <3>1, LeastIn
    <3> QED BY <1>1, <2>1, <3>1, <3>2 DEF Canonical
  <2> QED BY <2>1
<1> DEFINE T == Twins(n, TRUE)
<1>3. t = IF T = {} THEN n ELSE IF T \cap Known # {} THEN Least(T \cap Known) ELSE Least(T)
  BY <1>1, <1>2 DEF Canonical
<1>4. T = {s \in Known \cup {m \in Fresh(TRUE) : m < n} : Concept[s] = Concept[n]} /\ T \subseteq Nat
  BY DEF Twins
<1>5. Twins(t, TRUE) = {s \in Known \cup {m \in Fresh(TRUE) : m < t} : Concept[s] = Concept[t]}
  BY DEF Twins
<1> HIDE DEF T
<1>6. CASE T = {}
  BY <1>0, <1>3, <1>4, <1>5, <1>6
<1>7. CASE T # {}
  <2>1. T \cap Known = {}
    <3>1. ASSUME T \cap Known # {} PROVE FALSE
      <4>1. Least(T \cap Known) \in T \cap Known
        BY <1>4, <3>1, LeastIn
      <4> QED BY <1>3, <1>7, <3>1, <4>1
    <3> QED BY <3>1
  <2>2. t \in T /\ \A m \in T : t <= m
    <3>1. t = Least(T)
      BY <1>3, <1>7, <2>1
    <3>2. T \subseteq Nat
      BY <1>4
    <3> QED BY ONLY <1>7, <3>1, <3>2, LeastIn
  <2>3. t < n /\ Concept[t] = Concept[n] /\ n \in Nat /\ t \in Nat
    BY <1>4, <2>1, <2>2
  <2>4. ASSUME NEW s \in Twins(t, TRUE) PROVE FALSE
    <3>1. Concept[s] = Concept[n] /\ (s \in Known \/ (s \in Fresh(TRUE) /\ s < t))
      BY <1>5, <2>3, <2>4
    <3>2. s \in Nat
      BY <1>0, <3>1
    <3>3. CASE s \in Known
      <4>1. s \in T
        BY <1>4, <3>1, <3>3
      <4> QED BY <2>1, <3>3, <4>1
    <3>4. CASE s \in Fresh(TRUE) /\ s < t
      <4>1. s < n
        BY ONLY <2>3, <3>2, <3>4
      <4>2. s \in T
        BY ONLY <1>4, <3>1, <3>4, <4>1
      <4>3. t <= s
        BY <2>2, <4>2
      <4> QED BY ONLY <2>3, <3>2, <3>4, <4>3
    <3> QED BY <3>1, <3>3, <3>4
  <2> QED BY <1>0, <2>4
<1> QED BY <1>6, <1>7

LEMMA NewAliasesMean ==
  ASSUME SetsAssumption, TypeInv, AliasesTrue(snap.graph.aliases), NEW judged \in BOOLEAN, NEW t \in Names,
         NEW n \in NewAliases(t, judged)
  PROVE  Concept[n] = Concept[t]
<1>1. n \in (IF t \in Known THEN snap.graph.aliases[t] ELSE {})
      \/ (n \in Fresh(judged) /\ Canonical(n, judged) = t)
  BY DEF NewAliases
<1>2. CASE n \in (IF t \in Known THEN snap.graph.aliases[t] ELSE {})
  BY <1>2 DEF AliasesTrue
<1>3. CASE n \in Fresh(judged) /\ Canonical(n, judged) = t
  BY <1>3, FreshAreTexts, CanonicalMeans
<1> QED BY <1>1, <1>2, <1>3

\* A topic to be loaded is of the graph, or the first of its concept.
LEMMA PlannedTopics ==
  ASSUME SetsAssumption, TypeInv, LinksEndInTopics(snap.graph), NEW judged \in BOOLEAN,
         NEW t \in PlanOf(judged).topics, t \notin Known
  PROVE  t \in Fresh(judged) /\ \E n \in Texts : t = Canonical(n, judged)
<1>1. t \in Fresh(judged) /\ t \in Referenced(judged)
  BY DEF PlanOf, Doomed
<1>2. PICK d \in Docs : t \in OwnedAfter(d, judged) \/ t \in snap.graph.foreign[d]
  BY <1>1 DEF Referenced, LinksAfter
<1>3. snap.graph.owned[d] \cup snap.graph.foreign[d] \subseteq Known
  BY DEF LinksEndInTopics, Linked, Known
<1>4. d \in read /\ t \in Wanted(d, judged)
  BY <1>2, <1>3 DEF OwnedAfter
<1>5. \E n \in Extraction(d) : t = Canonical(n, judged)
  BY <1>4 DEF Wanted
<1> QED BY <1>1, <1>4, <1>5 DEF Texts

LEMMA PlanUnique ==
  ASSUME SetsAssumption, TypeInv, LinksEndInTopics(snap.graph), graph.topics = Known,
         \A s, t \in graph.topics : Concept[s] = Concept[t] => s = t
  PROVE  \A s, t \in graph.topics \cup PlanOf(TRUE).topics : Concept[s] = Concept[t] => s = t
<1> DEFINE P == PlanOf(TRUE).topics
<1>0. P \subseteq Known \cup Fresh(TRUE) /\ Known \subseteq Nat /\ Fresh(TRUE) \subseteq Nat
  BY KnownAreNames, FreshAreTexts, TextsAreNames DEF PlanOf
<1>1. ASSUME NEW t \in P, t \notin Known PROVE t \in Fresh(TRUE) /\ Twins(t, TRUE) = {}
  BY <1>1, PlannedTopics, NewIsFirst
<1>2. ASSUME NEW t \in P, t \notin Known, NEW s \in Known \cup Fresh(TRUE), Concept[s] = Concept[t],
             s \in Known \/ s < t
      PROVE  FALSE
  BY <1>1, <1>2 DEF Twins
<1> HIDE DEF P
<1>3. ASSUME NEW s \in Known \cup P, NEW t \in Known \cup P, Concept[s] = Concept[t] PROVE s = t
  <2>1. CASE s \in Known /\ t \in Known
    BY <1>3, <2>1
  <2>2. CASE s \in Known /\ t \notin Known
    BY <1>2, <1>3, <2>2
  <2>3. CASE s \notin Known /\ t \in Known
    BY <1>2, <1>3, <2>3
  <2>4. CASE s \notin Known /\ t \notin Known
    <3>1. s \in Nat /\ t \in Nat /\ s \in Fresh(TRUE) /\ t \in Fresh(TRUE) /\ s \in P /\ t \in P
      BY <1>0, <1>1, <1>3, <2>4
    <3>2. ~(s < t) /\ ~(t < s)
      BY <1>2, <1>3, <2>4, <3>1
    <3> QED BY <3>1, <3>2
  <2> QED BY <2>1, <2>2, <2>3, <2>4
<1> QED BY <1>3 DEF P

LEMMA GraphStep ==
  ASSUME SetsAssumption, BoundAssumption, TypeInv, GraphInv, [Next]_vars
  PROVE  GraphInv'
<1> USE DEF GraphInv
<1>0. AliasesTrue(NoPlan.aliases)
  BY DEF NoPlan, AliasesTrue
<1>1. CASE Bystanding /\ ~EditDoc /\ ~AgentLinks
  <2>1. UNCHANGED graph
    BY <1>1 DEF Bystanding, RefuseNothingVisible, Submit, Answer, KeySpent, KeyRenewed, vars
  <2> QED BY <1>1, <2>1, Bystanders DEF AliasesTrue, LinksEndInTopics, Linked
<1>2. CASE EditDoc
  <2>1. PICK d \in Docs, v \in Versions : graph' = IF v = 0 THEN WithoutDoc(graph, d) ELSE graph
    BY <1>2 DEF EditDoc
  <2>2. /\ graph'.topics = graph.topics /\ graph'.aliases = graph.aliases
        /\ \A f \in Docs : graph'.owned[f] \subseteq graph.owned[f] /\ graph'.foreign[f] \subseteq graph.foreign[f]
    BY <2>1 DEF WithoutDoc, TypeInv, TypeOK, Graphs
  <2>3. LinksEndInTopics(graph')
    BY <2>2 DEF LinksEndInTopics, Linked
  <2>4. UNCHANGED <<snap, plan, phase>>
    BY <1>2 DEF EditDoc, runVars
  <2> QED BY <2>2, <2>3, <2>4 DEF AliasesTrue, LinksEndInTopics, Linked
<1>3. CASE AgentLinks
  <2>1. PICK d \in Docs, t \in graph.topics : graph' = [graph EXCEPT !.foreign[d] = @ \cup {t}]
    BY <1>3 DEF AgentLinks
  <2>2. /\ graph'.topics = graph.topics /\ graph'.aliases = graph.aliases /\ graph'.owned = graph.owned
        /\ \A f \in Docs : graph'.foreign[f] \subseteq graph.foreign[f] \cup {t}
    BY <2>1 DEF TypeInv, TypeOK, Graphs
  <2>3. LinksEndInTopics(graph')
    BY <2>2 DEF LinksEndInTopics, Linked
  <2>4. UNCHANGED <<snap, plan, phase>>
    BY <1>3 DEF AgentLinks, runVars
  <2> QED BY <2>2, <2>3, <2>4 DEF AliasesTrue, LinksEndInTopics, Linked
<1>4. CASE Ending
  BY <1>0, <1>4, Endings DEF AliasesTrue, LinksEndInTopics, Linked
<1>5. CASE Snapshot
  <2>1. graph' = graph /\ snap'.graph = graph /\ plan' = plan
    BY <1>5 DEF Snapshot
  <2> QED BY <2>1 DEF AliasesTrue, LinksEndInTopics, Linked
<1>6. CASE CallFails
  <2>1. UNCHANGED <<graph, snap, plan>> /\ phase = "extract"
    BY <1>6 DEF CallFails
  <2> QED BY <2>1 DEF AliasesTrue, LinksEndInTopics, Linked
<1>7. CASE MakePlan
  <2>1. PICK judged \in BOOLEAN : plan' = PlanOf(judged)
    BY <1>7 DEF MakePlan
  <2>2. UNCHANGED <<graph, snap>> /\ phase' = "apply"
    BY <1>7 DEF MakePlan, runVars
  <2>3. plan'.aliases = [t \in Names |-> NewAliases(t, judged)]
    BY <2>1 DEF PlanOf
  <2>4. AliasesTrue(plan'.aliases)
    BY <2>3, NewAliasesMean DEF AliasesTrue
  <2> QED BY <2>2, <2>4 DEF AliasesTrue, LinksEndInTopics, Linked
<1>8. CASE ApplyStep
  <2> USE DEF AliasesTrue, LinksEndInTopics, Linked
  <2>0. plan'.aliases = plan.aliases /\ UNCHANGED <<snap, phase>> /\ phase = "apply"
    BY <1>8, PlanShrinks
  <2>1. CASE Unlink
    <3>1. /\ \A d \in Docs : graph'.owned[d] \subseteq graph.owned[d]
          /\ UNCHANGED <<graph.topics, graph.aliases, graph.foreign>>
      BY <2>1, UnlinkIs
    <3> QED BY <2>0, <3>1
  <2>2. CASE Unrelated
    BY <2>0, <2>2, UnrelatedIs
  <2>3. CASE Drop
    BY <2>0, <2>3, DropIs
  <2>4. CASE Forget
    BY <2>0, <2>4, ForgetIs
  <2>5. CASE LoadTopic
    BY <2>0, <2>5, LoadTopicIs
  <2>6. CASE LoadLink
    <3>1. /\ \A d \in Docs : graph'.owned[d] \subseteq graph.owned[d] \cup graph.topics
          /\ UNCHANGED <<graph.topics, graph.aliases, graph.foreign>>
      <4>1. PICK e \in plan.link :
              /\ e[2] \in graph.topics
              /\ \A d \in Docs : graph'.owned[d] = IF d = e[1] THEN graph.owned[d] \cup {e[2]} ELSE graph.owned[d]
              /\ UNCHANGED <<graph.topics, graph.aliases, graph.foreign>>
        BY <2>6, LoadLinkIs
      <4> QED BY ONLY <4>1
    <3> QED BY <2>0, <3>1
  <2>7. CASE LoadRelated
    BY <2>0, <2>7, LoadRelatedIs
  <2>8. CASE Record
    BY <2>0, <2>8, RecordIs
  <2> QED BY <1>8, <2>1, <2>2, <2>3, <2>4, <2>5, <2>6, <2>7, <2>8 DEF ApplyStep
<1> QED BY <1>1, <1>2, <1>3, <1>4, <1>5, <1>6, <1>7, <1>8, NextCases

LEMMA UniqueStep ==
  ASSUME SetsAssumption, BoundAssumption, TypeInv, GraphInv, UniqueInv, [Next]_vars
  PROVE  UniqueInv'
<1>0. CASE silent' = silent /\ graph'.topics \subseteq graph.topics \cup plan.topics /\ plan'.topics \subseteq plan.topics
  BY <1>0 DEF UniqueInv
<1>1. CASE Bystanding /\ ~EditDoc /\ ~AgentLinks
  <2>1. UNCHANGED <<graph, silent>>
    BY <1>1 DEF Bystanding, RefuseNothingVisible, Submit, Answer, KeySpent, KeyRenewed, vars
  <2> QED BY <1>0, <1>1, <2>1, Bystanders
<1>2. CASE EditDoc
  <2>1. PICK d \in Docs, v \in Versions : graph' = IF v = 0 THEN WithoutDoc(graph, d) ELSE graph
    BY <1>2 DEF EditDoc
  <2>2. graph'.topics = graph.topics
    BY <2>1 DEF WithoutDoc, TypeInv, TypeOK, Graphs
  <2>3. UNCHANGED <<plan, silent>>
    BY <1>2 DEF EditDoc
  <2> QED BY <1>0, <2>2, <2>3
<1>3. CASE AgentLinks
  <2>1. PICK d \in Docs, t \in graph.topics : graph' = [graph EXCEPT !.foreign[d] = @ \cup {t}]
    BY <1>3 DEF AgentLinks
  <2>2. graph'.topics = graph.topics
    BY <2>1 DEF TypeInv, TypeOK, Graphs
  <2>3. UNCHANGED <<plan, silent>>
    BY <1>3 DEF AgentLinks
  <2> QED BY <1>0, <2>2, <2>3
<1>4. CASE Ending
  BY <1>0, <1>4, Endings, NothingPlanned
<1>5. CASE Snapshot \/ CallFails
  BY <1>0, <1>5 DEF Snapshot, CallFails
<1>7. CASE MakePlan
  <2>1. PICK judged \in BOOLEAN : plan' = PlanOf(judged) /\ silent' = (silent \/ ~judged)
    BY <1>7 DEF MakePlan
  <2>2. UNCHANGED graph /\ phase = "extract"
    BY <1>7 DEF MakePlan
  <2>3. ASSUME ~silent' PROVE judged = TRUE /\ ~silent
    BY <2>1, <2>3
  <2>4. graph.topics = Known /\ LinksEndInTopics(snap.graph)
    BY <2>2 DEF GraphInv, Known
  <2>5. ASSUME ~silent'
        PROVE  \A s, t \in graph.topics \cup PlanOf(TRUE).topics : Concept[s] = Concept[t] => s = t
    <3>1. \A s, t \in graph.topics : Concept[s] = Concept[t] => s = t
      BY <2>3, <2>5 DEF UniqueInv
    <3> QED BY <2>4, <3>1, PlanUnique
  <2> QED BY <2>1, <2>2, <2>3, <2>5 DEF UniqueInv
<1>8. CASE ApplyStep
  <2>0. silent' = silent /\ plan'.topics \subseteq plan.topics
    BY <1>8, PlanShrinks DEF ApplyStep, Unlink, Unrelated, Drop, Forget, LoadTopic, LoadLink, LoadRelated, Record
  <2>1. graph'.topics \subseteq graph.topics \cup plan.topics
    BY <1>8, UnlinkIs, UnrelatedIs, DropIs, ForgetIs, LoadTopicIs, LoadLinkIs, LoadRelatedIs, RecordIs DEF ApplyStep
  <2> QED BY <1>0, <2>0, <2>1
<1> QED BY <1>1, <1>2, <1>3, <1>4, <1>5, <1>7, <1>8, NextCases

LEMMA TopicsInit ==
  ASSUME Init
  PROVE  GraphInv /\ UniqueInv
BY NothingPlanned DEF Init, GraphInv, UniqueInv, EmptyGraph, AliasesTrue, LinksEndInTopics, Linked

\* As long as the model has answered every question about two topics, no two topics mean
\* the same, whatever the importers and agents write and wherever a pod dies.
THEOREM TopicsUnique == Spec => []OneTopicPerConcept
<1>1. Init => TypeInv /\ GraphInv /\ UniqueInv
  BY TypeInit, TopicsInit, SetsAssumption, BoundAssumption
<1>2. TypeInv /\ GraphInv /\ UniqueInv /\ [Next]_vars => TypeInv' /\ GraphInv' /\ UniqueInv'
  BY TypeStep, GraphStep, UniqueStep, SetsAssumption, BoundAssumption
<1>3. UniqueInv => OneTopicPerConcept
  BY DEF UniqueInv, OneTopicPerConcept
<1> QED BY <1>1, <1>2, <1>3, PTL DEF Spec

-----------------------------------------------------------------------------
(* Links of recorded documents. *)

\* The links `all` say what the text v of d mentions, and `own` nothing else.
Meant(d, v, own, all) ==
  /\ \A n \in Mentions[<<d, v>>] : \E t \in all : Concept[t] = Concept[n]
  /\ \A t \in own : \E n \in Mentions[<<d, v>>] : Concept[t] = Concept[n]

LinkedIn(ds, g) ==
  \A d \in Docs :
    (ds[d] # 0 /\ g.rows[d] = ds[d] /\ Answers[<<d, ds[d]>>] = "read") =>
      Meant(d, ds[d], g.owned[d], Linked(g, d))

\* An extraction of nothing is of a text the provider refuses.
EmptyInv == \A d \in empty : Answers[<<d, snap.docs[d]>>] # "read"

\* A document is as in the snapshot, or gone, or newer than the snapshot and its row.
DocsInv ==
  \A d \in Docs :
    \/ docs[d] = snap.docs[d] \/ docs[d] = 0
    \/ docs[d] > snap.docs[d] /\ docs[d] > graph.rows[d]

Untouched(d) == docs[d] # 0 /\ docs[d] = snap.docs[d]

\* What the snapshot says holds of the documents that nobody has touched since.
SeenInv ==
  /\ LinkedIn(snap.docs, snap.graph)
  /\ \A d \in Docs : Untouched(d) => snap.graph.foreign[d] \subseteq graph.foreign[d]
  /\ phase = "extract" =>
       /\ graph.rows = snap.graph.rows
       /\ \A d \in Docs : Untouched(d) => graph.owned[d] = snap.graph.owned[d]

\* The distiller's own links of d once the plan is carried out.
Target(d) ==
  {t \in graph.owned[d] : <<d, t>> \notin plan.unlink} \cup {t \in Names : <<d, t>> \in plan.link}

\* Rows are written last.
RowsInv ==
  /\ \A d \in Docs : \/ graph.rows[d] = snap.graph.rows[d] \/ graph.rows[d] = 0
                     \/ d \in read /\ d \notin plan.record /\ graph.rows[d] = snap.docs[d]
  /\ plan.record # read => EdgesLoaded

TargetInv ==
  /\ \A e \in plan.unlink \cup plan.link : e[1] \in read
  /\ \A d \in Docs :
       (/\ Untouched(d) /\ Answers[<<d, docs[d]>>] = "read"
        /\ d \in read \/ snap.graph.rows[d] = docs[d]) =>
          Meant(d, docs[d], Target(d), (Target(d) \cup snap.graph.foreign[d]) \ plan.drop)

LinkInv ==
  /\ phase = "idle" => RecordedLinked
  /\ phase # "idle" => DocsInv /\ SeenInv
  /\ phase = "apply" => RowsInv /\ TargetInv
  /\ EmptyInv

LEMMA MeantMore ==
  ASSUME NEW d, NEW v, NEW own, NEW all, NEW own2, NEW all2,
         Meant(d, v, own, all), own2 \subseteq own, all \subseteq all2
  PROVE  Meant(d, v, own2, all2)
BY DEF Meant

LEMMA RecordedIsLinkedIn ==
  /\ RecordedLinked <=> LinkedIn(docs, graph)
  /\ RecordedLinked' <=> LinkedIn(docs, graph)'
BY DEF RecordedLinked, LinkedIn, Meant, Linked

\* What is recorded is linked in every phase: documents of the snapshot keep the links
\* they had, and those of this run have got theirs before their rows.
LEMMA LinkedNow ==
  ASSUME SetsAssumption, TypeInv, LinkInv
  PROVE  RecordedLinked
<1>1. CASE phase = "idle"
  BY <1>1 DEF LinkInv
<1>2. CASE phase # "idle"
  <2> SUFFICES ASSUME NEW d \in Docs, docs[d] # 0, graph.rows[d] = docs[d], Answers[<<d, docs[d]>>] = "read"
               PROVE  Meant(d, docs[d], graph.owned[d], Linked(graph, d))
    BY RecordedIsLinkedIn DEF LinkedIn
  <2>1. docs[d] \in Nat /\ snap.docs[d] \in Nat /\ graph.rows[d] \in Nat
    BY DEF TypeInv, TypeOK, Versions, Graphs
  <2>2. docs[d] = snap.docs[d] /\ Untouched(d)
    BY <1>2, <2>1 DEF LinkInv, DocsInv, Untouched
  <2>3. SeenInv /\ snap.graph.foreign[d] \subseteq graph.foreign[d]
    BY <1>2, <2>2 DEF LinkInv, SeenInv
  <2>4. CASE phase = "extract"
    <3>1. snap.graph.rows[d] = docs[d] /\ graph.owned[d] = snap.graph.owned[d]
      BY <2>2, <2>3, <2>4 DEF SeenInv
    <3>2. Meant(d, docs[d], snap.graph.owned[d], Linked(snap.graph, d))
      BY <2>2, <2>3, <3>1 DEF SeenInv, LinkedIn
    <3>3. Linked(snap.graph, d) \subseteq Linked(graph, d)
      BY <2>3, <3>1 DEF Linked
    <3> QED BY <3>1, <3>2, <3>3, MeantMore
  <2>5. CASE phase = "apply"
    <3>1. RowsInv /\ TargetInv
      BY <2>5 DEF LinkInv
    <3>2. Target(d) = graph.owned[d] /\ (d \in read \/ snap.graph.rows[d] = docs[d])
      <4>0. graph.owned[d] \subseteq Names
        BY DEF TypeInv, TypeOK, Graphs
      <4>1. CASE snap.graph.rows[d] = docs[d]
        <5>1. d \notin read
          BY <2>2, <4>1 DEF TypeInv, Chosen
        <5>2. \A t : <<d, t>> \notin plan.unlink /\ <<d, t>> \notin plan.link
          BY <3>1, <5>1 DEF TargetInv
        <5> QED BY <4>1, <5>2 DEF Target
      <4>2. CASE snap.graph.rows[d] # docs[d]
        <5>1. d \in read /\ plan.record # read
          BY <3>1, <4>2 DEF RowsInv
        <5>2. plan.unlink = {} /\ plan.link = {}
          BY <3>1, <5>1 DEF RowsInv, EdgesLoaded, NodesLoaded, Pruned
        <5> QED BY <5>1, <5>2 DEF Target
      <4> QED BY <4>1, <4>2
    <3>3. Meant(d, docs[d], Target(d), (Target(d) \cup snap.graph.foreign[d]) \ plan.drop)
      BY <2>2, <3>1, <3>2 DEF TargetInv
    <3>4. (Target(d) \cup snap.graph.foreign[d]) \ plan.drop \subseteq Linked(graph, d)
      BY <2>3, <3>2 DEF Linked
    <3> QED BY <3>2, <3>3, <3>4, MeantMore
  <2> QED BY <1>2, <2>4, <2>5 DEF TypeInv, TypeOK
<1> QED BY <1>1, <1>2

LEMMA PlanTarget ==
  ASSUME SetsAssumption, TypeInv, NEW judged \in BOOLEAN, plan' = PlanOf(judged), graph' = graph,
         NEW d \in Docs, graph.owned[d] = snap.graph.owned[d]
  PROVE  Target(d)' = OwnedAfter(d, judged)
<1> DEFINE P == PlanOf(judged)
<1>0. P.unlink = UNION {{f} \X (snap.graph.owned[f] \ OwnedAfter(f, judged)) : f \in read}
      /\ P.link = UNION {{f} \X (OwnedAfter(f, judged) \ snap.graph.owned[f]) : f \in read}
  BY DEF PlanOf
<1>1. plan' = P
  OBVIOUS
<1> HIDE DEF P
<1>2. Target(d)' = {t \in graph'.owned[d] : <<d, t>> \notin P.unlink} \cup {t \in Names : <<d, t>> \in P.link}
  BY <1>1 DEF Target
<1>3. OwnedAfter(d, judged) \subseteq Names /\ graph'.owned[d] = snap.graph.owned[d]
  BY OwnedNames
<1>4. CASE d \in read
  <2>1. \A t : (<<d, t>> \in P.unlink <=> t \in snap.graph.owned[d] \ OwnedAfter(d, judged))
              /\ (<<d, t>> \in P.link <=> t \in OwnedAfter(d, judged) \ snap.graph.owned[d])
    BY <1>0, <1>4
  <2>2. ASSUME NEW t PROVE t \in Target(d)' <=> t \in OwnedAfter(d, judged)
    <3>1. t \in Target(d)' <=> (t \in snap.graph.owned[d] /\ <<d, t>> \notin P.unlink)
                               \/ (t \in Names /\ <<d, t>> \in P.link)
      BY <1>2, <1>3
    <3> QED BY <1>3, <2>1, <3>1
  <2> QED BY <1>2, <2>2
<1>5. CASE d \notin read
  <2>1. \A t : <<d, t>> \notin P.unlink /\ <<d, t>> \notin P.link
    BY <1>0, <1>5
  <2>2. OwnedAfter(d, judged) = snap.graph.owned[d]
    BY <1>5 DEF OwnedAfter
  <2> QED BY ONLY <1>2, <1>3, <2>1, <2>2
<1> QED BY <1>4, <1>5

\* The plan gives every document it has read the links its text calls for.
LEMMA PlanTargets ==
  ASSUME SetsAssumption, TypeInv, GraphInv, EmptyInv, SeenInv, phase = "extract",
         NEW judged \in BOOLEAN, plan' = PlanOf(judged), UNCHANGED <<docs, graph, snap, read>>
  PROVE  TargetInv'
<1> DEFINE P == PlanOf(judged)
<1>0. P.unlink = UNION {{d} \X (snap.graph.owned[d] \ OwnedAfter(d, judged)) : d \in read}
      /\ P.link = UNION {{d} \X (OwnedAfter(d, judged) \ snap.graph.owned[d]) : d \in read}
      /\ P.drop = Known \cap Doomed(judged)
  BY DEF PlanOf
<1>1. plan' = P
  OBVIOUS
<1> HIDE DEF P
<1>2. \A e \in P.unlink \cup P.link : e[1] \in read
  BY <1>0
<1>5. ASSUME NEW d \in Docs, Untouched(d) PROVE Target(d)' = OwnedAfter(d, judged)
  <2>1. graph.owned[d] = snap.graph.owned[d]
    BY <1>5 DEF SeenInv
  <2> QED BY <2>1, PlanTarget
<1>6. ASSUME NEW d \in Docs, Untouched(d), Answers[<<d, docs[d]>>] = "read",
             d \in read \/ snap.graph.rows[d] = docs[d]
      PROVE  Meant(d, docs[d], OwnedAfter(d, judged),
                   (OwnedAfter(d, judged) \cup snap.graph.foreign[d]) \ P.drop)
  <2>1. (OwnedAfter(d, judged) \cup snap.graph.foreign[d]) \ P.drop = LinksAfter(d, judged)
    BY <1>0, ReferencedStay DEF LinksAfter
  <2>2. docs[d] = snap.docs[d] /\ docs[d] # 0
    BY <1>6 DEF Untouched
  <2>3. CASE d \in read
    <3>1. d \notin empty /\ Extraction(d) = Mentions[<<d, docs[d]>>]
      BY <1>6, <2>2 DEF EmptyInv, Extraction
    <3>2. Wanted(d, judged) = {Canonical(n, judged) : n \in Mentions[<<d, docs[d]>>]}
      BY <3>1 DEF Wanted
    <3>3. \A n \in Mentions[<<d, docs[d]>>] : Concept[Canonical(n, judged)] = Concept[n]
      <4>1. Mentions[<<d, docs[d]>>] \subseteq Texts
        BY <2>3, <3>1 DEF Texts
      <4> QED BY <4>1, CanonicalMeans DEF GraphInv
    <3>4. OwnedAfter(d, judged) \subseteq Wanted(d, judged) /\ Wanted(d, judged) \subseteq LinksAfter(d, judged)
      BY <2>3 DEF OwnedAfter, LinksAfter
    <3>5. \A n \in Mentions[<<d, docs[d]>>] : \E t \in LinksAfter(d, judged) : Concept[t] = Concept[n]
      BY <3>2, <3>3, <3>4
    <3>6. \A t \in OwnedAfter(d, judged) : \E n \in Mentions[<<d, docs[d]>>] : Concept[t] = Concept[n]
      BY <3>2, <3>3, <3>4
    <3> QED BY <2>1, <3>5, <3>6 DEF Meant
  <2>4. CASE d \notin read
    <3>1. OwnedAfter(d, judged) = snap.graph.owned[d] /\ LinksAfter(d, judged) = Linked(snap.graph, d)
      BY <2>4 DEF OwnedAfter, LinksAfter, Linked
    <3>2. snap.docs[d] # 0 /\ snap.graph.rows[d] = snap.docs[d] /\ Answers[<<d, snap.docs[d]>>] = "read"
      BY <1>6, <2>2, <2>4
    <3>3. Meant(d, snap.docs[d], snap.graph.owned[d], Linked(snap.graph, d))
      BY <3>2 DEF SeenInv, LinkedIn
    <3> QED BY <2>1, <2>2, <3>1, <3>3
  <2> QED BY <2>3, <2>4
<1>7. ASSUME NEW d \in Docs, Untouched(d)', Answers[<<d, docs'[d]>>] = "read",
             d \in read' \/ snap'.graph.rows[d] = docs'[d]
      PROVE  Meant(d, docs[d], Target(d), (Target(d) \cup snap.graph.foreign[d]) \ plan.drop)'
  <2>1. Untouched(d)
    BY <1>7 DEF Untouched
  <2>2. Meant(d, docs[d], OwnedAfter(d, judged), (OwnedAfter(d, judged) \cup snap.graph.foreign[d]) \ P.drop)
    BY <1>6, <1>7, <2>1
  <2>3. Target(d)' = OwnedAfter(d, judged)
    BY <1>5, <2>1
  <2> QED BY <1>1, <2>2, <2>3 DEF Meant
<1> QED BY <1>1, <1>2, <1>7 DEF TargetInv

\* An apply step leaves the targets of the documents alone, but for a topic it drops.
LEMMA TargetSame ==
  ASSUME TypeInv, ApplyStep, ~Drop
  PROVE  /\ plan'.unlink \subseteq plan.unlink /\ plan'.link \subseteq plan.link /\ plan'.drop = plan.drop
         /\ \A d \in Docs : Target(d)' = Target(d)
<1>2. CASE UNCHANGED <<graph.owned, plan.unlink, plan.link, plan.drop>>
  BY <1>2 DEF Target
<1>3. CASE Unlink
  <2>1. PICK e \in plan.unlink :
          /\ e[1] \in Docs /\ e[2] \in Names
          /\ \A d \in Docs : graph'.owned[d] = IF d = e[1] THEN graph.owned[d] \ {e[2]} ELSE graph.owned[d]
          /\ plan'.unlink = plan.unlink \ {e} /\ plan'.link = plan.link /\ plan'.drop = plan.drop
    BY <1>3, UnlinkIs
  <2>2. e = <<e[1], e[2]>>
    BY DEF TypeInv, TypeOK, Plans
  <2>4. \A d, t : <<d, t>> = e <=> (d = e[1] /\ t = e[2])
    BY <2>2
  <2>3. ASSUME NEW d \in Docs PROVE Target(d)' = Target(d)
    <3>1. ASSUME NEW t PROVE t \in Target(d)' <=> t \in Target(d)
      <4>1. t \in Target(d)' <=> (t \in graph'.owned[d] /\ <<d, t>> \notin plan'.unlink)
                                  \/ (t \in Names /\ <<d, t>> \in plan'.link)
        BY DEF Target
      <4>2. t \in Target(d) <=> (t \in graph.owned[d] /\ <<d, t>> \notin plan.unlink)
                                  \/ (t \in Names /\ <<d, t>> \in plan.link)
        BY DEF Target
      <4>3. graph'.owned[d] = IF d = e[1] THEN graph.owned[d] \ {e[2]} ELSE graph.owned[d]
        BY <2>1
      <4>4. <<d, t>> \in plan'.unlink <=> <<d, t>> \in plan.unlink /\ ~(d = e[1] /\ t = e[2])
        BY <2>1, <2>4
      <4>5. (d = e[1] /\ t = e[2]) => <<d, t>> \in plan.unlink
        BY <2>2
      <4> QED BY <2>1, <2>2, <4>1, <4>2, <4>3, <4>4, <4>5
    <3> QED BY <3>1 DEF Target
  <2> QED BY <2>1, <2>3
<1>4. CASE LoadLink
  <2>1. PICK e \in plan.link :
          /\ e[1] \in Docs /\ e[2] \in Names /\ NodesLoaded
          /\ \A d \in Docs : graph'.owned[d] = IF d = e[1] THEN graph.owned[d] \cup {e[2]} ELSE graph.owned[d]
          /\ plan'.link = plan.link \ {e} /\ plan'.unlink = plan.unlink /\ plan'.drop = plan.drop
    BY <1>4, LoadLinkIs
  <2>2. e = <<e[1], e[2]>> /\ plan.unlink = {}
    BY <2>1 DEF TypeInv, TypeOK, Plans, NodesLoaded, Pruned
  <2>4. \A d, t : <<d, t>> = e <=> (d = e[1] /\ t = e[2])
    BY <2>2
  <2>3. ASSUME NEW d \in Docs PROVE Target(d)' = Target(d)
    <3>1. ASSUME NEW t PROVE t \in Target(d)' <=> t \in Target(d)
      <4>1. t \in Target(d)' <=> (t \in graph'.owned[d] /\ <<d, t>> \notin plan'.unlink)
                                  \/ (t \in Names /\ <<d, t>> \in plan'.link)
        BY DEF Target
      <4>2. t \in Target(d) <=> (t \in graph.owned[d] /\ <<d, t>> \notin plan.unlink)
                                  \/ (t \in Names /\ <<d, t>> \in plan.link)
        BY DEF Target
      <4>3. graph'.owned[d] = IF d = e[1] THEN graph.owned[d] \cup {e[2]} ELSE graph.owned[d]
        BY <2>1
      <4>4. <<d, t>> \in plan'.link <=> <<d, t>> \in plan.link /\ ~(d = e[1] /\ t = e[2])
        BY <2>1, <2>4
      <4>5. (d = e[1] /\ t = e[2]) => <<d, t>> \in plan.link
        BY <2>2
      <4> QED BY <2>1, <2>2, <4>1, <4>2, <4>3, <4>4, <4>5
    <3> QED BY <3>1 DEF Target
  <2> QED BY <2>1, <2>3
<1>6. CASE Unrelated
  BY <1>2, <1>6, UnrelatedIs
<1>7. CASE Forget
  BY <1>2, <1>7, ForgetIs
<1>8. CASE LoadTopic
  BY <1>2, <1>8, LoadTopicIs
<1>9. CASE LoadRelated
  BY <1>2, <1>9, LoadRelatedIs
<1>10. CASE Record
  BY <1>2, <1>10, RecordIs
<1> QED BY <1>3, <1>4, <1>6, <1>7, <1>8, <1>9, <1>10 DEF ApplyStep

LEMMA ApplyTargets ==
  ASSUME TypeInv, ApplyStep, RowsInv, TargetInv, UNCHANGED <<docs, snap, read>>
  PROVE  TargetInv'
<1>1. CASE ~Drop
  <2>0. /\ plan'.unlink \subseteq plan.unlink /\ plan'.link \subseteq plan.link /\ plan'.drop = plan.drop
        /\ \A d \in Docs : Target(d)' = Target(d)
    BY <1>1, TargetSame
  <2>1. \A d \in Docs : Untouched(d)' <=> Untouched(d)
    BY DEF Untouched
  <2> QED BY <2>0, <2>1 DEF TargetInv, Meant
<1>2. CASE Drop
  <2>1. PICK t \in plan.drop :
          /\ \A d \in Docs : graph'.owned[d] = graph.owned[d] \ {t}
          /\ plan'.drop = plan.drop \ {t} /\ plan'.unlink = plan.unlink /\ plan'.link = plan.link
    BY <1>2, DropIs
  <2>2. \A d \in Docs : Target(d)' \subseteq Target(d) /\ Target(d) \ {t} \subseteq Target(d)'
    BY <2>1 DEF Target
  <2>3. ASSUME NEW d \in Docs, Untouched(d)', Answers[<<d, docs'[d]>>] = "read",
               d \in read' \/ snap'.graph.rows[d] = docs'[d]
        PROVE  Meant(d, docs[d], Target(d), (Target(d) \cup snap.graph.foreign[d]) \ plan.drop)'
    <3>1. Meant(d, docs[d], Target(d), (Target(d) \cup snap.graph.foreign[d]) \ plan.drop)
      BY <2>3 DEF TargetInv, Untouched
    <3>2. (Target(d) \cup snap.graph.foreign[d]) \ plan.drop
            \subseteq (Target(d)' \cup snap.graph.foreign[d]) \ plan'.drop
      BY <2>1, <2>2
    <3>3. Meant(d, docs[d], Target(d)', (Target(d)' \cup snap.graph.foreign[d]) \ plan'.drop)
      BY <2>2, <3>1, <3>2, MeantMore
    <3> QED BY <3>3 DEF Meant
  <2> QED BY <2>1, <2>3 DEF TargetInv
<1> QED BY <1>1, <1>2

\* The rows of an apply step: taken back of documents that are gone, written at the end.
LEMMA ApplyRows ==
  ASSUME SetsAssumption, TypeInv, ApplyStep, DocsInv, RowsInv, UNCHANGED <<docs, snap, read>>
  PROVE  DocsInv' /\ RowsInv'
<1>1. ASSUME UNCHANGED <<graph.rows, plan.record>>, ~EdgesLoaded PROVE DocsInv' /\ RowsInv'
  BY <1>1 DEF DocsInv, RowsInv
<1>2. CASE Unlink
  BY <1>1, <1>2, UnlinkIs DEF EdgesLoaded, NodesLoaded, Pruned, Unlink
<1>3. CASE Unrelated
  BY <1>1, <1>3, UnrelatedIs DEF EdgesLoaded, NodesLoaded, Pruned, Unrelated
<1>4. CASE Drop
  BY <1>1, <1>4, DropIs DEF EdgesLoaded, NodesLoaded, Pruned, Drop
<1>5. CASE Forget
  <2>1. /\ \A d \in Docs : graph'.rows[d] = IF d \in plan.forget THEN 0 ELSE graph.rows[d]
        /\ plan'.record = plan.record /\ ~EdgesLoaded
    BY <1>5, ForgetIs DEF Forget, EdgesLoaded, NodesLoaded
  <2>2. \A d \in Docs : docs[d] \in Nat /\ snap.docs[d] \in Nat
    BY DEF TypeInv, TypeOK, Versions
  <2>3. ASSUME NEW d \in Docs
        PROVE  \/ docs'[d] = snap'.docs[d] \/ docs'[d] = 0
               \/ docs'[d] > snap'.docs[d] /\ docs'[d] > graph'.rows[d]
    <3>1. \/ docs[d] = snap.docs[d] \/ docs[d] = 0
          \/ docs[d] > snap.docs[d] /\ docs[d] > graph.rows[d]
      BY DEF DocsInv
    <3>2. docs[d] > snap.docs[d] => docs[d] > 0
      BY <2>2
    <3> QED BY <2>1, <3>1, <3>2
  <2>4. RowsInv'
    BY <2>1 DEF RowsInv
  <2> QED BY <2>3, <2>4 DEF DocsInv
<1>6. CASE LoadTopic
  BY <1>1, <1>6, LoadTopicIs DEF EdgesLoaded, NodesLoaded, LoadTopic
<1>7. CASE LoadLink
  BY <1>1, <1>7, LoadLinkIs DEF EdgesLoaded, LoadLink
<1>8. CASE LoadRelated
  BY <1>1, <1>8, LoadRelatedIs DEF EdgesLoaded, LoadRelated
<1>9. CASE Record
  <2>1. PICK d \in plan.record :
          /\ EdgesLoaded
          /\ \A f \in Docs : graph'.rows[f] = IF f = d THEN snap.docs[d] ELSE graph.rows[f]
          /\ plan'.record = plan.record \ {d}
          /\ UNCHANGED <<plan.unlink, plan.unrelate, plan.drop, plan.forget, plan.topics, plan.link, plan.relate>>
    BY <1>9, RecordIs
  <2>2. EdgesLoaded' /\ d \in read
    BY <2>1 DEF EdgesLoaded, NodesLoaded, Pruned, TypeInv, PlansLate
  <2>3. ASSUME NEW f \in Docs
        PROVE  \/ docs'[f] = snap'.docs[f] \/ docs'[f] = 0
               \/ docs'[f] > snap'.docs[f] /\ docs'[f] > graph'.rows[f]
    <3>1. \/ docs[f] = snap.docs[f] \/ docs[f] = 0
          \/ docs[f] > snap.docs[f] /\ docs[f] > graph.rows[f]
      BY DEF DocsInv
    <3>2. graph'.rows[f] = IF f = d THEN snap.docs[f] ELSE graph.rows[f]
      BY <2>1
    <3> QED BY <3>1, <3>2
  <2>4. RowsInv'
    BY <2>1, <2>2 DEF RowsInv
  <2> QED BY <2>3, <2>4 DEF DocsInv
<1> QED BY <1>2, <1>3, <1>4, <1>5, <1>6, <1>7, <1>8, <1>9 DEF ApplyStep

LEMMA SeenSame ==
  ASSUME snap' = snap, LinkedIn(snap.docs, snap.graph)
  PROVE  LinkedIn(snap.docs, snap.graph)'
<1>1. ASSUME NEW d \in Docs, snap'.docs[d] # 0, snap'.graph.rows[d] = snap'.docs[d],
             Answers[<<d, snap'.docs[d]>>] = "read"
      PROVE  Meant(d, snap.docs[d], snap.graph.owned[d], Linked(snap.graph, d))'
  <2>1. Meant(d, snap.docs[d], snap.graph.owned[d], Linked(snap.graph, d))
    BY <1>1 DEF LinkedIn
  <2> QED BY <2>1 DEF Meant, Linked
<1> QED BY <1>1 DEF LinkedIn

\* Others may add links of their own.
LEMMA LinksGrow ==
  ASSUME UNCHANGED <<docs, graph.rows, graph.owned>>,
         \A d \in Docs : graph.foreign[d] \subseteq graph'.foreign[d],
         RecordedLinked
  PROVE  RecordedLinked'
<1>1. ASSUME NEW d \in Docs, docs'[d] # 0, graph'.rows[d] = docs'[d], Answers[<<d, docs'[d]>>] = "read"
      PROVE  Meant(d, docs[d], graph.owned[d], Linked(graph, d))'
  <2>1. Meant(d, docs[d], graph.owned[d], Linked(graph, d))
    BY <1>1, RecordedIsLinkedIn DEF LinkedIn
  <2>2. graph.owned[d] \cup graph.foreign[d] \subseteq graph'.owned[d] \cup graph'.foreign[d]
    OBVIOUS
  <2> QED BY <2>1, <2>2 DEF Meant, Linked
<1>2. LinkedIn(docs, graph)'
  BY <1>1 DEF LinkedIn
<1> QED BY <1>2, RecordedIsLinkedIn

LEMMA SnapshotHolds ==
  ASSUME UNCHANGED <<docs, snap, phase, graph.rows, graph.owned>>,
         \A d \in Docs : graph.foreign[d] \subseteq graph'.foreign[d],
         DocsInv, SeenInv
  PROVE  DocsInv' /\ SeenInv'
<1>1. DocsInv'
  BY DEF DocsInv
<1>2. \A d \in Docs : Untouched(d)' => Untouched(d)
  BY DEF Untouched
<1>3. LinkedIn(snap.docs, snap.graph)'
  BY SeenSame DEF SeenInv
<1> QED BY <1>1, <1>2, <1>3 DEF SeenInv

LEMMA PlanHolds ==
  ASSUME UNCHANGED <<docs, snap, plan, read, graph.rows, graph.owned>>, RowsInv, TargetInv
  PROVE  RowsInv' /\ TargetInv'
<1>1. RowsInv'
  BY DEF RowsInv, EdgesLoaded, NodesLoaded, Pruned
<1>2. ASSUME NEW d \in Docs, Untouched(d)', Answers[<<d, docs'[d]>>] = "read",
             d \in read' \/ snap'.graph.rows[d] = docs'[d]
      PROVE  Meant(d, docs[d], Target(d), (Target(d) \cup snap.graph.foreign[d]) \ plan.drop)'
  <2>1. Meant(d, docs[d], Target(d), (Target(d) \cup snap.graph.foreign[d]) \ plan.drop)
    BY <1>2 DEF TargetInv, Untouched
  <2> QED BY <2>1 DEF Meant, Target
<1> QED BY <1>1, <1>2 DEF TargetInv

\* What others' links of the snapshot an apply step leaves.
LEMMA ApplySeen ==
  ASSUME TypeInv, ApplyStep, SeenInv, DropInv, phase = "apply", UNCHANGED <<docs, snap, phase>>
  PROVE  SeenInv'
<1>1. ASSUME NEW d \in Docs, Untouched(d) PROVE snap.graph.foreign[d] \subseteq graph'.foreign[d]
  <2>1. snap.graph.foreign[d] \subseteq graph.foreign[d]
    BY <1>1 DEF SeenInv
  <2>2. CASE Drop
    <3>1. PICK t \in plan.drop : \A f \in Docs : graph'.foreign[f] = graph.foreign[f] \ {t}
      BY <2>2, DropIs
    <3>2. t \notin snap.graph.foreign[d]
      BY <3>1 DEF DropInv
    <3> QED BY <2>1, <3>1, <3>2
  <2>3. CASE UNCHANGED graph.foreign
    BY <2>1, <2>3
  <2>4. Drop \/ UNCHANGED graph.foreign
    BY UnlinkIs, UnrelatedIs, ForgetIs, LoadTopicIs, LoadLinkIs, LoadRelatedIs, RecordIs DEF ApplyStep
  <2> QED BY <2>2, <2>3, <2>4
<1>2. LinkedIn(snap.docs, snap.graph)'
  BY SeenSame DEF SeenInv
<1>3. \A d \in Docs : Untouched(d)' => Untouched(d)
  BY DEF Untouched
<1> QED BY <1>1, <1>2, <1>3 DEF SeenInv

LEMMA LinkStep ==
  ASSUME SetsAssumption, BoundAssumption, TypeInv, GraphInv, DropInv, LinkInv, ~keySpent, [Next]_vars
  PROVE  LinkInv'
<1>0. RecordedLinked
  BY LinkedNow
<1>a. ASSUME UNCHANGED <<docs, phase, snap, plan, read, empty, graph.rows, graph.owned>>,
             \A d \in Docs : graph.foreign[d] \subseteq graph'.foreign[d]
      PROVE  LinkInv'
  <2>1. RecordedLinked'
    BY <1>0, <1>a, LinksGrow
  <2>2. phase # "idle" => DocsInv' /\ SeenInv'
    BY <1>a, SnapshotHolds DEF LinkInv
  <2>3. phase = "apply" => RowsInv' /\ TargetInv'
    BY <1>a, PlanHolds DEF LinkInv
  <2>4. EmptyInv'
    BY <1>a DEF LinkInv, EmptyInv
  <2> QED BY <1>a, <2>1, <2>2, <2>3, <2>4 DEF LinkInv
<1>b. UNCHANGED graph => \A d \in Docs : graph.foreign[d] \subseteq graph'.foreign[d]
  OBVIOUS
<1>c. UNCHANGED <<docs, graph>> => RecordedLinked'
  BY <1>0, <1>b, LinksGrow
<1>1. CASE Bystanding /\ ~Answer /\ ~EditDoc /\ ~AgentLinks
  <2>1. UNCHANGED <<docs, graph, phase, snap, plan, read, empty>>
    BY <1>1 DEF Bystanding, RefuseNothingVisible, Submit, KeySpent, KeyRenewed, vars, runVars
  <2> QED BY <1>a, <1>b, <2>1
<1>2. CASE Answer
  <2>1. PICK d \in inflight : empty' = IF Outcome(d) = "refused" THEN empty \cup {d} ELSE empty
    BY <1>2 DEF Answer
  <2>2. UNCHANGED <<docs, graph, phase, snap>> /\ phase = "extract"
    BY <1>2 DEF Answer
  <2>3. Outcome(d) = "refused" => Answers[<<d, snap.docs[d]>>] = "refused"
    BY DEF Outcome
  <2>4. EmptyInv'
    BY <2>1, <2>2, <2>3 DEF LinkInv, EmptyInv
  <2>5. DocsInv' /\ SeenInv'
    BY <1>b, <2>2, SnapshotHolds DEF LinkInv
  <2> QED BY <2>2, <2>4, <2>5 DEF LinkInv
<1>3. CASE CallFails
  <2>1. UNCHANGED <<docs, graph, snap, empty>> /\ phase = "extract" /\ phase' \in {"idle", "extract"}
    BY <1>3 DEF CallFails
  <2>2. RecordedLinked' /\ EmptyInv'
    BY <1>c, <2>1 DEF LinkInv, EmptyInv
  <2>3. phase' = "extract" => DocsInv' /\ SeenInv'
    BY <1>b, <2>1, SnapshotHolds DEF LinkInv
  <2> QED BY <2>1, <2>2, <2>3 DEF LinkInv
<1>4. CASE Snapshot
  <2>1. snap' = [docs |-> docs, graph |-> graph] /\ UNCHANGED <<docs, graph>> /\ phase' = "extract" /\ empty' = {}
    BY <1>4 DEF Snapshot
  <2>2. snap'.docs = docs' /\ snap'.graph = graph' /\ UNCHANGED <<docs, graph>>
    BY <2>1
  <2>3. LinkedIn(snap.docs, snap.graph)'
    <3>1. LinkedIn(docs, graph)'
      BY <1>c, <2>2, RecordedIsLinkedIn
    <3> QED BY <2>2, <3>1 DEF LinkedIn, Meant, Linked
  <2>4. SeenInv'
    BY <2>1, <2>2, <2>3 DEF SeenInv
  <2>5. DocsInv' /\ EmptyInv'
    BY <2>1, <2>2 DEF DocsInv, EmptyInv
  <2> QED BY <2>1, <2>4, <2>5 DEF LinkInv
<1>5. CASE MakePlan
  <2>1. PICK judged \in BOOLEAN : plan' = PlanOf(judged)
    BY <1>5 DEF MakePlan
  <2>2. UNCHANGED <<docs, graph, snap, read, empty>> /\ phase = "extract" /\ phase' = "apply"
    BY <1>5 DEF MakePlan, runVars
  <2>3. TargetInv'
    BY <2>1, <2>2, PlanTargets DEF LinkInv
  <2>4. DocsInv' /\ EmptyInv'
    BY <2>2 DEF LinkInv, DocsInv, EmptyInv
  <2>5. SeenInv'
    <3>1. LinkedIn(snap.docs, snap.graph)'
      BY <2>2, SeenSame DEF LinkInv, SeenInv
    <3> QED BY <2>2, <3>1 DEF LinkInv, SeenInv, Untouched
  <2>6. RowsInv'
    <3>1. plan'.record = read'
      BY <2>1, <2>2 DEF PlanOf
    <3> QED BY <2>2, <3>1 DEF LinkInv, SeenInv, RowsInv
  <2> QED BY <2>2, <2>3, <2>4, <2>5, <2>6 DEF LinkInv
<1>6. CASE ApplyStep
  <2>1. UNCHANGED <<docs, snap, read, empty, phase>> /\ phase = "apply"
    BY <1>6 DEF ApplyStep, Unlink, Unrelated, Drop, Forget, LoadTopic, LoadLink, LoadRelated, Record, runVars
  <2>2. DocsInv /\ SeenInv /\ RowsInv /\ TargetInv /\ EmptyInv
    BY <2>1 DEF LinkInv
  <2>3. TargetInv' /\ DocsInv' /\ RowsInv' /\ SeenInv'
    BY <1>6, <2>1, <2>2, ApplyTargets, ApplyRows, ApplySeen
  <2>4. EmptyInv'
    BY <2>1, <2>2 DEF EmptyInv
  <2> QED BY <2>1, <2>3, <2>4 DEF LinkInv
<1>7. CASE Ending
  <2>1. UNCHANGED <<docs, graph>> /\ phase' = "idle" /\ empty' = {}
    BY <1>7, Endings
  <2> QED BY <1>c, <2>1 DEF LinkInv, EmptyInv
<1>8. CASE EditDoc
  <2>1. PICK d \in Docs, v \in Versions :
          /\ v # docs[d] /\ (v # 0 => v > graph.rows[d] /\ v > snap.docs[d])
          /\ docs' = Flip(docs, d, v)
          /\ graph' = IF v = 0 THEN WithoutDoc(graph, d) ELSE graph
    BY <1>8 DEF EditDoc
  <2>2. UNCHANGED <<phase, snap, plan, read, empty>>
    BY <1>8 DEF EditDoc, runVars
  <2>3. docs'[d] = v /\ \A f \in Docs \ {d} : docs'[f] = docs[f]
    BY <2>1 DEF Flip, TypeInv, TypeOK
  <2>4. /\ graph'.rows = graph.rows
        /\ \A f \in Docs \ {d} : graph'.owned[f] = graph.owned[f] /\ graph'.foreign[f] = graph.foreign[f]
    BY <2>1 DEF WithoutDoc, TypeInv, TypeOK, Graphs
  <2>5. ~Untouched(d)' /\ \A f \in Docs \ {d} : Untouched(f)' = Untouched(f)
    <3>1. v \in Nat /\ snap.docs[d] \in Nat
      <4>1. MaxVersion \in Nat /\ v \in 0..MaxVersion /\ snap.docs[d] \in 0..MaxVersion
        BY DEF Versions, TypeInv, TypeOK, SetsAssumption
      <4> QED BY ONLY <4>1
    <3>2. v = 0 \/ v # snap.docs[d]
      BY <2>1, <3>1
    <3> QED BY <2>2, <2>3, <3>2 DEF Untouched
  <2>6. RecordedLinked'
    <3>1. v \in Nat /\ graph.rows[d] \in Nat
      BY DEF Versions, TypeInv, TypeOK, Graphs
    <3>2. ~(docs'[d] # 0 /\ graph'.rows[d] = docs'[d])
      BY <2>1, <2>3, <2>4, <3>1
    <3>3. ASSUME NEW f \in Docs, docs'[f] # 0, graph'.rows[f] = docs'[f], Answers[<<f, docs'[f]>>] = "read"
          PROVE  Meant(f, docs[f], graph.owned[f], Linked(graph, f))'
      <4>1. f \in Docs \ {d} /\ docs'[f] = docs[f] /\ graph.rows[f] = docs[f]
        BY <2>3, <2>4, <3>2, <3>3
      <4>2. Meant(f, docs[f], graph.owned[f], Linked(graph, f))
        BY <1>0, <3>3, <4>1, RecordedIsLinkedIn DEF LinkedIn
      <4> QED BY <2>4, <4>1, <4>2 DEF Meant, Linked
    <3> QED BY <3>3, RecordedIsLinkedIn DEF LinkedIn
  <2>7. DocsInv => DocsInv'
    BY <2>1, <2>2, <2>3, <2>4 DEF DocsInv
  <2>8. SeenInv => SeenInv'
    <3>1. LinkedIn(snap.docs, snap.graph) => LinkedIn(snap.docs, snap.graph)'
      BY <2>2, SeenSame
    <3> QED BY <2>2, <2>4, <2>5, <3>1 DEF SeenInv
  <2>9. RowsInv => RowsInv'
    BY <2>2, <2>4 DEF RowsInv, EdgesLoaded, NodesLoaded, Pruned
  <2>10. TargetInv => TargetInv'
    <3> SUFFICES ASSUME TargetInv PROVE TargetInv'
      OBVIOUS
    <3>1. ASSUME NEW f \in Docs, Untouched(f)', Answers[<<f, docs'[f]>>] = "read",
                 f \in read' \/ snap'.graph.rows[f] = docs'[f]
          PROVE  Meant(f, docs[f], Target(f), (Target(f) \cup snap.graph.foreign[f]) \ plan.drop)'
      <4>1. f \in Docs \ {d} /\ Untouched(f) /\ docs'[f] = docs[f] /\ graph'.owned[f] = graph.owned[f]
        BY <2>3, <2>4, <2>5, <3>1
      <4>2. Meant(f, docs[f], Target(f), (Target(f) \cup snap.graph.foreign[f]) \ plan.drop)
        BY <2>2, <3>1, <4>1 DEF TargetInv
      <4> QED BY <2>2, <4>1, <4>2 DEF Meant, Target
    <3> QED BY <2>2, <3>1 DEF TargetInv
  <2> QED BY <2>2, <2>6, <2>7, <2>8, <2>9, <2>10 DEF LinkInv, EmptyInv
<1>9. CASE AgentLinks
  <2>1. PICK d \in Docs, t \in graph.topics : graph' = [graph EXCEPT !.foreign[d] = @ \cup {t}]
    BY <1>9 DEF AgentLinks
  <2>2. UNCHANGED <<docs, phase, snap, plan, read, empty>>
    BY <1>9 DEF AgentLinks, runVars
  <2>3. /\ graph'.rows = graph.rows /\ graph'.owned = graph.owned
        /\ \A f \in Docs : graph.foreign[f] \subseteq graph'.foreign[f]
    BY <2>1 DEF TypeInv, TypeOK, Graphs
  <2> QED BY <1>a, <2>2, <2>3
<1> QED BY <1>1, <1>2, <1>3, <1>4, <1>5, <1>6, <1>7, <1>8, <1>9, NextCases

\* As long as the budget of the key lasts, a document recorded with its present content
\* is linked to a topic for every name its text mentions, and its own links name nothing
\* else: texts may change and agents link at any time, and a pod may die anywhere.
THEOREM RecordedAreLinked == Spec /\ []~keySpent => []RecordedLinked
<1>1. Init => TypeInv /\ GraphInv /\ DropInv /\ LinkInv
  <2>1. ASSUME Init PROVE LinkInv /\ DropInv
    <3>1. phase = "idle" /\ empty = {} /\ graph = EmptyGraph /\ plan = NoPlan
      BY <2>1 DEF Init
    <3>2. RecordedLinked
      BY <3>1 DEF RecordedLinked, EmptyGraph
    <3> QED BY <3>1, <3>2, NothingPlanned DEF LinkInv, DropInv, EmptyInv
  <2> QED BY <2>1, TypeInit, TopicsInit, SetsAssumption, BoundAssumption
<1>2. TypeInv /\ GraphInv /\ DropInv /\ LinkInv /\ ~keySpent /\ [Next]_vars
        => TypeInv' /\ GraphInv' /\ DropInv' /\ LinkInv'
  BY TypeStep, GraphStep, DropStep, LinkStep, SetsAssumption, BoundAssumption
<1>3. TypeInv /\ LinkInv => RecordedLinked
  BY LinkedNow, SetsAssumption
<1> QED BY <1>1, <1>2, <1>3, PTL DEF Spec

-----------------------------------------------------------------------------
(* The graph after a complete run. *)

RelatedInv(g) == \A p \in Pairs : g.related[p] # 0 => {p[1], p[2]} \subseteq g.topics

\* The links of d, the documents two topics share, and the count of a pair once the
\* plan is carried out.
Links(d) == Target(d) \cup graph.foreign[d]

Sharing(p) == {d \in Docs : {p[1], p[2]} \subseteq Links(d)}

RelatedAfter(p) ==
  IF p \in plan.relate THEN plan.count[p]
  ELSE IF p \in plan.unrelate \/ {p[1], p[2]} \cap plan.drop # {} THEN 0
  ELSE graph.related[p]

Tidy(n) == IF n >= RelatedMin THEN n ELSE 0

TidyPlan ==
  /\ (graph.topics \ plan.drop) \cup plan.topics = UNION {Links(d) : d \in Docs}
  /\ \A d \in Docs : plan.drop \cap Links(d) = {}
  /\ \A p \in Pairs : RelatedAfter(p) = Tidy(Cardinality(Sharing(p)))
  /\ \A d \in Docs : docs[d] = 0 => (graph.rows[d] = 0 \/ d \in plan.forget) /\ d \notin plan.record

TidyInv ==
  /\ RelatedInv(graph) /\ RelatedInv(snap.graph)
  /\ quiet /\ phase = "idle" => CompleteRunTidy
  /\ quiet /\ phase = "extract" => docs = snap.docs /\ graph = snap.graph
  /\ quiet /\ phase = "apply" => TidyPlan

\* A plan made of the graph as it is leads to what its documents call for.
LEMMA PlanTidy ==
  ASSUME SetsAssumption, BoundAssumption, TypeInv, GraphInv, RelatedInv(snap.graph), docs = snap.docs,
         graph = snap.graph, NEW judged \in BOOLEAN, plan' = PlanOf(judged), UNCHANGED <<docs, graph, snap>>
  PROVE  TidyPlan'
<1> DEFINE P == PlanOf(judged)
<1>1. plan' = P
  OBVIOUS
<1>2. /\ P.drop = Known \cap Doomed(judged) /\ P.record = read
      /\ P.forget = {d \in Docs : snap.docs[d] = 0 /\ snap.graph.rows[d] # 0}
      /\ P.topics = {t \in (Known \cup Fresh(judged)) \ Doomed(judged) :
                       t \notin Known \/ NewAliases(t, judged) # snap.graph.aliases[t]}
      /\ P.relate = {p \in Pairs : /\ Together(p, judged) >= RelatedMin
                                   /\ Together(p, judged) # snap.graph.related[p]}
      /\ P.count = [p \in Pairs |-> Together(p, judged)]
      /\ P.unrelate = Unrelate(judged)
  BY DEF PlanOf
<1> HIDE DEF P
<1>3. ASSUME NEW d \in Docs PROVE Links(d)' = LinksAfter(d, judged)
  <2>1. Target(d)' = OwnedAfter(d, judged)
    BY PlanTarget
  <2>2. Links(d)' = Target(d)' \cup graph'.foreign[d]
    BY DEF Links
  <2> QED BY <2>1, <2>2 DEF LinksAfter
<1>4. Referenced(judged) \subseteq Known \cup Fresh(judged)
  <2>1. ASSUME NEW d \in Docs PROVE LinksAfter(d, judged) \subseteq Known \cup Fresh(judged)
    <3>1. snap.graph.owned[d] \cup snap.graph.foreign[d] \subseteq Known
      BY DEF GraphInv, LinksEndInTopics, Linked, Known
    <3> QED BY <3>1, CanonicalNames DEF LinksAfter, OwnedAfter
  <2> QED BY <2>1 DEF Referenced
<1>5. (graph'.topics \ plan'.drop) \cup plan'.topics = UNION {Links(d)' : d \in Docs}
  <2>1. UNION {Links(d)' : d \in Docs} = Referenced(judged)
    BY <1>3 DEF Referenced
  <2>2. Doomed(judged) = (Known \cup Fresh(judged)) \ Referenced(judged) /\ graph'.topics = Known
    BY DEF Doomed, Known
  <2>3. (Known \ P.drop) \cup P.topics = Referenced(judged)
    BY <1>2, <1>4, <2>2
  <2> QED BY <1>1, <2>1, <2>2, <2>3
<1>6. ASSUME NEW d \in Docs PROVE plan'.drop \cap Links(d)' = {}
  BY <1>1, <1>2, <1>3, ReferencedStay
<1>7. ASSUME NEW p \in Pairs PROVE RelatedAfter(p)' = Tidy(Cardinality(Sharing(p)))'
  <2> DEFINE n == Together(p, judged)
  <2>1. Cardinality(Sharing(p))' = n
    <3>1. Sharing(p)' = {d \in Docs : {p[1], p[2]} \subseteq LinksAfter(d, judged)}
      BY <1>3 DEF Sharing
    <3> QED BY <3>1 DEF Together
  <2>2. n \in Nat /\ RelatedMin \in Nat \ {0} /\ snap.graph.related[p] \in Nat
    BY TogetherCounts DEF BoundAssumption, TypeInv, TypeOK, Graphs
  <2>3. RelatedAfter(p)' = IF p \in P.relate THEN P.count[p]
                           ELSE IF p \in P.unrelate \/ {p[1], p[2]} \cap P.drop # {} THEN 0
                           ELSE snap.graph.related[p]
    BY <1>1 DEF RelatedAfter
  <2>4. (p \in P.relate <=> (n >= RelatedMin /\ n # snap.graph.related[p])) /\ P.count[p] = n
    BY <1>2
  <2>5. p \in P.unrelate <=> /\ snap.graph.related[p] > 0 /\ n < RelatedMin
                             /\ {p[1], p[2]} \cap Doomed(judged) = {}
    BY <1>2 DEF Unrelate
  <2>6. n >= RelatedMin => {p[1], p[2]} \cap Doomed(judged) = {}
    <3> SUFFICES ASSUME n >= RelatedMin PROVE {p[1], p[2]} \cap Doomed(judged) = {}
      OBVIOUS
    <3> DEFINE S == {d \in Docs : {p[1], p[2]} \subseteq LinksAfter(d, judged)}
    <3>3. Cardinality(S) = n
      BY DEF Together
    <3> HIDE DEF S, n
    <3>4. ASSUME S = {} PROVE FALSE
      <4>1. n = 0
        BY <3>3, <3>4, FS_EmptySet
      <4> QED BY <2>2, <4>1
    <3>1. {d \in Docs : {p[1], p[2]} \subseteq LinksAfter(d, judged)} # {}
      BY <3>4 DEF S
    <3>2. PICK d \in Docs : {p[1], p[2]} \subseteq LinksAfter(d, judged)
      BY <3>1
    <3> QED BY <3>2, ReferencedStay
  <2>7. snap.graph.related[p] # 0 => {p[1], p[2]} \subseteq Known
    BY DEF RelatedInv, Known
  <2> HIDE DEF n
  <2>8. RelatedAfter(p)' = IF n >= RelatedMin THEN n ELSE 0
    <3>1. CASE n >= RelatedMin
      <4>1. p \notin P.unrelate /\ {p[1], p[2]} \cap P.drop = {}
        BY <1>2, <2>2, <2>5, <2>6, <3>1
      <4> QED BY <2>3, <2>4, <3>1, <4>1
    <3>2. CASE ~(n >= RelatedMin)
      <4>1. p \notin P.relate
        BY <2>4, <3>2
      <4>2. CASE snap.graph.related[p] = 0
        BY <2>3, <3>2, <4>1, <4>2
      <4>3. CASE snap.graph.related[p] # 0
        <5>1. snap.graph.related[p] > 0 /\ n < RelatedMin
          BY <2>2, <3>2, <4>3
        <5>2. {p[1], p[2]} \cap P.drop = {p[1], p[2]} \cap Doomed(judged)
          BY <1>2, <2>7, <4>3
        <5> QED BY <2>3, <2>5, <3>2, <4>1, <5>1, <5>2
      <4> QED BY <4>2, <4>3
    <3> QED BY <3>1, <3>2
  <2> QED BY <2>1, <2>8 DEF Tidy
<1>8. ASSUME NEW d \in Docs, docs'[d] = 0
      PROVE  (graph'.rows[d] = 0 \/ d \in plan'.forget) /\ d \notin plan'.record
  BY <1>1, <1>2, <1>8 DEF TypeInv, Chosen
<1> QED BY <1>5, <1>6, <1>7, <1>8 DEF TidyPlan

LEMMA RelatedStep ==
  ASSUME TypeInv, RelatedInv(graph), RelatedInv(snap.graph), [Next]_vars
  PROVE  RelatedInv(graph)' /\ RelatedInv(snap.graph)'
<1>a. ASSUME UNCHANGED <<graph.topics, graph.related>> PROVE RelatedInv(graph)'
  BY <1>a DEF RelatedInv
<1>b. ASSUME UNCHANGED snap PROVE RelatedInv(snap.graph)'
  BY <1>b DEF RelatedInv
<1>1. CASE Bystanding /\ ~EditDoc /\ ~AgentLinks
  <2>1. UNCHANGED <<graph, snap>>
    BY <1>1 DEF Bystanding, RefuseNothingVisible, Submit, Answer, KeySpent, KeyRenewed, vars, runVars
  <2> QED BY <1>a, <1>b, <2>1
<1>2. CASE EditDoc
  <2>1. PICK d \in Docs, v \in Versions : graph' = IF v = 0 THEN WithoutDoc(graph, d) ELSE graph
    BY <1>2 DEF EditDoc
  <2>2. UNCHANGED <<graph.topics, graph.related>>
    BY <2>1 DEF WithoutDoc, TypeInv, TypeOK, Graphs
  <2> QED BY <1>a, <1>b, <1>2, <2>2 DEF EditDoc, runVars
<1>3. CASE AgentLinks
  <2>1. PICK d \in Docs, t \in graph.topics : graph' = [graph EXCEPT !.foreign[d] = @ \cup {t}]
    BY <1>3 DEF AgentLinks
  <2>2. UNCHANGED <<graph.topics, graph.related>>
    BY <2>1 DEF TypeInv, TypeOK, Graphs
  <2> QED BY <1>a, <1>b, <1>3, <2>2 DEF AgentLinks, runVars
<1>4. CASE Snapshot
  <2>1. UNCHANGED graph /\ snap'.graph = graph
    BY <1>4 DEF Snapshot
  <2> QED BY <2>1 DEF RelatedInv
<1>5. CASE Ending \/ CallFails \/ MakePlan
  <2>1. UNCHANGED <<graph, snap>>
    BY <1>5, Endings DEF CallFails, MakePlan, runVars
  <2> QED BY <1>a, <1>b, <2>1
<1>6. CASE ApplyStep
  <2>0. RelatedInv(snap.graph)'
    BY <1>b, <1>6, PlanShrinks
  <2>1. CASE Unlink
    BY <1>a, <2>0, <2>1, UnlinkIs
  <2>2. CASE Unrelated
    BY <2>0, <2>2, UnrelatedIs DEF RelatedInv
  <2>3. CASE Drop
    BY <2>0, <2>3, DropIs DEF RelatedInv
  <2>4. CASE Forget
    BY <1>a, <2>0, <2>4, ForgetIs
  <2>5. CASE LoadTopic
    BY <2>0, <2>5, LoadTopicIs DEF RelatedInv
  <2>6. CASE LoadLink
    BY <1>a, <2>0, <2>6, LoadLinkIs
  <2>7. CASE LoadRelated
    BY <2>0, <2>7, LoadRelatedIs DEF RelatedInv
  <2>8. CASE Record
    BY <1>a, <2>0, <2>8, RecordIs
  <2> QED BY <1>6, <2>1, <2>2, <2>3, <2>4, <2>5, <2>6, <2>7, <2>8 DEF ApplyStep
<1> QED BY <1>1, <1>2, <1>3, <1>4, <1>5, <1>6, NextCases

\* An apply step leaves what its plan leads to.
LEMMA ApplyTidy ==
  ASSUME TypeInv, ApplyStep, TidyPlan, UNCHANGED docs
  PROVE  TidyPlan'
<1>a. ASSUME \A d \in Docs : Links(d)' = Links(d)
      PROVE  /\ UNION {Links(d)' : d \in Docs} = UNION {Links(d) : d \in Docs}
             /\ \A p \in Pairs : Tidy(Cardinality(Sharing(p)))' = Tidy(Cardinality(Sharing(p)))
  <2>1. UNION {Links(d)' : d \in Docs} = UNION {Links(d) : d \in Docs}
    BY <1>a
  <2>2. ASSUME NEW p \in Pairs PROVE Sharing(p)' = Sharing(p)
    BY <1>a DEF Sharing
  <2> QED BY <2>1, <2>2 DEF Tidy
\* The four parts, of which a step disturbs at most one.
<1>b. ASSUME \A d \in Docs : Links(d)' = Links(d), plan'.drop \subseteq plan.drop,
             (graph'.topics \ plan'.drop) \cup plan'.topics = (graph.topics \ plan.drop) \cup plan.topics,
             \A p \in Pairs : RelatedAfter(p)' = RelatedAfter(p),
             \A d \in Docs : docs[d] = 0 => (graph'.rows[d] = 0 \/ d \in plan'.forget) /\ d \notin plan'.record
      PROVE  TidyPlan'
  <2>1. (graph'.topics \ plan'.drop) \cup plan'.topics = UNION {Links(d)' : d \in Docs}
    BY <1>a, <1>b DEF TidyPlan
  <2>2. \A d \in Docs : plan'.drop \cap Links(d)' = {}
    BY <1>b DEF TidyPlan
  <2>3. \A p \in Pairs : RelatedAfter(p)' = Tidy(Cardinality(Sharing(p)))'
    BY <1>a, <1>b DEF TidyPlan
  <2> QED BY <1>b, <2>1, <2>2, <2>3 DEF TidyPlan
<1>c. ASSUME ~Drop, UNCHANGED graph.foreign PROVE \A d \in Docs : Links(d)' = Links(d)
  BY <1>c, TargetSame DEF Links
<1>d. ASSUME UNCHANGED <<graph.related, plan.relate, plan.count, plan.unrelate, plan.drop>>
      PROVE  \A p \in Pairs : RelatedAfter(p)' = RelatedAfter(p)
  BY <1>d DEF RelatedAfter
<1>e. \A d \in Docs : docs[d] = 0 => (graph.rows[d] = 0 \/ d \in plan.forget) /\ d \notin plan.record
  BY DEF TidyPlan
<1>1. CASE Unlink
  <2>1. ~Drop
    BY <1>1 DEF Unlink, Drop
  <2> QED BY <1>1, <1>b, <1>c, <1>d, <1>e, <2>1, UnlinkIs
<1>2. CASE Unrelated
  <2>1. ~Drop
    BY <1>2 DEF Unrelated, Drop
  <2>2. \A p \in Pairs : RelatedAfter(p)' = RelatedAfter(p)
    BY <1>2, UnrelatedIs DEF RelatedAfter
  <2> QED BY <1>2, <1>b, <1>c, <1>e, <2>1, <2>2, UnrelatedIs
<1>3. CASE Drop
  <2>1. PICK t \in plan.drop :
          /\ plan.unlink = {} /\ plan.unrelate = {} /\ graph'.topics = graph.topics \ {t}
          /\ \A d \in Docs : graph'.owned[d] = graph.owned[d] \ {t} /\ graph'.foreign[d] = graph.foreign[d] \ {t}
          /\ \A p \in Pairs : graph'.related[p] = IF t \in {p[1], p[2]} THEN 0 ELSE graph.related[p]
          /\ plan'.drop = plan.drop \ {t}
          /\ UNCHANGED <<graph.rows, plan.unlink, plan.unrelate, plan.forget, plan.topics, plan.link,
                         plan.relate, plan.count, plan.record>>
    BY <1>3, DropIs
  <2>2. ASSUME NEW d \in Docs PROVE Links(d)' = Links(d)
    <3>1. t \notin Links(d)
      BY <2>1 DEF TidyPlan
    <3>2. t \notin Target(d) /\ t \notin graph.foreign[d]
      BY <3>1 DEF Links
    <3>3. Target(d)' = Target(d)
      BY <2>1, <3>2 DEF Target
    <3> QED BY <2>1, <3>2, <3>3 DEF Links
  <2>3. ASSUME NEW p \in Pairs PROVE RelatedAfter(p)' = RelatedAfter(p)
    <3>1. CASE p \in plan.relate
      BY <2>1, <3>1 DEF RelatedAfter
    <3>2. CASE p \notin plan.relate /\ {p[1], p[2]} \cap plan.drop = {}
      BY <2>1, <3>2 DEF RelatedAfter
    <3>3. CASE p \notin plan.relate /\ {p[1], p[2]} \cap plan.drop # {}
      <4>1. RelatedAfter(p) = 0
        BY <3>3 DEF RelatedAfter
      <4>2. CASE t \in {p[1], p[2]}
        <5>1. graph'.related[p] = 0 /\ p \notin plan'.relate
          BY <2>1, <3>3, <4>2
        <5> QED BY <4>1, <5>1 DEF RelatedAfter
      <4>3. CASE t \notin {p[1], p[2]}
        <5>1. {p[1], p[2]} \cap plan'.drop # {} /\ p \notin plan'.relate
          BY <2>1, <3>3, <4>3
        <5> QED BY <4>1, <5>1 DEF RelatedAfter
      <4> QED BY <4>2, <4>3
    <3> QED BY <3>1, <3>2, <3>3
  <2> QED BY <1>b, <1>e, <2>1, <2>2, <2>3
<1>4. CASE Forget
  <2>1. ~Drop
    BY <1>4, ForgetIs DEF Pruned, Drop
  <2>2. \A d \in Docs : docs[d] = 0 => (graph'.rows[d] = 0 \/ d \in plan'.forget) /\ d \notin plan'.record
    BY <1>4, <1>e, ForgetIs
  <2> QED BY <1>4, <1>b, <1>c, <1>d, <2>1, <2>2, ForgetIs
<1>5. CASE LoadTopic
  <2>0. PICK t \in plan.topics :
          /\ Pruned /\ graph'.topics = graph.topics \cup {t} /\ plan'.topics = plan.topics \ {t}
          /\ UNCHANGED <<graph.owned, graph.foreign, graph.related, graph.rows>>
          /\ UNCHANGED <<plan.unlink, plan.unrelate, plan.drop, plan.forget, plan.link,
                         plan.relate, plan.count, plan.record>>
    BY <1>5, LoadTopicIs
  <2>1. ~Drop /\ plan.drop = {}
    BY <2>0 DEF Pruned, Drop
  <2>2. (graph'.topics \ plan'.drop) \cup plan'.topics = (graph.topics \ plan.drop) \cup plan.topics
    BY <2>0, <2>1
  <2> QED BY <1>b, <1>c, <1>d, <1>e, <2>0, <2>1, <2>2
<1>6. CASE LoadLink
  <2>1. ~Drop
    BY <1>6, LoadLinkIs DEF NodesLoaded, Pruned, Drop
  <2> QED BY <1>6, <1>b, <1>c, <1>d, <1>e, <2>1, LoadLinkIs
<1>7. CASE LoadRelated
  <2>1. ~Drop /\ plan.drop = {} /\ plan.unrelate = {}
    BY <1>7, LoadRelatedIs DEF NodesLoaded, Pruned, Drop
  <2>2. \A p \in Pairs : RelatedAfter(p)' = RelatedAfter(p)
    BY <1>7, <2>1, LoadRelatedIs DEF RelatedAfter
  <2> QED BY <1>7, <1>b, <1>c, <1>e, <2>1, <2>2, LoadRelatedIs
<1>8. CASE Record
  <2>0. PICK d \in plan.record :
          /\ EdgesLoaded
          /\ \A f \in Docs : graph'.rows[f] = IF f = d THEN snap.docs[d] ELSE graph.rows[f]
          /\ plan'.record = plan.record \ {d}
          /\ UNCHANGED <<graph.topics, graph.aliases, graph.owned, graph.foreign, graph.related>>
          /\ UNCHANGED <<plan.unlink, plan.unrelate, plan.drop, plan.forget, plan.topics, plan.aliases, plan.link,
                         plan.relate, plan.count>>
    BY <1>8, RecordIs
  <2>1. ~Drop
    BY <2>0 DEF EdgesLoaded, NodesLoaded, Pruned, Drop
  <2>2. \A f \in Docs : docs[f] = 0 => (graph'.rows[f] = 0 \/ f \in plan'.forget) /\ f \notin plan'.record
    BY <1>e, <2>0
  <2> QED BY <1>b, <1>c, <1>d, <2>0, <2>1, <2>2
<1> QED BY <1>1, <1>2, <1>3, <1>4, <1>5, <1>6, <1>7, <1>8 DEF ApplyStep


\* The run that ends with its plan carried out leaves what the plan led to.
LEMMA FinishTidy ==
  ASSUME TypeInv, Finish, TidyPlan
  PROVE  CompleteRunTidy'
<1>0. plan.unlink = {} /\ plan.unrelate = {} /\ plan.drop = {} /\ plan.forget = {} /\ plan.topics = {}
      /\ plan.link = {} /\ plan.relate = {} /\ UNCHANGED <<docs, graph>>
  BY DEF Finish, Applied, EdgesLoaded, NodesLoaded, Pruned, Ends
<1>1. ASSUME NEW d \in Docs PROVE Links(d) = Linked(graph, d) /\ Linked(graph, d)' = Linked(graph, d)
  BY <1>0 DEF Links, Linked, Target
<1>2. graph'.topics = UNION {Linked(graph, d)' : d \in Docs}
  <2>1. UNION {Links(d) : d \in Docs} = UNION {Linked(graph, d)' : d \in Docs}
    BY <1>1
  <2> QED BY <1>0, <2>1 DEF TidyPlan
<1>3. ASSUME NEW p \in Pairs
      PROVE  graph'.related[p] = Tidy(Cardinality({d \in Docs : {p[1], p[2]} \subseteq Linked(graph, d)'}))
  <2>1. Sharing(p) = {d \in Docs : {p[1], p[2]} \subseteq Linked(graph, d)'}
    BY <1>1 DEF Sharing
  <2>2. graph'.related[p] = RelatedAfter(p)
    BY <1>0 DEF RelatedAfter
  <2> QED BY <2>1, <2>2 DEF TidyPlan
<1>4. \A d \in Docs : docs'[d] = 0 => graph'.rows[d] = 0
  BY <1>0 DEF TidyPlan
<1> QED BY <1>2, <1>3, <1>4 DEF CompleteRunTidy, Tidy

LEMMA TidyStep ==
  ASSUME SetsAssumption, BoundAssumption, TypeInv, GraphInv, TidyInv, [Next]_vars
  PROVE  TidyInv'
<1>r. RelatedInv(graph)' /\ RelatedInv(snap.graph)'
  BY RelatedStep DEF TidyInv
<1>p. phase' \in {"idle", "extract", "apply"} /\ quiet' \in BOOLEAN
  BY TypeStep DEF TypeInv, TypeOK
<1>a. ASSUME quiet' = FALSE PROVE TidyInv'
  BY <1>a, <1>r DEF TidyInv
<1>b. ASSUME UNCHANGED <<docs, graph, snap, phase, plan>>, quiet' => quiet PROVE TidyInv'
  <2>1. CASE quiet' = FALSE
    BY <1>a, <2>1
  <2>2. CASE quiet' = TRUE
    <3>1. CompleteRunTidy' <=> ((phase = "idle" /\ quiet') => CompleteRunTidy)
      BY <1>b, <2>2 DEF CompleteRunTidy, Linked
    <3>2. TidyPlan' <=> TidyPlan
      BY <1>b DEF TidyPlan, Links, Target, Sharing, RelatedAfter, Tidy
    <3> QED BY <1>b, <1>r, <3>1, <3>2 DEF TidyInv
  <2> QED BY <1>p, <2>1, <2>2
<1>1. CASE Bystanding /\ ~EditDoc /\ ~AgentLinks
  <2>1. UNCHANGED <<docs, graph, snap, phase, plan>> /\ (quiet' => quiet)
    BY <1>1 DEF Bystanding, RefuseNothingVisible, Submit, Answer, KeySpent, KeyRenewed, vars, runVars
  <2> QED BY <1>b, <2>1
<1>2. CASE EditDoc \/ AgentLinks
  BY <1>a, <1>2 DEF EditDoc, AgentLinks
<1>3. CASE Snapshot
  <2>1. UNCHANGED <<docs, graph>> /\ phase' = "extract" /\ snap'.docs = docs' /\ snap'.graph = graph'
    BY <1>3 DEF Snapshot
  <2> QED BY <1>r, <2>1 DEF TidyInv
<1>4. CASE CallFails
  <2>1. UNCHANGED <<docs, graph, snap>> /\ phase = "extract"
    BY <1>4 DEF CallFails
  <2>2. quiet' => quiet /\ phase' = "extract"
    BY <1>4 DEF CallFails
  <2> QED BY <1>r, <2>1, <2>2 DEF TidyInv
<1>5. CASE MakePlan
  <2>1. UNCHANGED <<docs, graph, snap, quiet>> /\ phase = "extract" /\ phase' = "apply"
    BY <1>5 DEF MakePlan, runVars
  <2>2. PICK judged \in BOOLEAN : plan' = PlanOf(judged)
    BY <1>5 DEF MakePlan
  <2>3. CASE quiet
    <3>1. docs = snap.docs /\ graph = snap.graph /\ RelatedInv(snap.graph)
      BY <2>1, <2>3 DEF TidyInv
    <3>2. TidyPlan'
      BY <2>1, <2>2, <3>1, PlanTidy
    <3> QED BY <1>r, <2>1, <3>2 DEF TidyInv
  <2>4. CASE ~quiet
    BY <1>r, <2>1, <2>4 DEF TidyInv
  <2> QED BY <2>3, <2>4
<1>6. CASE ApplyStep
  <2>1. UNCHANGED <<docs, quiet, phase>> /\ phase = "apply"
    BY <1>6 DEF ApplyStep, Unlink, Unrelated, Drop, Forget, LoadTopic, LoadLink, LoadRelated, Record
  <2>2. CASE quiet
    <3>1. TidyPlan'
      BY <1>6, <2>1, <2>2, ApplyTidy DEF TidyInv
    <3> QED BY <1>r, <2>1, <3>1 DEF TidyInv
  <2>3. CASE ~quiet
    BY <1>r, <2>1, <2>3 DEF TidyInv
  <2> QED BY <2>2, <2>3
<1>7. CASE Ending
  <2>1. CASE Finish
    <3>1. phase = "apply" /\ phase' = "idle" /\ quiet' = quiet
      BY <2>1 DEF Finish, Ends, TypeInv, TypeOK
    <3>2. CASE quiet
      <4>1. CompleteRunTidy'
        BY <2>1, <3>1, <3>2, FinishTidy DEF TidyInv
      <4> QED BY <1>r, <3>1, <4>1 DEF TidyInv
    <3>3. CASE ~quiet
      BY <1>r, <3>1, <3>3 DEF TidyInv
    <3> QED BY <3>2, <3>3
  <2>2. CASE Refused \/ Fail
    <3>1. quiet' = FALSE
      BY <2>2 DEF Refused, Fail, Ends
    <3> QED BY <1>a, <3>1
  <2> QED BY <1>7, <2>1, <2>2 DEF Ending
<1> QED BY <1>1, <1>2, <1>3, <1>4, <1>5, <1>6, <1>7, NextCases

\* A run that applied everything while nobody else wrote leaves no topic nothing links
\* to, every pair of topics with its present count, and no Distillation row of a
\* document that is gone (build_plan and apply.sh, distill.py).
THEOREM RunTidy == Spec => []CompleteRunTidy
<1>1. Init => TypeInv /\ GraphInv /\ TidyInv
  <2>1. ASSUME Init PROVE TidyInv
    <3>1. phase = "idle" /\ quiet = FALSE /\ graph = EmptyGraph /\ snap.graph = EmptyGraph
      BY <2>1 DEF Init
    <3>2. RelatedInv(EmptyGraph)
      BY DEF RelatedInv, EmptyGraph
    <3> QED BY <3>1, <3>2 DEF TidyInv
  <2> QED BY <2>1, TypeInit, TopicsInit, SetsAssumption, BoundAssumption
<1>2. TypeInv /\ GraphInv /\ TidyInv /\ [Next]_vars => TypeInv' /\ GraphInv' /\ TidyInv'
  BY TypeStep, GraphStep, TidyStep, SetsAssumption, BoundAssumption
<1>3. TidyInv => CompleteRunTidy
  BY DEF TidyInv, CompleteRunTidy
<1> QED BY <1>1, <1>2, <1>3, PTL DEF Spec

\* Both, as the runs of the project check them: whoever writes beside the distiller, names
\* of one concept lead to one topic, and a complete run leaves nothing unsupported.
THEOREM TopicsStayTidy == Spec => []TopicsTidy
<1>1. OneTopicPerConcept /\ CompleteRunTidy => TopicsTidy
  BY DEF TopicsTidy
<1> QED BY <1>1, TopicsUnique, RunTidy, PTL

-----------------------------------------------------------------------------
(* The tools server: ToolsInv, of the requests and the caches they share. *)

Profiles == {"none", "p0", "p1", "read"}
QuestionType == [profile : Profiles, pin : 0..LastCommit, terms : BOOLEAN, rerank : BOOLEAN, note : BOOLEAN]
RequestType ==
  [phase : Tools!Phases, question : QuestionType, vector : BOOLEAN, left : SUBSET Tools!AllLegs,
   rows : [Tools!AllLegs -> 0..LastCommit], refused : SUBSET Tools!AllLegs, down : SUBSET Tools!AllLegs,
   load : {"none", "loading", "loaded", "failed"}, waits : SUBSET Requests, index : 0..LastCommit,
   late : BOOLEAN, reranked : BOOLEAN, outcome : Tools!Outcomes]

Answered(q) == q.phase = "done" /\ q.outcome = "ok"
Searches(q) == q.question.profile \in {"p0", "p1"}

\* Its rows are on their way, or there.
Collects(q) == q.phase \in {"legs", "bots", "cold", "wait", "rank", "rerank"} \/ Answered(q)

\* The queries that a search asks.
Begun(q) == IF q.question.profile = "p0" THEN Tools!ToSet(Recall) ELSE Tools!Planned(q)

\* A request that has asked nothing yet.
Blank(q) ==
  /\ q.left = {} /\ q.rows = [l \in Tools!AllLegs |-> 0] /\ q.refused = {} /\ q.down = {}
  /\ q.load = "none" /\ q.waits = {} /\ q.index = 0 /\ ~q.late /\ ~q.reranked /\ ~q.vector

\* What a request holds in each phase: a search that is pinned has its rows from there,
\* all but those that were refused, and its bot index as well.
RequestInv(q) ==
  /\ q \in RequestType
  /\ q.phase = "idle" => Blank(q)
  /\ q.phase = "embed" => Blank(q) /\ q.question.profile = "p1"
  /\ q.phase \in {"legs", "bots"} => q.load = "none" /\ q.waits = {} /\ q.index = 0 /\ ~q.reranked
  /\ q.phase = "legs" \/ Answered(q) => q.question.profile # "none"
  /\ q.phase = "bots" => q.question.profile = "p1"
  /\ q.phase = "cold" => q.question.pin = 0 /\ q.waits = {} /\ q.load = "none" /\ q.index = 0
  /\ q.phase = "wait" => q.question.pin # 0 /\ q.index = 0 /\ q.waits # {}
  /\ q.phase \in {"cold", "wait", "rank", "rerank"} => Searches(q)
  /\ q.phase \in {"bots", "cold", "wait", "rank", "rerank"} \/ Answered(q) => q.left = {} /\ q.down = {}
  /\ q.question.profile # "p1" => q.refused = {} /\ q.down = {}
  /\ q.question.pin # 0 => q.index \in {0, q.question.pin}
  /\ q.phase # "done" => ~q.reranked
  /\ Collects(q) /\ Searches(q) /\ q.question.pin # 0 =>
       /\ q.left \subseteq Begun(q) /\ q.left \cap (q.refused \cup q.down) = {}
       /\ \A l \in Tools!AllLegs :
            q.rows[l] = IF l \in Begun(q) \ (q.left \cup q.refused \cup q.down) THEN q.question.pin ELSE 0

\* Past its deadline a request waits for what others bound, and goes on only with an index
\* that is not its own load.
LateInv(r, q) ==
  q.late =>
    /\ q.phase \in {"cold", "wait", "rank", "rerank", "done"}
    /\ q.phase = "wait" /\ r \in q.waits => q.load # "loaded"
    /\ q.phase \in {"rank", "rerank"} \/ Answered(q) => q.index # 0 /\ r \notin q.waits
    /\ Answered(q) => ~q.question.rerank \/ Len(Tools!Sources(q)) < 2

\* A load of the index of a commit is begun by a request that pins it, and whoever waits
\* for the load pins the same.
Loads(b, commit) == requests[b].load # "none" /\ requests[b].question.pin = commit

ToolsInv ==
  /\ head \in Tools!Commits /\ contractOk \in BOOLEAN /\ toolTroubles \in 0..MaxToolTroubles
  /\ headBots \in 0..LastCommit /\ loads \in [Requests \cup {"timer"} -> 0..LastCommit]
  /\ pinned \in Seq([commit : Tools!Commits, by : Requests]) /\ Len(pinned) <= PinnedEntries
  /\ DOMAIN requests = Requests
  /\ \A r \in Requests : RequestInv(requests[r]) /\ LateInv(r, requests[r])
  /\ \A i \in DOMAIN pinned : Loads(pinned[i].by, pinned[i].commit)
  /\ \A r \in Requests :
       /\ \A b \in requests[r].waits : Loads(b, requests[r].question.pin)
       /\ r \in requests[r].waits => requests[r].waits = {r}
  /\ \A r \in Requests : loads[r] # 0 => requests[r].phase = "cold"

\* A request that ends without an answer keeps what others wait for.
LEMMA EndsWithout ==
  ASSUME Tools!ToolsAssumption, NEW r \in Requests, NEW q, RequestInv(q), NEW o \in {"failed", "timeout", "not_found"}
  PROVE  LET new == Tools!Ended(q, o)
         IN  /\ RequestInv(new) /\ LateInv(r, new) /\ new.load = q.load /\ new.question = q.question
             /\ new.waits = {} /\ new.phase = "done"
<1> DEFINE new == Tools!Ended(q, o)
<1>1. new = [phase |-> "done", question |-> q.question, vector |-> FALSE, left |-> {},
             rows |-> [l \in Tools!AllLegs |-> 0], refused |-> {}, down |-> {}, load |-> q.load, waits |-> {},
             index |-> 0, late |-> FALSE, reranked |-> FALSE, outcome |-> o]
  BY DEF Tools!Ended, Tools!NoRequest
<1>2. q.question \in QuestionType /\ q.load \in {"none", "loading", "loaded", "failed"}
  BY DEF RequestInv, RequestType
<1> HIDE DEF new
<1>3. new \in RequestType
  <2>1. 0 \in 0..LastCommit
    BY DEF Tools!ToolsAssumption
  <2> QED
    BY <1>1, <1>2, <2>1 DEF RequestType, Tools!Phases, Tools!Outcomes
<1>4. RequestInv(new)
  BY <1>1, <1>3 DEF RequestInv, Answered, Collects
<1>5. LateInv(r, new)
  BY <1>1 DEF LateInv
<1> QED
  BY <1>1, <1>4, <1>5 DEF new

\* A request ends with its answer once all it has begun has come.
LEMMA EndsWith ==
  ASSUME Tools!ToolsAssumption, NEW r \in Requests, NEW q, RequestInv(q), q.left = {}, q.down = {}, Collects(q), q.question.profile # "none",
         q.late => q.index # 0 /\ r \notin q.waits /\ (~q.question.rerank \/ Len(Tools!Sources(q)) < 2),
         NEW b \in BOOLEAN
  PROVE  LET new == Tools!Ended([q EXCEPT !.reranked = b], "ok")
         IN  /\ RequestInv(new) /\ LateInv(r, new) /\ new.load = q.load /\ new.question = q.question
             /\ new.waits = q.waits /\ new.phase = "done"
<1> DEFINE new == Tools!Ended([q EXCEPT !.reranked = b], "ok")
<1>1. q \in RequestType
  BY DEF RequestInv
<1>2. new = [q EXCEPT !.reranked = b, !.phase = "done", !.outcome = "ok"]
  BY DEF Tools!Ended
<1>3. /\ new.phase = "done" /\ new.outcome = "ok" /\ new.question = q.question /\ new.vector = q.vector
      /\ new.left = q.left /\ new.rows = q.rows /\ new.refused = q.refused /\ new.down = q.down /\ new.load = q.load
      /\ new.waits = q.waits /\ new.index = q.index /\ new.late = q.late /\ new \in RequestType
  BY <1>1, <1>2 DEF RequestType, Tools!Phases, Tools!Outcomes
<1> HIDE DEF new
<1>4. Begun(new) = Begun(q) /\ Tools!Sources(new) = Tools!Sources(q)
  BY <1>3 DEF Begun, Tools!Planned, Tools!Sources
<1>5. RequestInv(new)
  BY <1>3, <1>4 DEF RequestInv, Answered, Collects, Searches
<1>6. LateInv(r, new)
  BY <1>3, <1>4 DEF LateInv, Answered
<1> QED
  BY <1>3, <1>5, <1>6 DEF new

LEMMA SeqElements ==
  ASSUME NEW S, NEW s \in Seq(S)
  PROVE  DOMAIN s = 1..Len(s) /\ \A i \in DOMAIN s : s[i] \in S
OBVIOUS

\* A step of one request leaves everything that others rely on.
LEMMA RequestMoves ==
  ASSUME Tools!ToolsAssumption, ToolsInv, NEW r \in Requests, NEW new, Tools!Update(r, new),
         RequestInv(new), LateInv(r, new),
         requests[r].load # "none" => new.load # "none" /\ new.question.pin = requests[r].question.pin,
         new.waits = {} \/ (new.waits = requests[r].waits /\ new.question.pin = requests[r].question.pin)
           \/ (new.waits = {r} /\ new.load # "none") \/ (r \notin new.waits /\ \A b \in new.waits : Loads(b, new.question.pin)),
         head' = head, contractOk' \in BOOLEAN, toolTroubles' \in 0..MaxToolTroubles, headBots' \in 0..LastCommit,
         pinned' \in Seq([commit : Tools!Commits, by : Requests]), Len(pinned') <= PinnedEntries,
         \A i \in DOMAIN pinned' :
           \/ \E j \in DOMAIN pinned : pinned'[i] = pinned[j]
           \/ pinned'[i].by = r /\ pinned'[i].commit = new.question.pin /\ new.load # "none",
         loads' \in [Requests \cup {"timer"} -> 0..LastCommit],
         \A q \in Requests : loads'[q] # 0 => (q # r /\ loads[q] # 0) \/ (q = r /\ new.phase = "cold")
  PROVE  ToolsInv'
<1>1. /\ DOMAIN requests' = Requests /\ requests'[r] = new
      /\ \A q \in Requests : q # r => requests'[q] = requests[q]
  BY DEF ToolsInv, Tools!Update
<1>4. \A q \in Requests : RequestInv(requests'[q]) /\ LateInv(q, requests'[q])
  BY <1>1 DEF ToolsInv
<1>5. \A q \in Requests : requests[q].waits \subseteq Requests
  BY DEF ToolsInv, RequestInv, RequestType
<1>6. new.waits \subseteq Requests
  BY DEF RequestInv, RequestType
<1>7. ASSUME NEW i \in DOMAIN pinned'
      PROVE  Loads(pinned[i].by, pinned[i].commit)'
  <2>1. pinned'[i].by \in Requests
    <3>1. pinned'[i] \in [commit : Tools!Commits, by : Requests]
      BY SeqElements, Zenon
    <3> QED
      BY <3>1
  <2>2. CASE \E j \in DOMAIN pinned : pinned'[i] = pinned[j]
    <3>1. Loads(pinned'[i].by, pinned'[i].commit)
      BY <2>2 DEF ToolsInv
    <3> QED
      BY <1>1, <2>1, <3>1 DEF Loads
  <2>3. CASE pinned'[i].by = r /\ pinned'[i].commit = new.question.pin /\ new.load # "none"
    BY <1>1, <2>3 DEF Loads
  <2> QED
    BY <2>2, <2>3
<1>8. ASSUME NEW q \in Requests
      PROVE  /\ \A b \in requests'[q].waits : Loads(b, requests[q].question.pin)'
             /\ q \in requests'[q].waits => requests'[q].waits = {q}
  <2>1. CASE q # r
    <3>1. /\ requests'[q] = requests[q] /\ \A b \in requests[q].waits : b \in Requests /\ Loads(b, requests[q].question.pin)
          /\ q \in requests[q].waits => requests[q].waits = {q}
      BY <1>1, <1>5, <2>1 DEF ToolsInv
    <3> QED
      BY <1>1, <3>1 DEF Loads
  <2>2. CASE q = r
    <3>1. CASE new.waits = requests[r].waits /\ new.question.pin = requests[r].question.pin
      <4>1. /\ \A b \in requests[r].waits : b \in Requests /\ Loads(b, requests[r].question.pin)
            /\ r \in requests[r].waits => requests[r].waits = {r}
        BY <1>5 DEF ToolsInv
      <4> QED
        BY <1>1, <2>2, <3>1, <4>1 DEF Loads
    <3>2. CASE new.waits = {} \/ (new.waits = {r} /\ new.load # "none")
      BY <1>1, <2>2, <3>2 DEF Loads
    <3>3. CASE r \notin new.waits /\ \A b \in new.waits : Loads(b, new.question.pin)
      BY <1>1, <1>6, <2>2, <3>3 DEF Loads
    <3> QED
      BY <3>1, <3>2, <3>3
  <2> QED
    BY <2>1, <2>2
<1>9. \A q \in Requests : loads'[q] # 0 => requests'[q].phase = "cold"
  BY <1>1 DEF ToolsInv
<1> QED
  BY <1>1, <1>4, <1>7, <1>8, <1>9 DEF ToolsInv

\* ... when the server and its caches stay as they are.
LEMMA RequestMovesAlone ==
  ASSUME Tools!ToolsAssumption, ToolsInv, NEW r \in Requests, NEW new, Tools!Update(r, new),
         RequestInv(new), LateInv(r, new),
         requests[r].load # "none" => new.load # "none" /\ new.question.pin = requests[r].question.pin,
         new.waits = {} \/ (new.waits = requests[r].waits /\ new.question.pin = requests[r].question.pin)
           \/ (new.waits = {r} /\ new.load # "none") \/ (r \notin new.waits /\ \A b \in new.waits : Loads(b, new.question.pin)),
         Tools!ServerUnchanged, Tools!CachesUnchanged, toolTroubles' \in 0..MaxToolTroubles,
         requests[r].phase = "cold" => new.phase = "cold"
  PROVE  ToolsInv'
<1>1. /\ head' = head /\ contractOk' = contractOk /\ headBots' = headBots /\ loads' = loads /\ pinned' = pinned
  BY DEF Tools!ServerUnchanged, Tools!CachesUnchanged
<1>2. /\ contractOk \in BOOLEAN /\ headBots \in 0..LastCommit /\ loads \in [Requests \cup {"timer"} -> 0..LastCommit]
      /\ pinned \in Seq([commit : Tools!Commits, by : Requests]) /\ Len(pinned) <= PinnedEntries
      /\ \A q \in Requests : loads[q] # 0 => requests[q].phase = "cold"
  BY DEF ToolsInv
<1>3. \A q \in Requests : loads'[q] # 0 => (q # r /\ loads[q] # 0) \/ (q = r /\ new.phase = "cold")
  BY <1>1, <1>2
<1>4. \A i \in DOMAIN pinned' : \E j \in DOMAIN pinned : pinned'[i] = pinned[j]
  BY <1>1
<1> QED
  BY <1>1, <1>2, <1>3, <1>4, RequestMoves

LEMMA TroubleCounts ==
  ASSUME Tools!ToolsAssumption, ToolsInv
  PROVE  /\ toolTroubles' = toolTroubles => toolTroubles' \in 0..MaxToolTroubles
         /\ Tools!Trouble => toolTroubles' \in 0..MaxToolTroubles
BY DEF ToolsInv, Tools!Trouble, Tools!ToolsAssumption

LEMMA RequestHas ==
  ASSUME ToolsInv, NEW r \in Requests
  PROVE  RequestInv(requests[r]) /\ LateInv(r, requests[r]) /\ requests[r] \in RequestType
BY DEF ToolsInv, RequestInv

\* The queries begin.
LEMMA LegsBegin ==
  ASSUME Tools!ToolsAssumption, NEW r \in Requests, NEW q \in RequestType, NEW v \in BOOLEAN,
         Blank(q), q.question.profile \in {"p0", "p1", "read"}
  PROVE  LET new == Tools!WithLegs([q EXCEPT !.vector = v])
         IN  /\ RequestInv(new) /\ LateInv(r, new) /\ new.load = "none" /\ new.waits = {}
             /\ new.question = q.question
<1> DEFINE old == [q EXCEPT !.vector = v]
           new == Tools!WithLegs(old)
<1>1. /\ old \in RequestType /\ old.question = q.question /\ old.vector = v /\ old.rows = q.rows
      /\ old.refused = q.refused /\ old.down = q.down /\ old.load = q.load /\ old.waits = q.waits
      /\ old.index = q.index /\ old.late = q.late /\ old.reranked = q.reranked
  BY DEF RequestType
<1> HIDE DEF old
<1>2. Tools!Planned(old) \subseteq Tools!AllLegs /\ Tools!ToSet(Recall) \subseteq Tools!AllLegs
      /\ {"card", "window"} \subseteq Tools!AllLegs
  BY DEF Tools!Planned, Tools!AllLegs
<1> DEFINE left == IF q.question.profile = "p0" THEN Tools!ToSet(Recall)
                   ELSE IF q.question.profile = "p1" THEN Tools!Planned(old) ELSE {"card", "window"}
<1>3. left \subseteq Tools!AllLegs
  BY <1>2
<1>4. new = [old EXCEPT !.phase = "legs", !.left = left]
  BY <1>1 DEF Tools!WithLegs
<1> HIDE DEF left
<1>5. /\ new \in RequestType /\ new.phase = "legs" /\ new.left = left /\ new.question = q.question /\ new.vector = v
      /\ new.rows = q.rows /\ new.refused = {} /\ new.down = {} /\ new.load = "none" /\ new.waits = {}
      /\ new.index = 0 /\ ~new.late /\ ~new.reranked
  BY <1>1, <1>3, <1>4 DEF RequestType, Tools!Phases, Blank
<1>6. Searches(new) => left = Begun(new)
  BY <1>1, <1>5 DEF left, Searches, Begun, Tools!Planned
<1> HIDE DEF new
<1>7. \A l \in Tools!AllLegs : new.rows[l] = 0
  BY <1>5 DEF Blank
<1>8. RequestInv(new)
  BY <1>5, <1>6, <1>7 DEF RequestInv, Answered
<1>9. LateInv(r, new)
  BY <1>5 DEF LateInv
<1> QED
  BY <1>5, <1>8, <1>9 DEF new, old

LEMMA AskedFirst ==
  ASSUME Tools!ToolsAssumption, NEW asked \in QuestionType
  PROVE  LET rec == [Tools!NoRequest EXCEPT !.question = asked]
         IN  /\ rec \in RequestType /\ Blank(rec) /\ rec.question = asked
             /\ rec = [rec EXCEPT !.vector = FALSE]
<1> DEFINE rec == [Tools!NoRequest EXCEPT !.question = asked]
           zero == [l \in Tools!AllLegs |-> 0]
<1>0. zero \in [Tools!AllLegs -> 0..LastCommit]
  BY DEF Tools!ToolsAssumption
<1> HIDE DEF zero
<1>1. 0 \in 0..LastCommit
  BY DEF Tools!ToolsAssumption
<1>2. Tools!NoRequest = [phase |-> "idle", question |-> Tools!None, vector |-> FALSE, left |-> {},
             rows |-> zero, refused |-> {}, down |-> {}, load |-> "none", waits |-> {},
             index |-> 0, late |-> FALSE, reranked |-> FALSE, outcome |-> "none"]
  BY DEF Tools!NoRequest, zero
<1>3. /\ rec.phase = "idle" /\ rec.question = asked /\ rec.vector = FALSE /\ rec.left = {} /\ rec.rows = zero
      /\ rec.refused = {} /\ rec.down = {} /\ rec.load = "none" /\ rec.waits = {} /\ rec.index = 0
      /\ rec.late = FALSE /\ rec.reranked = FALSE
  BY <1>2
<1>4. rec \in RequestType
  BY <1>0, <1>1, <1>2 DEF RequestType, Tools!Phases, Tools!Outcomes
<1> HIDE DEF rec
<1>5. rec = [rec EXCEPT !.vector = FALSE]
  BY <1>3, <1>4 DEF RequestType
<1>6. Blank(rec)
  BY <1>3 DEF Blank, zero
<1> QED
  BY <1>3, <1>4, <1>5, <1>6 DEF rec

LEMMA AskInv ==
  ASSUME Tools!ToolsAssumption, ToolsInv, NEW r \in Requests, Tools!Ask(r)
  PROVE  ToolsInv'
<1>1. PICK asked \in Questions[r] :
        LET rec == [Tools!NoRequest EXCEPT !.question = asked]
        IN  Tools!Update(r, IF asked.profile = "p1" /\ contractOk THEN [rec EXCEPT !.phase = "embed"] ELSE Tools!WithLegs(rec))
  BY DEF Tools!Ask
<1> DEFINE rec == [Tools!NoRequest EXCEPT !.question = asked]
           new == IF asked.profile = "p1" /\ contractOk THEN [rec EXCEPT !.phase = "embed"] ELSE Tools!WithLegs(rec)
<1>2. asked \in QuestionType /\ asked.profile \in {"p0", "p1", "read"}
  BY DEF Tools!ToolsAssumption, QuestionType, Profiles
<1>4. rec \in RequestType /\ Blank(rec) /\ rec.question = asked /\ rec = [rec EXCEPT !.vector = FALSE]
  BY <1>2, AskedFirst
<1> HIDE DEF rec
<1>5. RequestInv(new) /\ LateInv(r, new) /\ new.load = "none" /\ new.waits = {}
  <2>1. CASE asked.profile = "p1" /\ contractOk
    <3>1. new = [rec EXCEPT !.phase = "embed"]
      BY <2>1
    <3> HIDE DEF new
    <3>2. new \in RequestType /\ Blank(new) /\ new.phase = "embed" /\ new.question = asked
      BY <1>4, <3>1 DEF RequestType, Tools!Phases, Blank
    <3>3. RequestInv(new)
      BY <2>1, <3>2 DEF RequestInv, Answered, Collects, Blank
    <3> QED
      BY <3>2, <3>3 DEF LateInv, Blank
  <2>2. CASE ~(asked.profile = "p1" /\ contractOk)
    <3>1. new = Tools!WithLegs([rec EXCEPT !.vector = FALSE])
      BY <1>4, <2>2
    <3> HIDE DEF new
    <3> QED
      BY <1>2, <1>4, <3>1, LegsBegin
  <2> QED
    BY <2>1, <2>2
<1>6. Tools!Update(r, new)
  BY <1>1 DEF rec
<1>7. requests[r].phase = "idle" /\ requests[r].load = "none"
  BY RequestHas DEF Tools!Ask, RequestInv, Blank
<1>8. Tools!ServerUnchanged /\ Tools!CachesUnchanged /\ toolTroubles' \in 0..MaxToolTroubles
  BY TroubleCounts DEF Tools!Ask
<1> HIDE DEF new
<1> QED
  BY <1>5, <1>6, <1>7, <1>8, RequestMovesAlone

LEMMA EmbeddedInv ==
  ASSUME Tools!ToolsAssumption, ToolsInv, NEW r \in Requests, Tools!Embedded(r) \/ Tools!EmbedFails(r)
  PROVE  ToolsInv'
<1> DEFINE q == requests[r]
<1>1. q \in RequestType /\ Blank(q) /\ q.question.profile = "p1" /\ q.phase = "embed"
  BY RequestHas DEF RequestInv, Tools!Embedded, Tools!EmbedFails
<1>2. q = [q EXCEPT !.vector = FALSE]
  BY <1>1 DEF RequestType, Blank
<1>3. PICK v \in BOOLEAN : Tools!Update(r, Tools!WithLegs([q EXCEPT !.vector = v]))
  BY <1>2 DEF Tools!Embedded, Tools!EmbedFails
<1>4. Tools!ServerUnchanged /\ Tools!CachesUnchanged /\ toolTroubles' \in 0..MaxToolTroubles
  BY TroubleCounts DEF Tools!Embedded, Tools!EmbedFails
<1> DEFINE new == Tools!WithLegs([q EXCEPT !.vector = v])
<1>5. RequestInv(new) /\ LateInv(r, new) /\ new.load = "none" /\ new.waits = {}
  BY <1>1, LegsBegin
<1>6. q.load = "none"
  BY <1>1 DEF Blank
<1> HIDE DEF new
<1> QED
  BY <1>1, <1>3, <1>4, <1>5, <1>6, RequestMovesAlone DEF new

LEMMA ReadLegInv ==
  ASSUME Tools!ToolsAssumption, ToolsInv, NEW r \in Requests, Tools!ReadLeg(r)
  PROVE  ToolsInv'
<1> DEFINE q == requests[r]
           commit == Tools!Read(q)
<1>1. PICK l \in q.left : Tools!Update(r, [q EXCEPT !.left = @ \ {l}, !.rows[l] = commit])
  BY DEF Tools!ReadLeg
<1>2. q \in RequestType /\ RequestInv(q) /\ q.phase = "legs" /\ ~q.late /\ q.load = "none" /\ q.waits = {} /\ q.index = 0
      /\ ~q.reranked
  BY RequestHas DEF RequestInv, RequestType, Tools!ReadLeg, Tools!InTime
<1>3. commit \in 0..LastCommit /\ (q.question.pin # 0 => commit = q.question.pin)
  BY <1>2 DEF Tools!Read, ToolsInv, Tools!Commits, RequestType, QuestionType, Tools!ToolsAssumption
<1>4. l \in Tools!AllLegs
  BY <1>1, <1>2 DEF RequestType
<1> HIDE DEF q, commit
<1> DEFINE new == [q EXCEPT !.left = @ \ {l}, !.rows[l] = commit]
<1>5. /\ new \in RequestType /\ new.left = q.left \ {l} /\ new.rows = [q.rows EXCEPT ![l] = commit]
      /\ new.phase = "legs" /\ new.question = q.question /\ new.vector = q.vector /\ new.refused = q.refused
      /\ new.down = q.down /\ new.load = "none" /\ new.waits = {} /\ new.index = 0 /\ ~new.late /\ ~new.reranked
  BY <1>2, <1>3, <1>4 DEF RequestType
<1>6. q.rows \in [Tools!AllLegs -> 0..LastCommit]
  BY <1>2 DEF RequestType
<1> HIDE DEF new
<1>7. Begun(new) = Begun(q) /\ (Searches(new) <=> Searches(q))
  BY <1>5 DEF Begun, Tools!Planned, Searches
<1>8. Searches(new) /\ new.question.pin # 0 =>
       /\ new.left \subseteq Begun(new) /\ new.left \cap (new.refused \cup new.down) = {}
       /\ \A k \in Tools!AllLegs :
            new.rows[k] = IF k \in Begun(new) \ (new.left \cup new.refused \cup new.down) THEN new.question.pin ELSE 0
  <2> SUFFICES ASSUME Searches(new), new.question.pin # 0
               PROVE  /\ new.left \subseteq Begun(new) /\ new.left \cap (new.refused \cup new.down) = {}
                      /\ \A k \in Tools!AllLegs :
                           new.rows[k] = IF k \in Begun(new) \ (new.left \cup new.refused \cup new.down)
                                         THEN new.question.pin ELSE 0
    OBVIOUS
  <2>1. /\ q.left \subseteq Begun(q) /\ q.left \cap (q.refused \cup q.down) = {}
        /\ \A k \in Tools!AllLegs :
            q.rows[k] = IF k \in Begun(q) \ (q.left \cup q.refused \cup q.down) THEN q.question.pin ELSE 0
    BY <1>2, <1>5, <1>7 DEF RequestInv, Collects
  <2>2. l \in q.left /\ commit = q.question.pin
    BY <1>1, <1>3, <1>5 DEF q
  <2> QED
    BY <1>5, <1>6, <1>7, <2>1, <2>2
<1>9. new.question.profile # "none" /\ (new.question.profile # "p1" => new.refused = {} /\ new.down = {})
  BY <1>2, <1>5 DEF RequestInv
<1>10. RequestInv(new) /\ LateInv(r, new)
  BY <1>5, <1>8, <1>9 DEF RequestInv, LateInv, Answered
<1>11. Tools!Update(r, new)
  BY <1>1 DEF new, q
<1>12. Tools!ServerUnchanged /\ Tools!CachesUnchanged /\ toolTroubles' \in 0..MaxToolTroubles
  BY TroubleCounts DEF Tools!ReadLeg
<1> QED
  BY <1>2, <1>5, <1>10, <1>11, <1>12, RequestMovesAlone DEF q

LEMMA LegFailsInv ==
  ASSUME Tools!ToolsAssumption, ToolsInv, NEW r \in Requests, Tools!LegFails(r)
  PROVE  ToolsInv'
<1> DEFINE q == requests[r]
<1>1. PICK l \in q.left :
        IF q.question.profile # "p1" THEN Tools!Update(r, Tools!Ended(q, "failed"))
        ELSE \/ Tools!Update(r, [q EXCEPT !.left = @ \ {l}, !.refused = @ \cup {l}])
             \/ Tools!Update(r, [q EXCEPT !.left = @ \ {l}, !.down = @ \cup {l}])
  BY DEF Tools!LegFails
<1>2. q \in RequestType /\ RequestInv(q) /\ q.phase = "legs" /\ ~q.late /\ q.load = "none" /\ q.waits = {} /\ q.index = 0
      /\ ~q.reranked
  BY RequestHas DEF RequestInv, RequestType, Tools!LegFails, Tools!InTime
<1>3. Tools!ServerUnchanged /\ Tools!CachesUnchanged /\ toolTroubles' \in 0..MaxToolTroubles
  BY TroubleCounts DEF Tools!LegFails
<1>4. l \in Tools!AllLegs /\ l \in q.left
  BY <1>1, <1>2 DEF RequestType
<1>5. CASE q.question.profile # "p1"
  <2> DEFINE new == Tools!Ended(q, "failed")
  <2>1. RequestInv(new) /\ LateInv(r, new) /\ new.load = q.load /\ new.waits = {} /\ new.phase = "done"
    BY <1>2, EndsWithout
  <2>2. Tools!Update(r, new)
    BY <1>1, <1>5
  <2> HIDE DEF new
  <2> QED
    BY <1>2, <1>3, <2>1, <2>2, RequestMovesAlone
<1>6. CASE q.question.profile = "p1"
  <2>1. PICK new : /\ new \in {[q EXCEPT !.left = @ \ {l}, !.refused = @ \cup {l}], [q EXCEPT !.left = @ \ {l}, !.down = @ \cup {l}]}
                   /\ Tools!Update(r, new)
    BY <1>1, <1>6
  <2> HIDE DEF q
  <2>2. /\ new \in RequestType /\ new.left = q.left \ {l} /\ new.rows = q.rows
        /\ new.phase = "legs" /\ new.question = q.question /\ new.vector = q.vector
        /\ new.refused \cup new.down = (q.refused \cup q.down) \cup {l}
        /\ new.load = "none" /\ new.waits = {} /\ new.index = 0 /\ ~new.late /\ ~new.reranked
    <3>1. CASE new = [q EXCEPT !.left = @ \ {l}, !.refused = @ \cup {l}]
      BY <1>2, <1>4, <3>1 DEF RequestType
    <3>2. CASE new = [q EXCEPT !.left = @ \ {l}, !.down = @ \cup {l}]
      BY <1>2, <1>4, <3>2 DEF RequestType
    <3> QED
      BY <2>1, <3>1, <3>2
  <2>3. Begun(new) = Begun(q) /\ (Searches(new) <=> Searches(q))
    BY <2>2 DEF Begun, Tools!Planned, Searches
  <2>4. Searches(new) /\ new.question.pin # 0 =>
         /\ new.left \subseteq Begun(new) /\ new.left \cap (new.refused \cup new.down) = {}
         /\ \A k \in Tools!AllLegs :
              new.rows[k] = IF k \in Begun(new) \ (new.left \cup new.refused \cup new.down) THEN new.question.pin ELSE 0
    <3> SUFFICES ASSUME Searches(new), new.question.pin # 0
                 PROVE  /\ new.left \subseteq Begun(new) /\ new.left \cap (new.refused \cup new.down) = {}
                        /\ \A k \in Tools!AllLegs :
                             new.rows[k] = IF k \in Begun(new) \ (new.left \cup new.refused \cup new.down)
                                           THEN new.question.pin ELSE 0
      OBVIOUS
    <3>1. /\ q.left \subseteq Begun(q) /\ q.left \cap (q.refused \cup q.down) = {}
          /\ \A k \in Tools!AllLegs :
              q.rows[k] = IF k \in Begun(q) \ (q.left \cup q.refused \cup q.down) THEN q.question.pin ELSE 0
      BY <1>2, <2>2, <2>3 DEF RequestInv, Collects
    <3>2. Begun(new) \ (new.left \cup new.refused \cup new.down) = Begun(q) \ (q.left \cup q.refused \cup q.down)
      BY <1>4, <2>2, <2>3
    <3>3. new.left \subseteq Begun(new) /\ new.left \cap (new.refused \cup new.down) = {}
      BY <2>2, <2>3, <3>1
    <3> QED
      BY <2>2, <3>1, <3>2, <3>3
  <2>5. RequestInv(new) /\ LateInv(r, new)
    BY <1>6, <2>2, <2>4 DEF RequestInv, LateInv, Answered
  <2> QED
    BY <1>2, <1>3, <2>1, <2>2, <2>5, RequestMovesAlone DEF q
<1> QED
  BY <1>5, <1>6

\* A step of a request that has its rows leaves them.
LEMMA RowsStay ==
  ASSUME NEW q, NEW new, RequestInv(q), new \in RequestType, Collects(q),
         new.left = q.left, new.down = q.down, new.refused = q.refused,
         new.rows = q.rows, new.question = q.question, new.vector = q.vector
  PROVE  /\ new.question.profile # "p1" => new.refused = {} /\ new.down = {}
         /\ Tools!Sources(new) = Tools!Sources(q) \/ new.index # q.index
         /\ Collects(new) /\ Searches(new) /\ new.question.pin # 0 =>
              /\ new.left \subseteq Begun(new) /\ new.left \cap (new.refused \cup new.down) = {}
              /\ \A l \in Tools!AllLegs :
                   new.rows[l] = IF l \in Begun(new) \ (new.left \cup new.refused \cup new.down) THEN new.question.pin ELSE 0
<1>1. Begun(new) = Begun(q) /\ (Searches(new) <=> Searches(q))
  BY DEF Begun, Tools!Planned, Searches
<1>2. Tools!Sources(new) = Tools!Sources(q) \/ new.index # q.index
  BY DEF Tools!Sources
<1>3. Searches(q) /\ q.question.pin # 0 =>
              /\ q.left \subseteq Begun(q) /\ q.left \cap (q.refused \cup q.down) = {}
              /\ \A l \in Tools!AllLegs :
                   q.rows[l] = IF l \in Begun(q) \ (q.left \cup q.refused \cup q.down) THEN q.question.pin ELSE 0
  BY DEF RequestInv
<1>4. new.question.profile # "p1" => new.refused = {} /\ new.down = {}
  BY DEF RequestInv
<1> QED
  BY <1>1, <1>2, <1>3, <1>4

LEMMA SettleInv ==
  ASSUME Tools!ToolsAssumption, ToolsInv, NEW r \in Requests, Tools!Settle(r)
  PROVE  ToolsInv'
<1> DEFINE q == requests[r]
<1>1. q \in RequestType /\ RequestInv(q) /\ LateInv(r, q) /\ q.phase = "legs" /\ q.left = {} /\ q.load = "none" /\ q.waits = {}
      /\ q.index = 0 /\ ~q.reranked
  BY RequestHas DEF RequestInv, RequestType, Tools!Settle
<1>2. ~q.late
  BY <1>1 DEF LateInv
<1>3. Tools!ServerUnchanged /\ Tools!CachesUnchanged /\ toolTroubles' \in 0..MaxToolTroubles
  BY TroubleCounts DEF Tools!Settle
<1>4. Collects(q)
  BY <1>1 DEF Collects
<1>5. CASE \E o \in {"failed", "not_found"} : Tools!Update(r, Tools!Ended(q, o))
  <2>1. PICK o \in {"failed", "not_found"} : Tools!Update(r, Tools!Ended(q, o))
    BY <1>5
  <2> DEFINE new == Tools!Ended(q, o)
  <2>2. RequestInv(new) /\ LateInv(r, new) /\ new.load = q.load /\ new.waits = {} /\ new.phase = "done"
    BY <1>1, EndsWithout
  <2>3. Tools!Update(r, new)
    BY <2>1
  <2> HIDE DEF new
  <2> QED
    BY <1>1, <1>3, <2>2, <2>3, RequestMovesAlone
<1>6. CASE q.question.profile = "read" /\ Tools!Update(r, Tools!Ended(q, "ok"))
  <2> DEFINE new == Tools!Ended([q EXCEPT !.reranked = FALSE], "ok")
  <2>1. q = [q EXCEPT !.reranked = FALSE]
    BY <1>1 DEF RequestType
  <2>2. q.down = {}
    BY <1>1, <1>6 DEF RequestInv
  <2>3. RequestInv(new) /\ LateInv(r, new) /\ new.load = q.load /\ new.waits = q.waits /\ new.phase = "done"
    BY <1>1, <1>2, <1>4, <1>6, <2>2, EndsWith
  <2>4. Tools!Update(r, new)
    BY <1>6, <2>1
  <2> HIDE DEF new
  <2> QED
    BY <1>1, <1>3, <2>3, <2>4, RequestMovesAlone
<1>7. CASE q.question.profile = "read" /\ Tools!Update(r, [q EXCEPT !.left = {"whole"}])
  <2> DEFINE new == [q EXCEPT !.left = {"whole"}]
  <2>0. {"whole"} \in SUBSET Tools!AllLegs
    BY DEF Tools!AllLegs
  <2>1. new \in RequestType /\ new.phase = "legs" /\ new.load = "none" /\ new.waits = {} /\ new.index = 0 /\ ~new.reranked
        /\ ~new.late /\ new.question = q.question /\ new.refused = q.refused /\ new.down = q.down
    BY <1>1, <1>2, <2>0 DEF RequestType
  <2>2. Tools!Update(r, new)
    BY <1>7
  <2> HIDE DEF new
  <2>3. ~Searches(new) /\ new.question.profile = "read" /\ new.refused = {} /\ new.down = {}
    BY <1>1, <1>7, <2>1 DEF Searches, RequestInv
  <2>4. RequestInv(new) /\ LateInv(r, new)
    BY <2>1, <2>3 DEF RequestInv, LateInv, Answered
  <2> QED
    BY <1>1, <1>3, <2>1, <2>2, <2>4, RequestMovesAlone
<1>8. CASE \/ q.question.profile = "p0" /\ Tools!Update(r, [q EXCEPT !.phase = "rank"])
           \/ q.question.profile = "p1" /\ q.down = {} /\ Tools!Update(r, [q EXCEPT !.phase = "bots"])
  <2>1. PICK p \in {"rank", "bots"} : /\ Tools!Update(r, [q EXCEPT !.phase = p])
                                      /\ p = "rank" => q.question.profile = "p0"
                                      /\ p = "bots" => q.question.profile = "p1" /\ q.down = {}
    BY <1>8
  <2> DEFINE new == [q EXCEPT !.phase = p]
  <2>2. new \in RequestType /\ new.phase = p /\ new.load = "none" /\ new.waits = {} /\ new.index = 0 /\ ~new.reranked
        /\ ~new.late /\ new.question = q.question /\ new.refused = q.refused /\ new.down = q.down /\ new.left = q.left
        /\ new.vector = q.vector /\ new.rows = q.rows
    BY <1>1, <1>2, <2>1 DEF RequestType, Tools!Phases
  <2>3. Tools!Update(r, new)
    BY <2>1
  <2> HIDE DEF new
  <2>4. new.down = {} /\ (p = "rank" => Searches(new))
    BY <1>1, <2>1, <2>2 DEF RequestInv, Searches
  <2>5. RequestInv(new)
    BY <1>1, <1>4, <2>1, <2>2, <2>4, RowsStay DEF RequestInv, Answered
  <2>6. LateInv(r, new)
    BY <2>2 DEF LateInv
  <2> QED
    BY <1>1, <1>3, <2>1, <2>2, <2>3, <2>5, <2>6, RequestMovesAlone
<1>9. q.question.profile \in {"p0", "p1", "read"}
  BY <1>1 DEF RequestInv, RequestType, QuestionType, Profiles
<1>10. /\ q.question.profile = "read" =>
            \/ \E o \in {"failed", "not_found"} : Tools!Update(r, Tools!Ended(q, o))
            \/ Tools!Update(r, Tools!Ended(q, "ok"))
            \/ Tools!Update(r, [q EXCEPT !.left = {"whole"}])
       /\ q.question.profile = "p0" => Tools!Update(r, [q EXCEPT !.phase = "rank"])
       /\ q.question.profile = "p1" =>
            \/ \E o \in {"failed", "not_found"} : Tools!Update(r, Tools!Ended(q, o))
            \/ q.down = {} /\ Tools!Update(r, [q EXCEPT !.phase = "bots"])
  BY DEF Tools!Settle, Tools!Opened
<1> QED
  BY <1>5, <1>6, <1>7, <1>8, <1>9, <1>10

LEMMA HasHeadInv ==
  ASSUME Tools!ToolsAssumption, ToolsInv, NEW r \in Requests, Tools!HasHead(r)
  PROVE  ToolsInv'
<1> DEFINE q == requests[r]
           new == [q EXCEPT !.index = headBots, !.phase = "rank"]
<1>1. /\ q \in RequestType /\ RequestInv(q) /\ q.phase = "bots" /\ q.load = "none" /\ q.waits = {}
      /\ q.question.pin = 0 /\ q.left = {} /\ q.down = {} /\ ~q.reranked /\ q.question.profile = "p1"
  BY RequestHas DEF RequestInv, Tools!HasHead
<1>2. ~q.late
  BY <1>1, RequestHas DEF LateInv
<1>3. headBots \in 0..LastCommit
  BY DEF ToolsInv
<1>4. Tools!Update(r, new) /\ Tools!ServerUnchanged /\ Tools!CachesUnchanged /\ toolTroubles' \in 0..MaxToolTroubles
  BY TroubleCounts DEF Tools!HasHead
<1>5. /\ new \in RequestType /\ new.phase = "rank" /\ new.question = q.question /\ new.load = "none" /\ new.waits = {}
      /\ new.left = {} /\ new.down = {} /\ new.refused = q.refused /\ ~new.late /\ ~new.reranked
  BY <1>1, <1>2, <1>3 DEF RequestType, Tools!Phases
<1> HIDE DEF new
<1>6. RequestInv(new) /\ LateInv(r, new)
  BY <1>1, <1>5 DEF RequestInv, LateInv, Answered, Searches
<1> QED
  BY <1>1, <1>4, <1>5, <1>6, RequestMovesAlone

LEMMA ColdRefreshInv ==
  ASSUME Tools!ToolsAssumption, ToolsInv, NEW r \in Requests, Tools!ColdRefresh(r)
  PROVE  ToolsInv'
<1> DEFINE q == requests[r]
           new == [q EXCEPT !.phase = "cold"]
<1>1. /\ q \in RequestType /\ RequestInv(q) /\ q.phase = "bots" /\ q.load = "none" /\ q.waits = {} /\ q.index = 0
      /\ q.question.pin = 0 /\ q.left = {} /\ q.down = {} /\ ~q.reranked /\ q.question.profile = "p1"
  BY RequestHas DEF RequestInv, Tools!ColdRefresh
<1>2. ~q.late
  BY <1>1, RequestHas DEF LateInv
<1>3. /\ Tools!Update(r, new) /\ loads' = [loads EXCEPT ![r] = head] /\ head' = head /\ contractOk' = contractOk
      /\ headBots' = headBots /\ pinned' = pinned /\ toolTroubles' = toolTroubles
  BY DEF Tools!ColdRefresh, Tools!ServerUnchanged
<1>4. /\ new \in RequestType /\ new.phase = "cold" /\ new.question = q.question /\ new.load = "none" /\ new.waits = {}
      /\ new.index = 0
      /\ new.left = {} /\ new.down = {} /\ new.refused = q.refused /\ ~new.late /\ ~new.reranked
  BY <1>1, <1>2 DEF RequestType, Tools!Phases
<1> HIDE DEF new
<1>5. RequestInv(new) /\ LateInv(r, new)
  BY <1>1, <1>4 DEF RequestInv, LateInv, Answered, Searches
<1>6. /\ contractOk' \in BOOLEAN /\ toolTroubles' \in 0..MaxToolTroubles /\ headBots' \in 0..LastCommit
      /\ pinned' \in Seq([commit : Tools!Commits, by : Requests]) /\ Len(pinned') <= PinnedEntries
      /\ loads' \in [Requests \cup {"timer"} -> 0..LastCommit]
  BY <1>3 DEF ToolsInv, Tools!Commits
<1>7. \A p \in Requests : loads'[p] # 0 => (p # r /\ loads[p] # 0) \/ (p = r /\ new.phase = "cold")
  BY <1>3, <1>4 DEF ToolsInv
<1>8. \A i \in DOMAIN pinned' : \E j \in DOMAIN pinned : pinned'[i] = pinned[j]
  BY <1>3
<1> QED
  BY <1>1, <1>3, <1>4, <1>5, <1>6, <1>7, <1>8, RequestMoves

\* What goes through the cache of pinned indexes comes from it, and from the request that
\* joins it.
LEMMA PinnedGrows ==
  ASSUME PinnedEntries \in Nat, NEW S, NEW s \in Seq(S), Len(s) <= PinnedEntries, NEW e \in S,
         NEW t, t = Tools!Evicted(Append(s, e))
  PROVE  /\ t \in Seq(S) /\ Len(t) <= PinnedEntries
         /\ \A i \in DOMAIN t : t[i] = e \/ \E j \in DOMAIN s : t[i] = s[j]
<1> DEFINE a == Append(s, e)
<1>1. /\ a \in Seq(S) /\ Len(a) = Len(s) + 1 /\ a # <<>> /\ Len(s) \in Nat /\ DOMAIN s = 1..Len(s)
      /\ \A i \in 1..Len(a) : a[i] = e \/ (i \in 1..Len(s) /\ a[i] = s[i])
  <2>1. a \in Seq(S) /\ Len(a) = Len(s) + 1 /\ Len(s) \in Nat /\ DOMAIN s = 1..Len(s)
    OBVIOUS
  <2>2. \A i \in 1..Len(s) : a[i] = s[i]
    OBVIOUS
  <2>3. a[Len(s) + 1] = e
    OBVIOUS
  <2> HIDE DEF a
  <2> QED
    BY <2>1, <2>2, <2>3
<1> HIDE DEF a
<1>2. CASE Len(a) > PinnedEntries
  <2>1. t = Tail(a)
    BY <1>2 DEF Tools!Evicted, a
  <2>2. t \in Seq(S) /\ Len(t) = Len(a) - 1 /\ DOMAIN t = 1..Len(t) /\ \A i \in 1..Len(t) : t[i] = a[i + 1]
    BY <1>1, <2>1
  <2>3. ASSUME NEW i \in DOMAIN t
        PROVE  t[i] = e \/ \E j \in DOMAIN s : t[i] = s[j]
    <3>1. i + 1 \in 1..Len(a) /\ t[i] = a[i + 1]
      BY <1>1, <2>2
    <3> QED
      BY <1>1, <3>1
  <2> QED
    BY <1>1, <2>2, <2>3
<1>3. CASE ~(Len(a) > PinnedEntries)
  <2>1. t = a
    BY <1>3 DEF Tools!Evicted, a
  <2>2. DOMAIN t = 1..Len(a) /\ Len(a) <= PinnedEntries
    BY <1>1, <1>3, <2>1
  <2> QED
    BY <1>1, <2>1, <2>2
<1> QED
  BY <1>2, <1>3

LEMMA PinnedIndexInv ==
  ASSUME Tools!ToolsAssumption, ToolsInv, NEW r \in Requests, Tools!PinnedIndex(r)
  PROVE  ToolsInv'
<1> DEFINE q == requests[r]
<1>1. /\ q \in RequestType /\ RequestInv(q) /\ q.phase = "bots" /\ q.load = "none" /\ q.waits = {} /\ q.index = 0
      /\ q.question.pin # 0 /\ q.left = {} /\ q.down = {} /\ ~q.reranked /\ q.question.profile = "p1" /\ Collects(q)
  BY RequestHas DEF RequestInv, Tools!PinnedIndex, Collects
<1>2. ~q.late
  BY <1>1, RequestHas DEF LateInv
<1>3. q.question.pin \in Tools!Commits
  BY <1>1 DEF RequestType, QuestionType, Tools!Commits, Tools!ToolsAssumption
<1>4. /\ head' = head /\ contractOk' = contractOk /\ headBots' = headBots /\ loads' = loads /\ toolTroubles' = toolTroubles
  BY DEF Tools!PinnedIndex, Tools!ServerUnchanged
<1>5. /\ contractOk \in BOOLEAN /\ toolTroubles \in 0..MaxToolTroubles /\ headBots \in 0..LastCommit
      /\ pinned \in Seq([commit : Tools!Commits, by : Requests]) /\ Len(pinned) <= PinnedEntries
      /\ loads \in [Requests \cup {"timer"} -> 0..LastCommit] /\ loads[r] = 0
  BY <1>1 DEF ToolsInv
<1>6. ASSUME NEW w \in SUBSET Requests, NEW d \in {"none", "loading"}, w # {}
      PROVE  LET new == [q EXCEPT !.phase = "wait", !.waits = w, !.load = d]
             IN  /\ RequestInv(new) /\ LateInv(r, new) /\ new.waits = w /\ new.load = d /\ new.question = q.question
  <2> DEFINE new == [q EXCEPT !.phase = "wait", !.waits = w, !.load = d]
  <2>1. /\ new \in RequestType /\ new.phase = "wait" /\ new.question = q.question /\ new.load = d /\ new.waits = w
        /\ new.index = 0 /\ new.vector = q.vector /\ new.rows = q.rows
        /\ new.left = q.left /\ new.down = q.down /\ new.refused = q.refused /\ ~new.late /\ ~new.reranked
    BY <1>1, <1>2 DEF RequestType, Tools!Phases
  <2> HIDE DEF new
  <2>2. RequestInv(new)
    BY <1>1, <1>6, <2>1, RowsStay DEF RequestInv, Answered, Searches
  <2> QED
    BY <2>1, <2>2 DEF LateInv, new
<1>7. CASE Tools!EntryOf(q.question.pin) # {}
  <2> DEFINE w == {e.by : e \in Tools!EntryOf(q.question.pin)}
             new == [q EXCEPT !.phase = "wait", !.waits = w, !.load = "none"]
  <2>1. pinned' = pinned /\ Tools!Update(r, [q EXCEPT !.phase = "wait", !.waits = w])
    BY <1>7 DEF Tools!PinnedIndex
  <2>2. new = [q EXCEPT !.phase = "wait", !.waits = w]
    BY <1>1 DEF RequestType
  <2>3. \A b \in w : b \in Requests /\ Loads(b, q.question.pin)
    <3> SUFFICES ASSUME NEW e \in Tools!EntryOf(q.question.pin)
                 PROVE  e.by \in Requests /\ Loads(e.by, q.question.pin)
      OBVIOUS
    <3>1. PICK i \in DOMAIN pinned : e = pinned[i]
      BY DEF Tools!EntryOf, Tools!ToSet
    <3>2. pinned[i] \in [commit : Tools!Commits, by : Requests]
      BY <1>5, SeqElements, Zenon
    <3>3. Loads(e.by, e.commit) /\ e.commit = q.question.pin
      BY <3>1 DEF ToolsInv, Tools!EntryOf
    <3> QED
      BY <3>1, <3>2, <3>3
  <2>4. r \notin w
    BY <1>1, <2>3 DEF Loads
  <2>5. w # {}
    BY <1>7
  <2>6. w \in SUBSET Requests
    BY <2>3
  <2> HIDE DEF w
  <2>7. RequestInv(new) /\ LateInv(r, new) /\ new.waits = w /\ new.load = "none" /\ new.question = q.question
    BY <1>6, <2>5, <2>6
  <2>8. Tools!Update(r, new)
    BY <2>1, <2>2
  <2> HIDE DEF new
  <2>9. \A i \in DOMAIN pinned' : \E j \in DOMAIN pinned : pinned'[i] = pinned[j]
    BY <2>1
  <2>10. \A p \in Requests : loads'[p] # 0 => (p # r /\ loads[p] # 0) \/ (p = r /\ new.phase = "cold")
    BY <1>4, <1>5
  <2> QED
    BY <1>1, <1>4, <1>5, <2>1, <2>3, <2>4, <2>7, <2>8, <2>9, <2>10, RequestMoves
<1>8. CASE Tools!EntryOf(q.question.pin) = {}
  <2> DEFINE e == [commit |-> q.question.pin, by |-> r]
             new == [q EXCEPT !.phase = "wait", !.waits = {r}, !.load = "loading"]
  <2>1. pinned' = Tools!Evicted(Append(pinned, e)) /\ Tools!Update(r, new)
    BY <1>8 DEF Tools!PinnedIndex
  <2>2. e \in [commit : Tools!Commits, by : Requests] /\ e.by = r /\ e.commit = q.question.pin
    BY <1>3
  <2> HIDE DEF e
  <2>3. /\ pinned' \in Seq([commit : Tools!Commits, by : Requests]) /\ Len(pinned') <= PinnedEntries
        /\ \A i \in DOMAIN pinned' : pinned'[i] = e \/ \E j \in DOMAIN pinned : pinned'[i] = pinned[j]
    <3>1. PinnedEntries \in Nat
      BY DEF Tools!ToolsAssumption
    <3> DEFINE T == [commit : Tools!Commits, by : Requests]
    <3>2. pinned \in Seq(T) /\ Len(pinned) <= PinnedEntries /\ e \in T
      BY <1>5, <2>2
    <3> HIDE DEF T
    <3>3. /\ pinned' \in Seq(T) /\ Len(pinned') <= PinnedEntries
          /\ \A i \in DOMAIN pinned' : pinned'[i] = e \/ \E j \in DOMAIN pinned : pinned'[i] = pinned[j]
      BY <2>1, <3>1, <3>2, PinnedGrows
    <3> QED
      BY <3>3 DEF T
  <2>4. RequestInv(new) /\ LateInv(r, new) /\ new.waits = {r} /\ new.load = "loading" /\ new.question = q.question
    BY <1>6
  <2> HIDE DEF new
  <2>5. \A i \in DOMAIN pinned' :
           \/ \E j \in DOMAIN pinned : pinned'[i] = pinned[j]
           \/ pinned'[i].by = r /\ pinned'[i].commit = new.question.pin /\ new.load # "none"
    BY <2>2, <2>3, <2>4
  <2>6. \A p \in Requests : loads'[p] # 0 => (p # r /\ loads[p] # 0) \/ (p = r /\ new.phase = "cold")
    BY <1>4, <1>5
  <2> QED
    BY <1>1, <1>4, <1>5, <2>1, <2>3, <2>4, <2>5, <2>6, RequestMoves
<1> QED
  BY <1>7, <1>8

\* A load of a pinned index ends: the request goes on as it was.
LEMMA LoadEnds ==
  ASSUME ToolsInv, NEW r \in Requests, requests[r].load = "loading",
         NEW d \in {"loaded", "failed"}, d = "loaded" => ~requests[r].late
  PROVE  LET new == [requests[r] EXCEPT !.load = d]
         IN  /\ RequestInv(new) /\ LateInv(r, new) /\ new.load = d /\ new.question = requests[r].question
             /\ new.waits = requests[r].waits /\ new.phase = requests[r].phase
<1> DEFINE q == requests[r]
           new == [q EXCEPT !.load = d]
<1>1. q \in RequestType /\ RequestInv(q) /\ LateInv(r, q)
  BY RequestHas
<1>2. q.phase \notin {"idle", "embed", "legs", "bots", "cold"}
  BY <1>1 DEF RequestInv, Blank
<1>3. q.load = "loading" /\ (d = "loaded" => ~q.late)
  OBVIOUS
<1> HIDE DEF q
<1>4. /\ new \in RequestType /\ new.phase = q.phase /\ new.question = q.question /\ new.load = d /\ new.waits = q.waits
      /\ new.index = q.index /\ new.vector = q.vector /\ new.rows = q.rows /\ new.outcome = q.outcome
      /\ new.left = q.left /\ new.down = q.down /\ new.refused = q.refused /\ new.late = q.late
      /\ new.reranked = q.reranked
  BY <1>1 DEF RequestType
<1> HIDE DEF new
<1>5. (Answered(new) <=> Answered(q)) /\ (Collects(new) <=> Collects(q)) /\ (Searches(new) <=> Searches(q))
      /\ Begun(new) = Begun(q) /\ Tools!Sources(new) = Tools!Sources(q)
  BY <1>4 DEF Answered, Collects, Searches, Begun, Tools!Planned, Tools!Sources
<1>6. RequestInv(new)
  BY <1>1, <1>2, <1>4, <1>5 DEF RequestInv
<1>7. LateInv(r, new)
  BY <1>1, <1>3, <1>4, <1>5 DEF LateInv
<1> QED
  BY <1>4, <1>6, <1>7 DEF new, q

LEMMA PinnedLoadedInv ==
  ASSUME Tools!ToolsAssumption, ToolsInv, NEW r \in Requests, Tools!PinnedLoaded(r)
  PROVE  ToolsInv'
<1> DEFINE new == [requests[r] EXCEPT !.load = "loaded"]
<1>1. /\ requests[r].load = "loading" /\ ~requests[r].late /\ Tools!Update(r, new)
      /\ Tools!ServerUnchanged /\ Tools!CachesUnchanged /\ toolTroubles' = toolTroubles
  BY DEF Tools!PinnedLoaded, Tools!InTime
<1>2. RequestInv(new) /\ LateInv(r, new) /\ new.load = "loaded" /\ new.question = requests[r].question
      /\ new.waits = requests[r].waits /\ new.phase = requests[r].phase
  BY <1>1, LoadEnds
<1> HIDE DEF new
<1> QED
  BY <1>1, <1>2, TroubleCounts, RequestMovesAlone

\* What is left of a sequence was in it.
LEMMA RemovedFrom ==
  ASSUME NEW S, NEW s \in Seq(S), NEW i \in DOMAIN s, NEW t, t = Tools!RemoveAt(s, i)
  PROVE  t \in Seq(S) /\ Len(t) <= Len(s) /\ \A k \in DOMAIN t : \E j \in DOMAIN s : t[k] = s[j]
<1> DEFINE a == SubSeq(s, 1, i - 1)
           b == SubSeq(s, i + 1, Len(s))
<1>1. i \in 1..Len(s) /\ Len(s) \in Nat /\ DOMAIN s = 1..Len(s)
  OBVIOUS
<1>2. t = a \o b
  BY DEF Tools!RemoveAt
<1>3. a \in Seq(S) /\ Len(a) = i - 1 /\ \A k \in 1..Len(a) : a[k] = s[k]
  BY <1>1
<1>4. b \in Seq(S) /\ Len(b) = Len(s) - i /\ \A k \in 1..Len(b) : b[k] = s[i + k]
  BY <1>1
<1> HIDE DEF a, b
<1>5. /\ t \in Seq(S) /\ Len(t) = Len(a) + Len(b) /\ DOMAIN t = 1..Len(t)
      /\ \A k \in 1..Len(t) : t[k] = IF k <= Len(a) THEN a[k] ELSE b[k - Len(a)]
  <2> DEFINE c == a \o b
  <2>1. Len(a) \in Nat /\ Len(b) \in Nat
    BY <1>3, <1>4
  <2>2. /\ c \in Seq(S) /\ Len(c) = Len(a) + Len(b)
        /\ \A k \in 1..(Len(a) + Len(b)) : c[k] = IF k <= Len(a) THEN a[k] ELSE b[k - Len(a)]
    BY <1>3, <1>4, ConcatProperties, Zenon
  <2> HIDE DEF c
  <2>3. DOMAIN c = 1..Len(c)
    BY <2>2
  <2> QED
    BY <1>2, <2>1, <2>2, <2>3 DEF c
<1>6. ASSUME NEW k \in DOMAIN t
      PROVE  \E j \in DOMAIN s : t[k] = s[j]
  <2>1. CASE k <= Len(a)
    BY <1>1, <1>3, <1>5, <2>1
  <2>2. CASE k > Len(a)
    <3>1. k - Len(a) \in 1..Len(b)
      BY <1>1, <1>3, <1>4, <1>5, <2>2
    <3> DEFINE m == k - Len(a)
    <3>a. t[k] = b[m]
      BY <1>3, <1>4, <1>5, <2>2
    <3> HIDE DEF m
    <3>b. b[m] = s[i + m]
      BY <1>4, <3>1 DEF m
    <3>c. i + m \in 1..Len(s)
      BY <1>1, <1>4, <3>1 DEF m
    <3>2. t[k] = s[i + m] /\ i + m \in 1..Len(s)
      BY <3>a, <3>b, <3>c
    <3> QED
      BY <1>1, <3>2
  <2> QED
    BY <1>1, <1>3, <1>5, <2>1, <2>2
<1> QED
  BY <1>1, <1>3, <1>4, <1>5, <1>6

LEMMA DropEntryInv ==
  ASSUME Tools!ToolsAssumption, ToolsInv, NEW r \in Requests, requests[r].load = "loading", Tools!DropEntry(r),
         toolTroubles' \in 0..MaxToolTroubles
  PROVE  ToolsInv'
<1> DEFINE new == [requests[r] EXCEPT !.load = "failed"]
           pin == requests[r].question.pin
           T   == [commit : Tools!Commits, by : Requests]
<1>1. /\ Tools!Update(r, new) /\ pinned' = Tools!Dropped(pin)
      /\ head' = head /\ contractOk' = contractOk /\ headBots' = headBots /\ loads' = loads
  BY DEF Tools!DropEntry, Tools!ServerUnchanged
<1>2. RequestInv(new) /\ LateInv(r, new) /\ new.load = "failed" /\ new.question = requests[r].question
      /\ new.waits = requests[r].waits /\ new.phase = requests[r].phase
  BY LoadEnds
<1>3. /\ contractOk \in BOOLEAN /\ headBots \in 0..LastCommit
      /\ pinned \in Seq(T) /\ Len(pinned) <= PinnedEntries /\ PinnedEntries \in Nat
      /\ loads \in [Requests \cup {"timer"} -> 0..LastCommit]
      /\ \A q \in Requests : loads[q] # 0 => requests[q].phase = "cold"
  BY DEF ToolsInv, Tools!ToolsAssumption
<1> HIDE DEF new, pin, T
<1>4. /\ pinned' \in Seq(T) /\ Len(pinned') <= PinnedEntries
      /\ \A i \in DOMAIN pinned' : \E j \in DOMAIN pinned : pinned'[i] = pinned[j]
  <2>1. CASE Tools!EntryOf(pin) = {}
    BY <1>1, <1>3, <2>1 DEF Tools!Dropped
  <2>2. CASE Tools!EntryOf(pin) # {}
    <3> DEFINE i == CHOOSE i \in DOMAIN pinned : pinned[i].commit = pin
    <3>1. \E k \in DOMAIN pinned : pinned[k].commit = pin
      BY <2>2 DEF Tools!EntryOf, Tools!ToSet
    <3>2. i \in DOMAIN pinned
      BY <3>1
    <3>3. pinned' = Tools!RemoveAt(pinned, i)
      BY <1>1, <2>2 DEF Tools!Dropped
    <3> HIDE DEF i
    <3>4. pinned' \in Seq(T) /\ Len(pinned') <= Len(pinned) /\ \A k \in DOMAIN pinned' : \E j \in DOMAIN pinned : pinned'[k] = pinned[j]
      BY <1>3, <3>2, <3>3, RemovedFrom
    <3>5. Len(pinned') \in Nat /\ Len(pinned) \in Nat
      BY <1>3, <3>4
    <3> QED
      BY <1>3, <3>4, <3>5
  <2> QED
    BY <2>1, <2>2
<1>5. \A q \in Requests : loads'[q] # 0 => (q # r /\ loads[q] # 0) \/ (q = r /\ new.phase = "cold")
  BY <1>1, <1>2, <1>3
<1>6. new.load # "none" /\ new.question.pin = requests[r].question.pin
  BY <1>2
<1> QED
  BY <1>1, <1>2, <1>3, <1>4, <1>5, <1>6, RequestMoves DEF T

LEMMA PinnedEndsInv ==
  ASSUME Tools!ToolsAssumption, ToolsInv, NEW r \in Requests, Tools!PinnedAborted(r) \/ Tools!PinnedFails(r)
  PROVE  ToolsInv'
BY DropEntryInv, TroubleCounts DEF Tools!PinnedAborted, Tools!PinnedFails

\* The answer to a refresh of the newest index that a search began, or its failure.
LEMMA ColdEnds ==
  ASSUME Tools!ToolsAssumption, NEW r \in Requests, NEW q, RequestInv(q), q.phase = "cold", NEW c \in 0..LastCommit,
         q.late => c # 0
  PROVE  LET new == [q EXCEPT !.phase = "rank", !.index = c]
         IN  /\ RequestInv(new) /\ LateInv(r, new) /\ new.load = q.load /\ new.question = q.question
             /\ new.waits = q.waits
<1> DEFINE new == [q EXCEPT !.phase = "rank", !.index = c]
<1>1. /\ q \in RequestType /\ q.question.pin = 0 /\ q.waits = {} /\ q.load = "none" /\ q.index = 0
      /\ q.left = {} /\ q.down = {} /\ Searches(q) /\ ~q.reranked
      /\ (q.question.profile # "p1" => q.refused = {} /\ q.down = {})
  BY DEF RequestInv
<1>2. /\ new \in RequestType /\ new.phase = "rank" /\ new.question = q.question /\ new.load = "none" /\ new.waits = {}
      /\ new.index = c /\ new.left = {} /\ new.down = {} /\ new.refused = q.refused /\ new.late = q.late
      /\ new.reranked = q.reranked
  BY <1>1 DEF RequestType, Tools!Phases
<1> HIDE DEF new
<1>4. RequestInv(new)
  BY <1>1, <1>2 DEF RequestInv, Answered, Searches
<1>5. LateInv(r, new)
  BY <1>1, <1>2 DEF LateInv, Answered
<1> QED
  BY <1>1, <1>2, <1>4, <1>5 DEF new

LEMMA RefreshInv ==
  ASSUME Tools!ToolsAssumption, ToolsInv, NEW l \in Requests, Tools!Refreshed(l) \/ Tools!RefreshFails(l), l # "timer"
  PROVE  ToolsInv'
<1> DEFINE q == requests[l]
<1>1. /\ RequestInv(q) /\ LateInv(l, q) /\ q.phase = "cold" /\ q.load = "none" /\ q.waits = {} /\ loads[l] # 0
      /\ loads[l] \in 0..LastCommit
  BY RequestHas DEF ToolsInv, RequestInv, Tools!Refreshed, Tools!RefreshFails
<1>2. /\ loads' = [loads EXCEPT ![l] = 0] /\ head' = head /\ contractOk' = contractOk /\ headBots' \in 0..LastCommit
      /\ pinned' = pinned /\ toolTroubles' = toolTroubles
  BY <1>1 DEF ToolsInv, Tools!Refreshed, Tools!RefreshFails, Tools!ServerUnchanged
<1>3. /\ contractOk' \in BOOLEAN /\ toolTroubles' \in 0..MaxToolTroubles
      /\ pinned' \in Seq([commit : Tools!Commits, by : Requests]) /\ Len(pinned') <= PinnedEntries
      /\ loads' \in [Requests \cup {"timer"} -> 0..LastCommit]
      /\ \A p \in Requests : loads'[p] # 0 => p # l /\ loads[p] # 0
      /\ \A i \in DOMAIN pinned' : \E j \in DOMAIN pinned : pinned'[i] = pinned[j]
  <2>1. 0 \in 0..LastCommit
    BY DEF Tools!ToolsAssumption
  <2> QED
    BY <1>2, <2>1 DEF ToolsInv
<1>4. PICK new : /\ Tools!Update(l, new) /\ RequestInv(new) /\ LateInv(l, new) /\ new.load = "none" /\ new.waits = {}
  <2>1. CASE Tools!Refreshed(l)
    <3> DEFINE new == [q EXCEPT !.phase = "rank", !.index = loads[l]]
    <3>1. Tools!Update(l, new)
      BY <2>1 DEF Tools!Refreshed
    <3>2. RequestInv(new) /\ LateInv(l, new) /\ new.load = q.load /\ new.waits = q.waits
      BY <1>1, ColdEnds
    <3> HIDE DEF new
    <3> QED
      BY <1>1, <3>1, <3>2
  <2>2. CASE Tools!RefreshFails(l) /\ q.late
    <3> DEFINE new == Tools!Ended(q, "timeout")
    <3>1. Tools!Update(l, new)
      BY <2>2 DEF Tools!RefreshFails
    <3>2. RequestInv(new) /\ LateInv(l, new) /\ new.load = q.load /\ new.waits = {}
      BY <1>1, EndsWithout
    <3> HIDE DEF new
    <3> QED
      BY <1>1, <3>1, <3>2
  <2>3. CASE Tools!RefreshFails(l) /\ ~q.late
    <3> DEFINE new == [q EXCEPT !.phase = "rank", !.index = 0]
    <3>1. q = [q EXCEPT !.index = 0]
      BY <1>1 DEF RequestInv, RequestType
    <3>2. new = [q EXCEPT !.phase = "rank"]
      BY <1>1, <3>1 DEF RequestInv, RequestType
    <3>3. Tools!Update(l, new)
      BY <2>3, <3>2 DEF Tools!RefreshFails
    <3>4. 0 \in 0..LastCommit
      BY DEF Tools!ToolsAssumption
    <3>5. RequestInv(new) /\ LateInv(l, new) /\ new.load = q.load /\ new.waits = q.waits
      BY <1>1, <2>3, <3>4, ColdEnds
    <3> HIDE DEF new
    <3> QED
      BY <1>1, <3>3, <3>5
  <2> QED
    BY <2>1, <2>2, <2>3
<1> QED
  BY <1>1, <1>2, <1>3, <1>4, RequestMoves

\* Steps of the server leave the requests and the cache of pinned indexes.
LEMMA ServerMoves ==
  ASSUME Tools!ToolsAssumption, ToolsInv, requests' = requests, pinned' = pinned, toolTroubles' = toolTroubles,
         head' \in Tools!Commits, contractOk' \in BOOLEAN, headBots' \in 0..LastCommit,
         loads' \in [Requests \cup {"timer"} -> 0..LastCommit],
         \A q \in Requests : loads'[q] = loads[q]
  PROVE  ToolsInv'
<1>1. \A b \in Requests, commit \in Nat : Loads(b, commit)' = Loads(b, commit)
  BY DEF Loads
<1>2. /\ \A i \in DOMAIN pinned' : Loads(pinned[i].by, pinned[i].commit)'
      /\ \A r \in Requests : \A b \in requests'[r].waits : Loads(b, requests[r].question.pin)'
  BY DEF ToolsInv, Loads
<1> QED
  BY <1>2 DEF ToolsInv

LEMMA ServerInv ==
  ASSUME Tools!ToolsAssumption, ToolsInv,
         \/ Tools!Refreshed("timer") \/ Tools!RefreshFails("timer")
         \/ Tools!CheckContract \/ Tools!RefreshHead \/ Tools!Commit
  PROVE  ToolsInv'
<1>1. /\ LastCommit \in Nat /\ 0 \in 0..LastCommit /\ SchemaOk \in BOOLEAN /\ "timer" \notin Requests
      /\ head \in 1..LastCommit /\ head \in 0..LastCommit /\ contractOk \in BOOLEAN /\ headBots \in 0..LastCommit
      /\ loads \in [Requests \cup {"timer"} -> 0..LastCommit] /\ Tools!Commits = 1..LastCommit
  BY DEF Tools!ToolsAssumption, ToolsInv, Tools!Commits
<1>2. CASE Tools!Refreshed("timer") \/ Tools!RefreshFails("timer")
  <2>1. /\ requests' = requests /\ pinned' = pinned /\ toolTroubles' = toolTroubles /\ head' = head
        /\ contractOk' = contractOk /\ headBots' \in {headBots, loads["timer"]} /\ loads' = [loads EXCEPT !["timer"] = 0]
    BY <1>2 DEF Tools!Refreshed, Tools!RefreshFails, Tools!ServerUnchanged
  <2>2. loads' \in [Requests \cup {"timer"} -> 0..LastCommit] /\ \A q \in Requests : loads'[q] = loads[q]
    BY <1>1, <2>1
  <2> QED
    BY <1>1, <2>1, <2>2, ServerMoves
<1>3. CASE Tools!CheckContract
  BY <1>1, <1>3, ServerMoves DEF Tools!CheckContract
<1>4. CASE Tools!RefreshHead
  <2>1. loads' = [loads EXCEPT !["timer"] = head]
    BY <1>4 DEF Tools!RefreshHead
  <2>2. loads' \in [Requests \cup {"timer"} -> 0..LastCommit] /\ \A q \in Requests : loads'[q] = loads[q]
    BY <1>1, <2>1
  <2> QED
    BY <1>1, <1>4, <2>2, ServerMoves DEF Tools!RefreshHead
<1>5. CASE Tools!Commit
  BY <1>1, <1>5, ServerMoves DEF Tools!Commit
<1> QED
  BY <1>2, <1>3, <1>4, <1>5

LEMMA PinnedKnownInv ==
  ASSUME Tools!ToolsAssumption, ToolsInv, NEW r \in Requests, Tools!PinnedKnown(r)
  PROVE  ToolsInv'
<1> DEFINE q  == requests[r]
           by == CHOOSE b \in q.waits : TRUE
<1>1. /\ q \in RequestType /\ RequestInv(q) /\ LateInv(r, q) /\ q.phase = "wait" /\ q.question.pin # 0 /\ q.index = 0
      /\ q.waits # {} /\ Searches(q) /\ q.left = {} /\ q.down = {} /\ ~q.reranked /\ Collects(q)
  BY RequestHas DEF RequestInv, Tools!PinnedKnown, Collects
<1>2. /\ by \in q.waits /\ Loads(by, q.question.pin) /\ (r \in q.waits => q.waits = {r})
  BY <1>1 DEF ToolsInv
<1>3. Tools!ServerUnchanged /\ Tools!CachesUnchanged /\ toolTroubles' \in 0..MaxToolTroubles
  BY TroubleCounts DEF Tools!PinnedKnown
<1>4. /\ requests[by].load \in {"loaded", "failed"} /\ requests[by].question.pin = q.question.pin
  BY <1>2 DEF Tools!PinnedKnown, Loads
<1>5. Tools!Update(r, IF requests[by].load = "loaded" THEN [q EXCEPT !.phase = "rank", !.index = requests[by].question.pin]
                      ELSE IF q.late THEN Tools!Ended(q, "timeout") ELSE [q EXCEPT !.phase = "rank"])
  BY DEF Tools!PinnedKnown
<1>6. q.late => (r \in q.waits => requests[by].load # "loaded")
  <2> SUFFICES ASSUME q.late, r \in q.waits PROVE requests[by].load # "loaded"
    OBVIOUS
  <2>1. by = r /\ q.load # "loaded"
    BY <1>1, <1>2 DEF LateInv
  <2> QED
    BY <2>1
<1>7. CASE requests[by].load # "loaded" /\ q.late
  <2> DEFINE new == Tools!Ended(q, "timeout")
  <2>1. Tools!Update(r, new)
    BY <1>5, <1>7
  <2>2. RequestInv(new) /\ LateInv(r, new) /\ new.load = q.load /\ new.question = q.question /\ new.waits = {}
    BY <1>1, EndsWithout
  <2> HIDE DEF new
  <2> QED
    BY <1>1, <1>3, <2>1, <2>2, RequestMovesAlone
<1>8. CASE requests[by].load = "loaded" \/ ~q.late
  <2>1. PICK c \in {0, q.question.pin} : /\ Tools!Update(r, [q EXCEPT !.phase = "rank", !.index = c])
                                         /\ q.late => c # 0 /\ r \notin q.waits
    <3>1. CASE requests[by].load = "loaded"
      BY <1>1, <1>4, <1>5, <1>6, <3>1
    <3>2. CASE requests[by].load # "loaded"
      <4>1. Tools!Update(r, [q EXCEPT !.phase = "rank"]) /\ ~q.late
        BY <1>5, <1>8, <3>2
      <4>2. [q EXCEPT !.phase = "rank"] = [q EXCEPT !.phase = "rank", !.index = 0]
        BY <1>1 DEF RequestType
      <4> QED
        BY <4>1, <4>2
    <3> QED
      BY <3>1, <3>2
  <2> HIDE DEF by
  <2> DEFINE new == [q EXCEPT !.phase = "rank", !.index = c]
  <2>2. c \in 0..LastCommit
    BY <1>1, <2>1 DEF RequestType, QuestionType, Tools!ToolsAssumption
  <2>3. /\ new \in RequestType /\ new.phase = "rank" /\ new.question = q.question /\ new.load = q.load /\ new.waits = q.waits
        /\ new.index = c /\ new.left = q.left /\ new.down = q.down /\ new.refused = q.refused /\ new.late = q.late
        /\ new.reranked = q.reranked /\ new.vector = q.vector /\ new.rows = q.rows
    BY <1>1, <2>2 DEF RequestType, Tools!Phases
  <2>4. Tools!Update(r, new)
    BY <2>1
  <2> HIDE DEF new
  <2>5. RequestInv(new)
    BY <1>1, <2>1, <2>3, RowsStay DEF RequestInv, Answered, Searches
  <2>6. LateInv(r, new)
    BY <2>1, <2>3 DEF LateInv, Answered
  <2> QED
    BY <1>1, <1>3, <2>3, <2>4, <2>5, <2>6, RequestMovesAlone
<1> QED
  BY <1>7, <1>8

LEMMA RankInv ==
  ASSUME Tools!ToolsAssumption, ToolsInv, NEW r \in Requests,
         Tools!Rank(r) \/ Tools!Rerank(r) \/ Tools!RerankFallsBack(r)
  PROVE  ToolsInv'
<1> DEFINE q == requests[r]
<1>1. /\ q \in RequestType /\ RequestInv(q) /\ LateInv(r, q) /\ q.phase \in {"rank", "rerank"}
      /\ Searches(q) /\ q.left = {} /\ q.down = {} /\ ~q.reranked /\ Collects(q) /\ q.question.profile # "none"
  BY RequestHas DEF RequestInv, Tools!Rank, Tools!Rerank, Tools!RerankFallsBack, Collects, Searches
<1>2. Tools!ServerUnchanged /\ Tools!CachesUnchanged /\ toolTroubles' \in 0..MaxToolTroubles
  BY TroubleCounts DEF Tools!Rank, Tools!Rerank, Tools!RerankFallsBack
<1>3. q = [q EXCEPT !.reranked = FALSE]
  BY <1>1 DEF RequestType
<1>4. q.late => q.index # 0 /\ r \notin q.waits
  BY <1>1 DEF LateInv
<1>5. CASE \E b \in BOOLEAN : /\ Tools!Update(r, Tools!Ended([q EXCEPT !.reranked = b], "ok"))
                              /\ q.late => ~q.question.rerank \/ Len(Tools!Sources(q)) < 2
  <2>1. PICK b \in BOOLEAN : /\ Tools!Update(r, Tools!Ended([q EXCEPT !.reranked = b], "ok"))
                             /\ q.late => ~q.question.rerank \/ Len(Tools!Sources(q)) < 2
    BY <1>5
  <2> DEFINE new == Tools!Ended([q EXCEPT !.reranked = b], "ok")
  <2>2. RequestInv(new) /\ LateInv(r, new) /\ new.load = q.load /\ new.question = q.question /\ new.waits = q.waits
    BY <1>1, <1>4, <2>1, EndsWith
  <2>3. Tools!Update(r, new)
    BY <2>1
  <2> HIDE DEF new
  <2> QED
    BY <1>1, <1>2, <2>2, <2>3, RequestMovesAlone
<1>6. CASE q.phase = "rank" /\ Tools!Update(r, [q EXCEPT !.phase = "rerank"])
  <2> DEFINE new == [q EXCEPT !.phase = "rerank"]
  <2>1. /\ new \in RequestType /\ new.phase = "rerank" /\ new.question = q.question /\ new.load = q.load /\ new.waits = q.waits
        /\ new.index = q.index /\ new.left = q.left /\ new.down = q.down /\ new.refused = q.refused /\ new.late = q.late
        /\ new.reranked = q.reranked /\ new.vector = q.vector /\ new.rows = q.rows
    BY <1>1 DEF RequestType, Tools!Phases
  <2>2. Tools!Update(r, new)
    BY <1>6
  <2> HIDE DEF new
  <2>3. RequestInv(new)
    BY <1>1, <2>1, RowsStay DEF RequestInv, Answered, Searches
  <2>4. LateInv(r, new)
    BY <1>4, <2>1 DEF LateInv, Answered
  <2> QED
    BY <1>1, <1>2, <2>1, <2>2, <2>3, <2>4, RequestMovesAlone
<1>7. CASE Tools!Rank(r)
  <2>1. /\ q.phase = "rank"
        /\ \/ ~q.question.rerank /\ Tools!Update(r, Tools!Ended(q, "ok"))
           \/ Len(Tools!Sources(q)) < 2 /\ Tools!Update(r, Tools!Ended([q EXCEPT !.reranked = TRUE], "ok"))
           \/ Tools!Update(r, [q EXCEPT !.phase = "rerank"])
    BY <1>7 DEF Tools!Rank
  <2>2. \/ ~q.question.rerank /\ Tools!Update(r, Tools!Ended([q EXCEPT !.reranked = FALSE], "ok"))
        \/ Len(Tools!Sources(q)) < 2 /\ Tools!Update(r, Tools!Ended([q EXCEPT !.reranked = TRUE], "ok"))
        \/ Tools!Update(r, [q EXCEPT !.phase = "rerank"])
    BY <1>3, <2>1
  <2> HIDE DEF q
  <2> QED
    BY <1>5, <1>6, <2>1, <2>2
<1>8. CASE Tools!Rerank(r)
  BY <1>5, <1>8 DEF Tools!Rerank, Tools!InTime
<1>9. CASE Tools!RerankFallsBack(r)
  <2>1. ~q.late /\ Tools!Update(r, Tools!Ended(q, "ok"))
    BY <1>9 DEF Tools!RerankFallsBack, Tools!InTime
  <2>2. Tools!Update(r, Tools!Ended([q EXCEPT !.reranked = FALSE], "ok"))
    BY <1>3, <2>1
  <2> HIDE DEF q
  <2> QED
    BY <1>5, <2>1, <2>2
<1> QED
  BY <1>7, <1>8, <1>9

LEMMA DeadlineInv ==
  ASSUME Tools!ToolsAssumption, ToolsInv, NEW r \in Requests, Tools!Deadline(r) \/ Tools!CutOff(r)
  PROVE  ToolsInv'
<1> DEFINE q == requests[r]
<1>1. q \in RequestType /\ RequestInv(q) /\ LateInv(r, q)
  BY RequestHas
<1>2. Tools!ServerUnchanged /\ Tools!CachesUnchanged /\ toolTroubles' \in 0..MaxToolTroubles
  BY TroubleCounts DEF Tools!Deadline, Tools!CutOff
<1>3. CASE q.phase \in Tools!Cuts /\ Tools!Update(r, Tools!Ended(q, "timeout"))
  <2> DEFINE new == Tools!Ended(q, "timeout")
  <2>1. RequestInv(new) /\ LateInv(r, new) /\ new.load = q.load /\ new.question = q.question /\ new.waits = {}
    BY <1>1, EndsWithout
  <2>2. Tools!Update(r, new)
    BY <1>3
  <2> HIDE DEF new
  <2>3. q.phase # "cold"
    BY <1>3 DEF Tools!Cuts
  <2> QED
    BY <1>2, <2>1, <2>2, <2>3, RequestMovesAlone
<1>4. CASE Tools!Deadline(r) /\ q.phase \notin Tools!Cuts
  <2> DEFINE new == [q EXCEPT !.late = TRUE]
  <2>1. Tools!Update(r, new) /\ q.phase \in {"cold", "wait"} /\ (q.phase = "wait" => \A b \in q.waits : requests[b].load = "loading")
    BY <1>4 DEF Tools!Deadline, Tools!Awaiting, Tools!Cuts
  <2>2. q.phase = "wait" /\ r \in q.waits => q.load # "loaded"
    BY <2>1
  <2>3. /\ new \in RequestType /\ new.phase = q.phase /\ new.question = q.question /\ new.load = q.load /\ new.waits = q.waits
        /\ new.index = q.index /\ new.left = q.left /\ new.down = q.down /\ new.refused = q.refused
        /\ new.reranked = q.reranked /\ new.vector = q.vector /\ new.rows = q.rows
    BY <1>1 DEF RequestType
  <2> HIDE DEF new
  <2>4. Collects(q)
    BY <2>1 DEF Collects
  <2>5. RequestInv(new)
    BY <1>1, <2>1, <2>3, <2>4, RowsStay DEF RequestInv, Answered, Searches
  <2>6. LateInv(r, new)
    BY <2>1, <2>2, <2>3 DEF LateInv, Answered
  <2> QED
    BY <1>1, <1>2, <2>1, <2>3, <2>5, <2>6, RequestMovesAlone
<1>5. Tools!CutOff(r) \/ (Tools!Deadline(r) /\ q.phase \in Tools!Cuts) => q.phase \in Tools!Cuts /\ Tools!Update(r, Tools!Ended(q, "timeout"))
  BY DEF Tools!CutOff, Tools!Deadline
<1> QED
  BY <1>3, <1>4, <1>5

LEMMA ToolsBegin ==
  ASSUME Tools!ToolsAssumption, Tools!Init
  PROVE  ToolsInv
<1>1. 0 \in 0..LastCommit /\ 1 \in Tools!Commits /\ toolTroubles \in 0..MaxToolTroubles
  BY DEF Tools!ToolsAssumption, Tools!Commits, Tools!Init
<1>2. Tools!None \in QuestionType
  BY <1>1 DEF Tools!None, QuestionType, Profiles
<1>3. Tools!NoRequest \in RequestType /\ Blank(Tools!NoRequest) /\ Tools!NoRequest.phase = "idle" /\ Tools!NoRequest.load = "none"
      /\ ~Tools!NoRequest.late
  <2> DEFINE zero == [l \in Tools!AllLegs |-> 0]
  <2>1. zero \in [Tools!AllLegs -> 0..LastCommit]
    BY <1>1
  <2> HIDE DEF zero
  <2>2. Tools!NoRequest = [phase |-> "idle", question |-> Tools!None, vector |-> FALSE, left |-> {},
               rows |-> zero, refused |-> {}, down |-> {}, load |-> "none", waits |-> {},
               index |-> 0, late |-> FALSE, reranked |-> FALSE, outcome |-> "none"]
    BY DEF Tools!NoRequest, zero
  <2>3. Tools!NoRequest \in RequestType
    BY <1>1, <1>2, <2>1, <2>2 DEF RequestType, Tools!Phases, Tools!Outcomes
  <2>4. Blank(Tools!NoRequest)
    BY <2>2 DEF Blank, zero
  <2> QED
    BY <2>2, <2>3, <2>4
<1>4. \A r \in Requests : RequestInv(Tools!NoRequest) /\ LateInv(r, Tools!NoRequest) /\ Tools!NoRequest.waits = {}
  <2>1. ~Collects(Tools!NoRequest) /\ ~Answered(Tools!NoRequest) /\ Tools!NoRequest.refused = {}
        /\ Tools!NoRequest.down = {} /\ Tools!NoRequest.index = 0 /\ Tools!NoRequest.waits = {} /\ ~Tools!NoRequest.reranked
    BY <1>3 DEF Collects, Answered, Blank
  <2> QED
    BY <1>3, <2>1 DEF RequestInv, LateInv
<1>5. /\ head = 1 /\ contractOk = FALSE /\ headBots = 0 /\ loads = [l \in Requests \cup {"timer"} |-> 0] /\ pinned = <<>>
      /\ requests = [r \in Requests |-> Tools!NoRequest]
  BY DEF Tools!Init
<1>6. /\ pinned \in Seq([commit : Tools!Commits, by : Requests]) /\ Len(pinned) <= PinnedEntries /\ DOMAIN pinned = {}
  BY <1>5 DEF Tools!ToolsAssumption
<1>7. \A r \in Requests : requests[r] = Tools!NoRequest
  BY <1>5
<1> QED
  BY <1>1, <1>4, <1>5, <1>6, <1>7 DEF ToolsInv

LEMMA ToolsStep ==
  ASSUME Tools!ToolsAssumption, ToolsInv, Tools!Next
  PROVE  ToolsInv'
<1>1. "timer" \notin Requests
  BY DEF Tools!ToolsAssumption
<1>2. ASSUME NEW r \in Requests,
             \/ Tools!Ask(r) \/ Tools!LocalStep(r) \/ Tools!AnswerOf(r) \/ Tools!Deadline(r)
             \/ Tools!EmbedFails(r) \/ Tools!LegFails(r) \/ Tools!PinnedFails(r) \/ Tools!RerankFallsBack(r)
      PROVE  ToolsInv'
  BY <1>2, AskInv, EmbeddedInv, ReadLegInv, LegFailsInv, SettleInv, HasHeadInv, ColdRefreshInv, PinnedIndexInv,
     PinnedLoadedInv, PinnedEndsInv, PinnedKnownInv, RankInv, DeadlineInv DEF Tools!LocalStep, Tools!AnswerOf
<1>3. ASSUME NEW l \in Requests \cup {"timer"}, Tools!Refreshed(l) \/ Tools!RefreshFails(l)
      PROVE  ToolsInv'
  BY <1>1, <1>3, RefreshInv, ServerInv
<1>4. CASE Tools!CheckContract \/ Tools!RefreshHead \/ Tools!Commit
  BY <1>4, ServerInv
<1> QED
  BY <1>2, <1>3, <1>4 DEF Tools!Next

\* The tools server, alone: what its requests and caches hold.
LEMMA ToolsHold ==
  ASSUME Tools!ToolsAssumption
  PROVE  Tools!Spec => []ToolsInv
<1>1. Tools!Init => ToolsInv
  BY ToolsBegin
<1>2. ToolsInv /\ [Tools!Next]_(Tools!toolVars) => ToolsInv'
  <2> SUFFICES ASSUME ToolsInv, [Tools!Next]_(Tools!toolVars)
               PROVE  ToolsInv'
    OBVIOUS
  <2>1. CASE Tools!Next
    BY <2>1, ToolsStep
  <2>2. CASE UNCHANGED Tools!toolVars
    BY <2>2 DEF Tools!toolVars, ToolsInv, Loads
  <2> QED
    BY <2>1, <2>2
<1> QED
  BY <1>1, <1>2, PTL DEF Tools!Spec

LEMMA HeldAlike ==
  ASSUME Tools!ToolsAssumption, ToolsInv
  PROVE  Tools!PinnedAlike
<1> SUFFICES ASSUME NEW q \in Requests, NEW r \in Requests, Tools!SameReport(q, r),
                    requests[q].index = 0 <=> requests[r].index = 0
             PROVE  Tools!Answer(requests[q]) = Tools!Answer(requests[r])
  BY DEF Tools!PinnedAlike
<1> DEFINE a == requests[q]
           b == requests[r]
<1>1. /\ RequestInv(a) /\ RequestInv(b) /\ a \in RequestType /\ b \in RequestType
  BY RequestHas
<1>2. /\ Answered(a) /\ Answered(b) /\ a.question.profile # "read" /\ a.question.pin = b.question.pin /\ a.question.pin # 0
      /\ a.question.profile = b.question.profile /\ a.question.terms = b.question.terms
      /\ a.vector = b.vector /\ a.refused = b.refused /\ a.reranked = b.reranked /\ (a.index = 0 <=> b.index = 0)
  BY DEF Tools!SameReport, Tools!Done, Answered
<1> HIDE DEF a, b
<1>3. Searches(a) /\ Searches(b) /\ Collects(a) /\ Collects(b)
  BY <1>1, <1>2 DEF RequestInv, RequestType, QuestionType, Profiles, Searches, Collects
<1>4. Begun(a) = Begun(b)
  BY <1>2 DEF Begun, Tools!Planned
<1>5. a.index = b.index /\ a.left = {} /\ b.left = {} /\ a.down = {} /\ b.down = {}
  BY <1>1, <1>2 DEF RequestInv
<1>6. \A l \in Tools!AllLegs : a.rows[l] = b.rows[l]
  BY <1>1, <1>2, <1>3, <1>4, <1>5 DEF RequestInv
<1>7. a.rows = b.rows
  BY <1>1, <1>6 DEF RequestType
<1>8. Tools!Sources(a) = Tools!Sources(b)
  BY <1>2, <1>5, <1>7 DEF Tools!Sources
<1>9. Tools!Answer(a) = Tools!Answer(b)
  BY <1>2, <1>8 DEF Tools!Answer
<1> QED
  BY <1>9 DEF a, b

LEMMA HeldTypes ==
  ASSUME Tools!ToolsAssumption, ToolsInv
  PROVE  Tools!LateIsTimeout /\ Tools!TypeOK
<1>1. Tools!LateIsTimeout
  BY RequestHas DEF Tools!LateIsTimeout, Tools!Done, LateInv, Answered
<1>2. \A i \in DOMAIN pinned : pinned[i] \in [commit : Tools!Commits, by : Requests]
  BY SeqElements DEF ToolsInv
<1>3. ASSUME NEW r \in Requests
      PROVE  /\ requests[r].phase \in Tools!Phases /\ requests[r].outcome \in Tools!Outcomes
             /\ requests[r].question.pin \in 0..LastCommit /\ requests[r].index \in 0..LastCommit
             /\ requests[r].left \subseteq Tools!AllLegs /\ requests[r].rows \in [Tools!AllLegs -> 0..LastCommit]
  BY RequestHas DEF RequestType, QuestionType
<1> QED
  BY <1>1, <1>2, <1>3 DEF Tools!TypeOK, ToolsInv

-----------------------------------------------------------------------------
(* The users of the graph beside each other. *)

\* A step of one user leaves the variables of the others alone: a behaviour of all is one
\* of each.
LEMMA EachRuns == BrainSpec => Spec /\ Company!Spec /\ Tools!Spec /\ Vault!Spec
<1>1. BrainInit => Init /\ Company!Init /\ Tools!Init /\ Vault!Init
  BY DEF BrainInit
<1>2. ASSUME [BrainNext]_allVars
      PROVE  /\ [Next]_vars /\ [Company!Next]_Company!vars
             /\ [Tools!Next]_Tools!toolVars /\ [Vault!Next]_Vault!vars
  <2>1. UNCHANGED vars => [Next]_vars
    OBVIOUS
  <2>2. UNCHANGED companyVars => [Company!Next]_Company!vars
    BY DEF companyVars, Company!vars
  <2>3. UNCHANGED toolVars => [Tools!Next]_Tools!toolVars
    BY DEF toolVars, Tools!toolVars
  <2>4. UNCHANGED vaultVars => [Vault!Next]_Vault!vars
    BY DEF vaultVars, Vault!vars, Vault!podVars, Vault!planVars
  <2> QED
    BY <1>2, <2>1, <2>2, <2>3, <2>4 DEF BrainNext, allVars
<1> QED
  BY <1>1, <1>2, PTL DEF BrainSpec, Spec, Company!Spec, Tools!Spec, Vault!Spec

\* Every variable of the four users holds values of its kind, whoever moves.
THEOREM BrainTyped ==
  ASSUME Company!SourceAssumption, Tools!ToolsAssumption,
         Vault!DataAssumption, Vault!DigestAssumption, Vault!BoundAssumption, Vault!FirstAssumption
  PROVE  BrainSpec => []TypesOK
<1>1. Company!Spec => []Company!TypeOK
  BY Company!TypeCorrect
<1>2. Vault!Spec => []Vault!TypeOK
  BY Vault!TypeCorrect
<1>3. ToolsInv => Tools!TypeOK
  BY HeldTypes
<1> QED
  BY <1>1, <1>2, <1>3, TypeCorrect, ToolsHold, EachRuns, PTL DEF TypesOK

\* Two searches of one commit that report the same give the same answer, whatever was
\* committed, cached and dropped in between, if both have got their bot index: all rows of
\* both are of that commit, and so is the index.  And a request that ran into its deadline
\* does not end with an answer, but for an index that others' deadlines bound.
THEOREM AnswersAreAlike ==
  ASSUME Tools!ToolsAssumption
  PROVE  BrainSpec => []AnswersAlike
<1>1. ToolsInv => Tools!PinnedAlike /\ Tools!LateIsTimeout
  BY HeldAlike, HeldTypes
<1> QED
  BY <1>1, ToolsHold, EachRuns, PTL DEF AnswersAlike

\* Whoever else uses the brain, a run of the company view that nothing disturbs leaves the
\* company graph equal to the view of the brain, and loads no topic that a document outside
\* the internal tier is about all the time.
THEOREM CompanyIsSound ==
  ASSUME Company!SourceAssumption
  PROVE  BrainSpec => []CompanySound
<1>1. Company!Spec => []Company!CompanySound
  BY Company!RunIsSound
<1> QED
  BY <1>1, EachRuns, PTL DEF CompanySound

\* Neither the vault importer nor the company view loads an edge that its graph holds, or
\* one whose ends it does not, after a pod that died halfway either.
THEOREM EdgesLoadedOnce ==
  ASSUME Company!SourceAssumption,
         Vault!DataAssumption, Vault!DigestAssumption, Vault!BoundAssumption, Vault!FirstAssumption
  PROVE  BrainSpec => []EdgesLoadOnce
<1>1. Company!Spec => []Company!EdgesLoadCleanly
  BY Company!EdgesClean
<1>2. Vault!Spec => []Vault!NoLinkLoadedTwice
  BY Vault!LinksOnce
<1> QED
  BY <1>1, <1>2, EachRuns, PTL DEF EdgesLoadOnce
=============================================================================
