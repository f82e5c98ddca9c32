------------------------------- MODULE Distill -------------------------------
(***************************************************************************)
(* The distiller of the brain graph                                        *)
(* (src/kubernetes/apps/ai/omnigraph/distill/app).                         *)
(*                                                                         *)
(* Every hour a pod snapshots the graph, sends the documents whose         *)
(* Distillation row is missing or of another content to a language model,  *)
(* turns the names of the answers into topics, and applies deletes and     *)
(* loads: links, topics, and the Distillation rows last.  The importers    *)
(* and agents write to the same graph at any time.  A pod keeps nothing.   *)
(*                                                                         *)
(* Documents and names are numbers: the order of their slugs.  Two names   *)
(* of one Concept are what the model calls the same topic.  People,        *)
(* organizations, places and areas take the path of a topic that never     *)
(* merges.  The aliases are those that merges add.                         *)
(***************************************************************************)
EXTENDS Naturals, FiniteSets

CONSTANTS
  Docs, Names, MaxVersion,
  FirstDocs,      \* the versions of the documents at the start
  Mentions,       \* the names in a document's content: [Docs \X 1..MaxVersion -> SUBSET Names]
  Answers,        \* what the model makes of it: "read", "refused" (HTTP 400) or "garbled"
  Concept,        \* [Names -> what a name means]
  MaxDocuments,   \* --max-documents
  MaxSpend,       \* --max-spend-usd
  MaxCallCost,    \* the dearest extraction
  MaxQuestionCost,   \* the dearest question whether two names are one topic
  MergeCandidates,   \* MERGE_CANDIDATES
  MaxAliasQuestions, \* MAX_ALIAS_QUESTIONS
  Workers,        \* --workers
  RelatedMin,     \* --related-min-documents
  MaxAliases,     \* MAX_ALIASES
  MaxEdits, MaxTroubles, MaxAgentLinks, MaxKeySpent,  \* bounds on the others' steps
  MaxTogether     \* bound on edits, troubles and links together

ASSUME SetsAssumption ==
  /\ Docs \subseteq Nat /\ Names \subseteq Nat /\ IsFiniteSet(Docs) /\ IsFiniteSet(Names)
  /\ MaxVersion \in Nat /\ FirstDocs \subseteq [Docs -> 0..MaxVersion]
  /\ Mentions \in [Docs \X (1..MaxVersion) -> SUBSET Names]
  /\ Answers \in [Docs \X (1..MaxVersion) -> {"read", "refused", "garbled"}]
ASSUME BoundAssumption ==
  /\ {MaxDocuments, MaxSpend, MaxCallCost, Workers, RelatedMin} \subseteq Nat \ {0}
  /\ {MaxQuestionCost, MergeCandidates, MaxAliasQuestions, MaxAliases} \subseteq Nat
  /\ {MaxEdits, MaxTroubles, MaxAgentLinks, MaxKeySpent, MaxTogether} \subseteq Nat

VARIABLES
  docs,       \* the importers' documents: the version of their text, 0 when there is none
  graph,      \* topics, links and Distillation rows
  phase,      \* idle, extract, apply
  snap,       \* the pod's snapshot of docs and graph
  queue,      \* selected documents not yet submitted
  inflight,   \* submitted, not yet answered
  read,       \* documents whose extraction is in
  empty,      \* ... and is extraction_of_nothing
  spent,      \* counts.cost_usd
  unreachable,
  plan,       \* what is still to be applied
  quiet,      \* nobody else has written since the snapshot of the last run, which did not fail
  silent,     \* a question about two topics was once left without an answer
  keySpent,   \* the budget of the LiteLLM key is spent
  edits, troubles, agentLinks, keySpents   \* what is used of the bounds

runVars   == <<snap, queue, inflight, read, empty, spent, unreachable>>
bounds    == <<edits, troubles, agentLinks, keySpents>>
vars      == <<docs, graph, phase, runVars, plan, quiet, silent, keySpent, bounds>>

Versions == 0..MaxVersion

Room    == edits + troubles + agentLinks < MaxTogether
Trouble == troubles < MaxTroubles /\ Room

Pairs    == {p \in Names \X Names : p[1] < p[2]}
Least(S) == CHOOSE x \in S : \A y \in S : x <= y
Flip(f, d, S) == [f EXCEPT ![d] = S]

-----------------------------------------------------------------------------
(* The graph under derived/, and the deletes of the server. *)

Graphs == [topics  : SUBSET Names,
           aliases : [Names -> SUBSET Names],
           owned   : [Docs -> SUBSET Names],   \* edges whose id starts with derived:
           foreign : [Docs -> SUBSET Names],   \* the others, of people and agents
           related : [Pairs -> Nat],           \* TopicRelatedTopic and its count
           rows    : [Docs -> Versions]]       \* Distillation rows: content_sha256

EmptyGraph ==
  [topics |-> {}, aliases |-> [n \in Names |-> {}],
   owned |-> [d \in Docs |-> {}], foreign |-> [d \in Docs |-> {}],
   related |-> [p \in Pairs |-> 0], rows |-> [d \in Docs |-> 0]]

\* A node goes with its edges.
WithoutTopic(g, t) ==
  [g EXCEPT !.topics  = @ \ {t}, !.aliases = Flip(@, t, {}),
            !.owned   = [d \in Docs |-> @[d] \ {t}],
            !.foreign = [d \in Docs |-> @[d] \ {t}],
            !.related = [p \in Pairs |-> IF t \in {p[1], p[2]} THEN 0 ELSE @[p]]]

WithoutDoc(g, d) == [g EXCEPT !.owned[d] = {}, !.foreign[d] = {}]

Linked(g, d) == g.owned[d] \cup g.foreign[d]

NoPlan == [unlink |-> {}, unrelate |-> {}, drop |-> {}, forget |-> {},
           topics |-> {}, aliases |-> [n \in Names |-> {}],
           link |-> {}, relate |-> {}, count |-> [p \in Pairs |-> 0], record |-> {}]

Plans == [unlink : SUBSET (Docs \X Names), unrelate : SUBSET Pairs, drop : SUBSET Names,
          forget : SUBSET Docs, topics : SUBSET Names, aliases : [Names -> SUBSET Names],
          link : SUBSET (Docs \X Names), relate : SUBSET Pairs, count : [Pairs -> Nat],
          record : SUBSET Docs]

Init ==
  /\ docs \in FirstDocs /\ graph = EmptyGraph
  /\ phase = "idle" /\ snap = [docs |-> [d \in Docs |-> 0], graph |-> EmptyGraph]
  /\ queue = {} /\ inflight = {} /\ read = {} /\ empty = {} /\ spent = 0 /\ unreachable = 0
  /\ plan = NoPlan /\ quiet = FALSE /\ silent = FALSE /\ keySpent = FALSE
  /\ edits = 0 /\ troubles = 0 /\ agentLinks = 0 /\ keySpents = 0

-----------------------------------------------------------------------------
(* Snapshot and selection. *)

\* pending_documents: the Distillation row is missing or has another hash.
Pending == {d \in Docs : docs[d] # 0 /\ graph.rows[d] # docs[d]}

\* pending[:max_documents], in the order of the slugs
Selected == {d \in Pending : Cardinality({e \in Pending : e < d}) < MaxDocuments}

NothingVisible == (\A d \in Docs : docs[d] = 0) /\ (\E d \in Docs : graph.rows[d] # 0)

\* run() refuses a snapshot that has Distillation rows and no documents.
RefuseNothingVisible ==
  /\ phase = "idle" /\ NothingVisible
  /\ quiet' = FALSE
  /\ UNCHANGED <<docs, graph, phase, runVars, plan, silent, keySpent, bounds>>

\* snapshot.sh, read_graph and the selection of run()
Snapshot ==
  /\ phase = "idle" /\ ~NothingVisible
  /\ snap' = [docs |-> docs, graph |-> graph]
  /\ queue' = Selected /\ quiet' = TRUE
  /\ phase' = "extract"
  /\ inflight' = {} /\ read' = {} /\ empty' = {} /\ spent' = 0 /\ unreachable' = 0
  /\ UNCHANGED <<docs, graph, plan, silent, keySpent, bounds>>

-----------------------------------------------------------------------------
(* run_extractions. *)

\* Mutant: what is in flight is not counted.
SubmitAll == queue # {} /\ spent < MaxSpend

CanSubmit == queue # {} /\ Cardinality(inflight) < Workers /\ spent < MaxSpend

Submit ==
  /\ phase = "extract" /\ CanSubmit
  /\ inflight' = inflight \cup {Least(queue)} /\ queue' = queue \ {Least(queue)}
  /\ UNCHANGED <<docs, graph, phase, snap, read, empty, spent, unreachable, plan, quiet, silent, keySpent, bounds>>

Outcome(d) == IF keySpent THEN "refused" ELSE Answers[<<d, snap.docs[d]>>]

\* An answer: parsed, refused with HTTP 400, or not what was asked for.
Answer ==
  /\ phase = "extract" /\ ~CanSubmit
  /\ \E d \in inflight :
       /\ inflight' = inflight \ {d}
       /\ read'  = IF Outcome(d) = "garbled" THEN read ELSE read \cup {d}
       /\ empty' = IF Outcome(d) = "refused" THEN empty \cup {d} ELSE empty
       /\ IF Outcome(d) = "refused" THEN spent' = spent
          ELSE \E cost \in 1..MaxCallCost : spent' = spent + cost
  /\ UNCHANGED <<docs, graph, phase, snap, queue, unreachable, plan, quiet, silent, keySpent, bounds>>

\* A call fails after its attempts, with an HTTP error or without an answer.
CallFails ==
  /\ phase = "extract" /\ ~CanSubmit /\ Trouble
  /\ troubles' = troubles + 1
  /\ \E d \in inflight, reached \in BOOLEAN :
       /\ inflight' = inflight \ {d}
       /\ unreachable' = IF reached THEN unreachable ELSE unreachable + 1
       /\ phase' = IF unreachable' >= Workers /\ read = {} THEN "idle" ELSE "extract"
       /\ quiet' = (quiet /\ phase' = "extract")
  /\ UNCHANGED <<docs, graph, snap, queue, read, empty, spent, plan, silent, keySpent,
                 edits, agentLinks, keySpents>>

-----------------------------------------------------------------------------
(* Resolver: from names to topics. *)

Extraction(d) == IF d \in empty THEN {} ELSE Mentions[<<d, snap.docs[d]>>]

Known   == snap.graph.topics
Holders(n) == {t \in Known : n \in snap.graph.aliases[t]}

\* prepare and resolve_topic: no topic of that name, and no alias the model confirms.
Fresh(judged) ==
  {n \in UNION {Extraction(d) : d \in read} : n \notin Known /\ ~(judged /\ Holders(n) # {})}

\* Mutant: a new topic is only compared with topics the graph has.
TwinsKnown(n, judged) == {t \in Known : judged /\ Concept[t] = Concept[n]}

\* merge_candidates: topics of the graph, and new ones of a smaller slug.
Twins(n, judged) ==
  {t \in Known \cup {m \in Fresh(judged) : m < n} : judged /\ Concept[t] = Concept[n]}

\* resolve_topic, merge_similar and canonical.
Canonical(n, judged) ==
  CASE n \in Known -> n
    [] n \notin Known /\ judged /\ Holders(n) # {} -> Least(Holders(n))
    [] OTHER -> IF Twins(n, judged) = {} THEN n
                ELSE IF Twins(n, judged) \cap Known # {} THEN Least(Twins(n, judged) \cap Known)
                ELSE Least(Twins(n, judged))

\* add_alias
NewAliases(t, judged) ==
  LET merged == {n \in Fresh(judged) : n # t /\ Canonical(n, judged) = t}
      known  == IF t \in Known THEN snap.graph.aliases[t] ELSE {}
  IN  known \cup {n \in merged : Cardinality(known) + Cardinality({m \in merged : m <= n}) <= MaxAliases}

-----------------------------------------------------------------------------
(* build_plan. *)

\* desired_links, canonical
Wanted(d, judged) == {Canonical(n, judged) : n \in Extraction(d)}

OwnedAfter(d, judged) ==
  IF d \in read THEN Wanted(d, judged) \ snap.graph.foreign[d] ELSE snap.graph.owned[d]

LinksAfter(d, judged) == OwnedAfter(d, judged) \cup snap.graph.foreign[d]

\* Mutant: only the distiller's own edges count as references.
ReferencedByOwn(judged) == UNION {OwnedAfter(d, judged) : d \in Docs}

Referenced(judged) == UNION {LinksAfter(d, judged) : d \in Docs}

Doomed(judged) == (Known \cup Fresh(judged)) \ Referenced(judged)

\* related_pairs
Together(p, judged) ==
  Cardinality({d \in Docs : {p[1], p[2]} \subseteq LinksAfter(d, judged)})

Unrelate(judged) ==
  {p \in Pairs : /\ snap.graph.related[p] > 0 /\ Together(p, judged) < RelatedMin
                 /\ {p[1], p[2]} \cap Doomed(judged) = {}}

PlanOf(judged) ==
  [unlink   |-> UNION {{d} \X (snap.graph.owned[d] \ OwnedAfter(d, judged)) : d \in read},
   unrelate |-> Unrelate(judged),
   drop     |-> Known \cap Doomed(judged),
   forget   |-> {d \in Docs : snap.docs[d] = 0 /\ snap.graph.rows[d] # 0},
   topics   |-> {t \in (Known \cup Fresh(judged)) \ Doomed(judged) :
                    t \notin Known \/ NewAliases(t, judged) # snap.graph.aliases[t]},
   aliases  |-> [t \in Names |-> NewAliases(t, judged)],
   link     |-> UNION {{d} \X (OwnedAfter(d, judged) \ snap.graph.owned[d]) : d \in read},
   relate   |-> {p \in Pairs : /\ Together(p, judged) >= RelatedMin
                               /\ Together(p, judged) # snap.graph.related[p]},
   count    |-> [p \in Pairs |-> Together(p, judged)],
   record   |-> read]

\* prepare: is the name of an extraction the topic that has it for an alias?
AliasQuestions == {q \in Names \X Known : q[1] \in Fresh(FALSE) /\ q[2] \in Holders(q[1])}

\* audit_aliases: is an alias of a topic that stays that topic?
AuditQuestions(judged) ==
  {q \in Names \X ((Known \cup Fresh(judged)) \ Doomed(judged)) : q[1] \in NewAliases(q[2], judged)}

\* The questions a run may ask: one for every alias that matches, MERGE_CANDIDATES for
\* every new topic, and those of the audit.  Fewer are asked when topics are alike or
\* unlike enough, or were audited before.
MostAsked(judged) ==
  Cardinality(AliasQuestions) + MergeCandidates * Cardinality(Fresh(judged))
    + (IF Cardinality(AuditQuestions(judged)) <= MaxAliasQuestions
       THEN Cardinality(AuditQuestions(judged)) ELSE MaxAliasQuestions)

\* The extractions are over: nothing is in flight and nothing more is submitted.
\* The questions about two topics are answered, or at worst none is.  Each costs, an
\* answer that is of no use too, and nothing is compared with the limit.
MakePlan ==
  /\ phase = "extract" /\ inflight = {} /\ ~CanSubmit
  /\ \E judged \in BOOLEAN :
       /\ judged \/ Trouble
       /\ plan' = PlanOf(judged)
       /\ silent' = (silent \/ ~judged)
       /\ troubles' = IF judged THEN troubles ELSE troubles + 1
       /\ \E cost \in 0..(MostAsked(judged) * MaxQuestionCost) : spent' = spent + cost
  /\ phase' = "apply"
  /\ UNCHANGED <<docs, graph, snap, queue, inflight, read, empty, unreachable, quiet, keySpent,
                 edits, agentLinks, keySpents>>

-----------------------------------------------------------------------------
(* apply.sh: one statement or row at a time, which is finer than its files. *)

Unlink ==
  /\ phase = "apply" /\ plan.unlink # {}
  /\ \E e \in plan.unlink :
       /\ graph' = [graph EXCEPT !.owned[e[1]] = @ \ {e[2]}]
       /\ plan' = [plan EXCEPT !.unlink = @ \ {e}]
  /\ UNCHANGED <<docs, phase, runVars, quiet, silent, keySpent, bounds>>

Unrelated ==
  /\ phase = "apply" /\ plan.unlink = {} /\ plan.unrelate # {}
  /\ graph' = [graph EXCEPT !.related = [p \in Pairs |-> IF p \in plan.unrelate THEN 0 ELSE @[p]]]
  /\ plan' = [plan EXCEPT !.unrelate = {}]
  /\ UNCHANGED <<docs, phase, runVars, quiet, silent, keySpent, bounds>>

Drop ==
  /\ phase = "apply" /\ plan.unlink = {} /\ plan.unrelate = {} /\ plan.drop # {}
  /\ \E t \in plan.drop :
       /\ graph' = WithoutTopic(graph, t)
       /\ plan' = [plan EXCEPT !.drop = @ \ {t}]
  /\ UNCHANGED <<docs, phase, runVars, quiet, silent, keySpent, bounds>>

Pruned == plan.unlink = {} /\ plan.unrelate = {} /\ plan.drop = {}

Forget ==
  /\ phase = "apply" /\ Pruned /\ plan.forget # {}
  /\ graph' = [graph EXCEPT !.rows = [d \in Docs |-> IF d \in plan.forget THEN 0 ELSE @[d]]]
  /\ plan' = [plan EXCEPT !.forget = {}]
  /\ UNCHANGED <<docs, phase, runVars, quiet, silent, keySpent, bounds>>

LoadTopic ==
  /\ phase = "apply" /\ Pruned /\ plan.forget = {} /\ plan.topics # {}
  /\ \E t \in plan.topics :
       /\ graph' = [graph EXCEPT !.topics = @ \cup {t}, !.aliases[t] = plan.aliases[t]]
       /\ plan' = [plan EXCEPT !.topics = @ \ {t}]
  /\ UNCHANGED <<docs, phase, runVars, quiet, silent, keySpent, bounds>>

NodesLoaded == Pruned /\ plan.forget = {} /\ plan.topics = {}

\* The server refuses an edge without an end.
CanLink(e)   == docs[e[1]] # 0 /\ e[2] \in graph.topics
CanRelate(p) == {p[1], p[2]} \subseteq graph.topics

LoadLink ==
  /\ phase = "apply" /\ NodesLoaded /\ plan.link # {}
  /\ \E e \in plan.link :
       /\ CanLink(e)
       /\ graph' = [graph EXCEPT !.owned[e[1]] = @ \cup {e[2]}]
       /\ plan' = [plan EXCEPT !.link = @ \ {e}]
  /\ UNCHANGED <<docs, phase, runVars, quiet, silent, keySpent, bounds>>

LoadRelated ==
  /\ phase = "apply" /\ NodesLoaded /\ plan.link = {} /\ plan.relate # {}
  /\ \A p \in plan.relate : CanRelate(p)
  /\ graph' = [graph EXCEPT !.related = [p \in Pairs |-> IF p \in plan.relate THEN plan.count[p] ELSE @[p]]]
  /\ plan' = [plan EXCEPT !.relate = {}]
  /\ UNCHANGED <<docs, phase, runVars, quiet, silent, keySpent, bounds>>

\* Mutant: the rows go first.
EdgesUnloaded == NodesLoaded

EdgesLoaded == NodesLoaded /\ plan.link = {} /\ plan.relate = {}

\* The Distillation row of a document, written last.
Record ==
  /\ phase = "apply" /\ EdgesLoaded /\ plan.record # {}
  /\ \E d \in plan.record :
       /\ graph' = [graph EXCEPT !.rows[d] = snap.docs[d]]
       /\ plan' = [plan EXCEPT !.record = @ \ {d}]
  /\ UNCHANGED <<docs, phase, runVars, quiet, silent, keySpent, bounds>>

Applied == EdgesLoaded /\ plan.record = {}

\* The pod ends and keeps nothing.
Ends(ok) ==
  /\ phase' = "idle" /\ plan' = NoPlan /\ quiet' = (quiet /\ ok)
  /\ queue' = {} /\ inflight' = {} /\ read' = {} /\ empty' = {} /\ spent' = 0
  /\ UNCHANGED <<docs, graph, snap, unreachable, silent, keySpent>>

Finish == phase = "apply" /\ Applied /\ Ends(TRUE) /\ UNCHANGED bounds

Refusing ==
  /\ NodesLoaded
  /\ \/ \E e \in plan.link : ~CanLink(e)
     \/ plan.link = {} /\ \E p \in plan.relate : ~CanRelate(p)

Refused == phase = "apply" /\ Refusing /\ Ends(FALSE) /\ UNCHANGED bounds

\* The pod dies, or the names' embeddings fail, which ends the run before its plan.
Fail ==
  /\ phase # "idle" /\ Trouble /\ troubles' = troubles + 1
  /\ Ends(FALSE) /\ UNCHANGED <<edits, agentLinks, keySpents>>

-----------------------------------------------------------------------------
(* The others. *)

\* An importer writes a new text, or deletes the document and with it its edges.
EditDoc ==
  /\ edits < MaxEdits /\ Room /\ edits' = edits + 1
  /\ \E d \in Docs, v \in Versions :
       /\ v # docs[d] /\ (v > docs[d] \/ v = 0)
       /\ v # 0 => v > graph.rows[d] /\ v > snap.docs[d]    \* never a text of before
       /\ docs' = Flip(docs, d, v)
       /\ graph' = IF v = 0 THEN WithoutDoc(graph, d) ELSE graph
  /\ quiet' = FALSE
  /\ UNCHANGED <<phase, runVars, plan, silent, keySpent, troubles, agentLinks, keySpents>>

\* An agent links a document to a topic.
AgentLinks ==
  /\ agentLinks < MaxAgentLinks /\ Room /\ agentLinks' = agentLinks + 1
  /\ \E d \in Docs, t \in graph.topics :
       /\ docs[d] # 0 /\ t \notin graph.foreign[d]
       /\ graph' = [graph EXCEPT !.foreign[d] = @ \cup {t}]
  /\ quiet' = FALSE
  /\ UNCHANGED <<docs, phase, runVars, plan, silent, keySpent, edits, troubles, keySpents>>

\* LiteLLM answers HTTP 400 once the budget of the key is spent ...
KeySpent ==
  /\ ~keySpent /\ keySpents < MaxKeySpent /\ keySpents' = keySpents + 1
  /\ keySpent' = TRUE
  /\ UNCHANGED <<docs, graph, phase, runVars, plan, quiet, silent, edits, troubles, agentLinks>>

\* ... until it is renewed.
KeyRenewed ==
  /\ keySpent /\ keySpent' = FALSE
  /\ UNCHANGED <<docs, graph, phase, runVars, plan, quiet, silent, bounds>>

ApplyStep ==
  \/ Unlink \/ Unrelated \/ Drop \/ Forget \/ LoadTopic \/ LoadLink \/ LoadRelated \/ Record
PodStep == RefuseNothingVisible \/ Snapshot \/ Submit \/ Answer \/ MakePlan \/ ApplyStep \/ Finish \/ Refused

Next == PodStep \/ CallFails \/ Fail \/ EditDoc \/ AgentLinks \/ KeySpent \/ KeyRenewed

Spec == Init /\ [][Next]_vars

\* The CronJob starts a pod every hour, and a pod that lives goes on.
FairSpec == Spec /\ WF_vars(PodStep)

-----------------------------------------------------------------------------
(* Properties. *)

\* Every variable holds values of its kind.
TypeOK ==
  /\ docs \in [Docs -> Versions] /\ graph \in Graphs
  /\ phase \in {"idle", "extract", "apply"}
  /\ snap \in [docs : [Docs -> Versions], graph : Graphs]
  /\ queue \subseteq Docs /\ inflight \subseteq Docs /\ read \subseteq Docs /\ empty \subseteq Docs
  /\ spent \in Nat /\ unreachable \in Nat /\ plan \in Plans
  /\ quiet \in BOOLEAN /\ silent \in BOOLEAN /\ keySpent \in BOOLEAN
  /\ edits \in Nat /\ troubles \in Nat /\ agentLinks \in Nat /\ keySpents \in Nat

\* A document whose Distillation row has its present content is linked to a topic
\* for every name in it, its own links name nothing else, and nothing of it is lost
\* by a pod that dies between two files (the rows are written last).  Only a text
\* the provider itself refuses stays without links.
RecordedLinked ==
  \A d \in Docs :
    LET text == <<d, docs[d]>>
    IN  (docs[d] # 0 /\ graph.rows[d] = docs[d] /\ Answers[text] = "read") =>
          /\ \A n \in Mentions[text] : \E t \in Linked(graph, d) : Concept[t] = Concept[n]
          /\ \A t \in graph.owned[d] : \E n \in Mentions[text] : Concept[t] = Concept[n]

\* The questions that the extractions read can lead to, whatever is answered.
QuestionLimit ==
  Cardinality(AliasQuestions) + MergeCandidates * Cardinality(Fresh(FALSE)) + MaxAliasQuestions

\* The spend limit is compared before an extraction and paid after it, and not compared
\* before a question: a run overshoots by less than one extraction a worker, and then by
\* the questions its extractions lead to and one full audit.
SpendBounded ==
  spent < MaxSpend + Workers * MaxCallCost
            + (IF phase = "apply" THEN QuestionLimit * MaxQuestionCost ELSE 0)

\* What the runbook says: a run stops at the spend limit, but for the calls in flight.
SpendWithinLimit == spent < MaxSpend + Workers * MaxCallCost

\* As long as the model has answered every question, no two topics mean the same.
OneTopicPerConcept ==
  ~silent => \A s, t \in graph.topics : Concept[s] = Concept[t] => s = t

\* A run that applied everything, alone with the graph, leaves no topic that nothing
\* links to, the pairs of topics with their counts, and rows of documents only.
CompleteRunTidy ==
  (phase = "idle" /\ quiet) =>
    /\ graph.topics = UNION {Linked(graph, d) : d \in Docs}
    /\ \A p \in Pairs :
         LET n == Cardinality({d \in Docs : {p[1], p[2]} \subseteq Linked(graph, d)})
         IN  graph.related[p] = IF n >= RelatedMin THEN n ELSE 0
    /\ \A d \in Docs : docs[d] = 0 => graph.rows[d] = 0

\* Names that reduce to one concept lead to one topic, and a complete run leaves no
\* topic or link that nothing supports.
TopicsTidy == OneTopicPerConcept /\ CompleteRunTidy

\* No step of a pod takes a link of somebody else that its snapshot has seen.
KeepsForeignLinks ==
  [][(~UNCHANGED graph /\ UNCHANGED <<docs, agentLinks>>) =>
        \A d \in Docs : (graph.foreign[d] \cap snap.graph.foreign[d]) \subseteq graph'.foreign[d]]_vars

Distilled ==
  \A d \in Docs : docs[d] # 0 /\ Answers[<<d, docs[d]>>] # "garbled" => graph.rows[d] = docs[d]

=============================================================================
