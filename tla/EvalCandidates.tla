--------------------------- MODULE EvalCandidates ---------------------------
(***************************************************************************)
(* The candidates mode of the brain evaluation                             *)
(* (src/kubernetes/apps/ai/omnigraph/brain-eval/app/candidates.py): it     *)
(* picks documents and topics of a commit, has a model draft questions     *)
(* about each, another grade the documents found for every question, keeps *)
(* what can be scored, and cuts it to a set of cases of two halves.        *)
(*                                                                         *)
(* Slugs are numbers, in their order.  Every shuffle is a choice; a        *)
(* question is its source and its place among the source's two, and only   *)
(* whether it repeats the excerpt counts of its text.  Sources and         *)
(* questions are worked on in one order, for none of them looks at another.*)
(* `cases` is what is published: the files of a job that fails halfway go  *)
(* with its directory.                                                     *)
(***************************************************************************)
EXTENDS Integers, FiniteSetsExt, Functions

CONSTANTS
  Document,     \* slug -> [kind, language, long, repo], the usable ones
  Topics,       \* slug -> the documents linked to it
  Related,      \* pairs of topics
  People,       \* slug -> the documents that mention them
  Ages,         \* kind -> how many days ago its documents changed
  Templates,    \* the temporal questions: [kind, language, days, spans]
  Plan, Quota,  \* SOURCE_PLAN, CATEGORY_QUOTA
  LongPicks, CrossPicks, PerRepo, AboutMin, PersonMin, ConnectMin, GradeTwoMax, ExpectedMax, PoolDocs,
  Pooled,       \* the documents the searches may find
  Unanswerable, \* the numbers of the drafts without an answer
  Models        \* the pool model and its fallback, in this order

VARIABLES
  phase,
  undrafted, ungraded,  \* sources and candidates still to be worked on
  refused,              \* models that answered 429
  kept,                 \* candidates with what is expected of them
  uncut,                \* categories whose cases are still to be chosen
  cases                 \* what is written

candidateVars == <<phase, undrafted, ungraded, refused, kept, uncut, cases>>

Init == phase = "idle" /\ undrafted = {} /\ ungraded = {} /\ refused = {} /\ kept = {} /\ uncut = DOMAIN Quota /\ cases = {}

-----------------------------------------------------------------------------
(* Sources. *)

Picks(S, n) == {T \in SUBSET S : Cardinality(T) = Min({Cardinality(S), Max({0, n})})}

Usable(kind, language) == {d \in DOMAIN Document : Document[d].kind = kind /\ Document[d].language = language}

Source(category, language, slugs, kind, late, two) ==
  [category |-> category, language |-> language, slugs |-> slugs, kind |-> kind, late |-> late, two |-> two]

Texts(category, language, kind, late, ds) == {Source(category, language, {d}, kind, late, {}) : d \in ds}

\* Late parts of long Dutch notes first, then others; what is over the plan is asked in English.
NoteSources ==
  UNION {UNION {{Texts("notes-nl", "nl", "note", TRUE, long) \cup Texts("notes-nl", "nl", "note", FALSE, own)
                  \cup Texts("cross-lingual", "en", "note", FALSE, rest \ own) \cup Texts("notes-en", "en", "note", FALSE, english) :
                    own \in Picks(rest, Plan["notes-nl"] - Cardinality(long)), english \in Picks(Usable("note", "en"), Plan["notes-en"])} :
                 rest \in Picks(Usable("note", "nl") \ long, Plan["notes-nl"] - Cardinality(long) + CrossPicks)} :
         long \in Picks({d \in Usable("note", "nl") : Document[d].long}, LongPicks)}

OfRepo(ds, repo) == {d \in ds : Document[d].repo = repo}

\* At most PerRepo of a repository; the one over the plan is asked in Dutch.
Spread(ds) == \A d \in ds : Cardinality(OfRepo(ds, Document[d].repo)) <= PerRepo
DocSources ==
  LET full == Plan["docs-en"] + 1
      docs == Usable("doc", "en")
      chosen == {ds \in SUBSET docs : /\ Spread(ds) /\ Cardinality(ds) <= full
                                      /\ Cardinality(ds) = full \/ \A d \in docs \ ds : ~Spread(ds \cup {d})}
  IN  UNION {{Texts("docs-en", "en", "doc", FALSE, own) \cup Texts("cross-lingual", "nl", "doc", FALSE, ds \ own) :
                own \in Picks(ds, Plan["docs-en"])} : ds \in chosen}

\* Topics and one person, with enough documents; the language is drawn, and left out.
Entity(slug, kind) == Source("about", "any", {slug}, kind, FALSE, {slug})
AboutSources ==
  LET hubs   == {t \in DOMAIN Topics : Cardinality(Topics[t]) >= AboutMin}
      people == {p \in DOMAIN People : Cardinality(People[p]) >= PersonMin}
  IN  {{Entity(x, "topic") : x \in S} \cup {Entity(x, "person") : x \in T} : S \in Picks(hubs, Plan["about"] - 1), T \in Picks(people, 1)}

Lowest(S, n) == CHOOSE T \in Picks(S, n) : \A x \in T, y \in S \ T : x < y

\* Pairs of related topics with enough documents in common.
ConnectSources ==
  LET shared(pair) == Topics[pair[1]] \cap Topics[pair[2]]
      pairs == {pair \in Related : pair[1] < pair[2] /\ Cardinality(shared(pair)) >= ConnectMin}
  IN  {{Source("connect", "any", Range(pair), "pair", FALSE, Lowest(shared(pair), GradeTwoMax)) : pair \in S} : S \in Picks(pairs, Plan["connect"])}

\* A repository with cases is left alone.
Select ==
  /\ phase = "idle" /\ phase' = "draft"
  /\ \E notes \in NoteSources, docs \in DocSources, about \in AboutSources, connect \in ConnectSources :
       undrafted' = notes \cup docs \cup about \cup connect
  /\ UNCHANGED <<ungraded, refused, kept, uncut, cases>>

-----------------------------------------------------------------------------
(* Drafts and grades. *)

\* One or two questions, or none; those in `copies` share a run of words with the excerpt.
Answers == {[count |-> n, copies |-> c] : n \in 0..2, c \in SUBSET {0, 1}}
Fresh(a) == (0..(a.count - 1)) \ a.copies

\* If any repeats the excerpt all are drafted again, and what repeats it then is dropped.
Kept(first, second) == IF Fresh(first) = 0..(first.count - 1) THEN Fresh(first) ELSE Fresh(second)

Candidate(source, paraphrase, answerable) ==
  [source |-> source, paraphrase |-> paraphrase, answerable |-> answerable, days |-> 0, expected |-> << >>, found |-> 0]

Draft(s) ==
  /\ phase = "draft"
  /\ undrafted' = undrafted \ {s}
  /\ \E first, second \in Answers :
       ungraded' = ungraded \cup {Candidate(s, i, TRUE) : i \in Kept(first, second)}
  /\ UNCHANGED <<phase, refused, kept, uncut, cases>>

DraftUnanswerable ==
  /\ phase = "draft" /\ undrafted = {} /\ phase' = "grade"
  /\ \E S \in SUBSET Unanswerable :
       ungraded' = ungraded \cup {Candidate(Source("unanswerable", "en", {n}, "none", FALSE, {}), 0, FALSE) : n \in S}
  /\ UNCHANGED <<undrafted, refused, kept, uncut, cases>>

\* What the answer of the source is made of, then what the grader found; the best and lowest
\* ExpectedMax of them.
Grades(c, graded) ==
  LET own == c.source.two \cup (IF c.source.kind \in {"note", "doc"} THEN c.source.slugs ELSE {})
  IN  [d \in own \cup {e \in DOMAIN graded : graded[e] >= 1} |-> IF d \in own THEN 2 ELSE graded[d]]
ExpectedFor(c, graded) ==
  LET grades == Grades(c, graded)
      Before(x, y) == grades[x] > grades[y] \/ (grades[x] = grades[y] /\ x < y)
  IN  [d \in {e \in DOMAIN grades : Cardinality({f \in DOMAIN grades : Before(f, e)}) < ExpectedMax} |-> grades[d]]

\* A model that answered 429 is not asked again while there is another; the last one's 429
\* ends the job.
Asked(now) ==
  \E m \in Models : refused \subseteq now /\ now \ refused \subseteq {Min(Models)} /\ m \notin now
                    /\ \A n \in Models : n < m => n \in now

Answered(graded) == \E d \in DOMAIN graded : graded[d] >= 1

\* The grades may be unreadable, or be of some of the documents only.
Grade(c) ==
  /\ phase = "grade"
  /\ ungraded' = ungraded \ {c}
  /\ refused' \in SUBSET Models /\ Asked(refused')
  /\ \/ kept' = kept
     \/ \E pool \in {S \in SUBSET Pooled : Cardinality(S) <= PoolDocs} : \E graded \in UNION {[S -> 0..2] : S \in SUBSET pool} :
          kept' = IF c.answerable THEN kept \cup {[c EXCEPT !.expected = ExpectedFor(c, graded)]}
                  ELSE IF Answered(graded) THEN kept
                  ELSE kept \cup {[c EXCEPT !.found = Max(Range(graded) \cup {0})]}
  /\ UNCHANGED <<phase, undrafted, uncut, cases>>

\* The span of days is doubled, where it may be, until it has a document.
Spans(t) == {w \in t.spans : \E age \in Ages[t.kind] : age <= t.days * w}
Temporal ==
  {[Candidate(Source("temporal", t.language, {}, t.kind, FALSE, {}), 0, TRUE) EXCEPT !.days = t.days * Min(Spans(t))] :
     t \in {u \in Templates : Spans(u) # {}}}

-----------------------------------------------------------------------------
(* The set. *)

\* First questions before second ones, and of Dutch notes those about a late part.
Rank(c) == 2 * c.paraphrase + (IF c.source.category = "notes-nl" /\ c.paraphrase = 0 /\ ~c.source.late THEN 1 ELSE 0)

OfCategory(S, category) == {c \in S : c.source.category = category}
Cuts(S, category) ==
  {T \in Picks(OfCategory(S, category), Quota[category]) :
     \A c \in T, d \in OfCategory(S, category) \ T : Rank(c) <= Rank(d)}

Graded ==
  /\ phase = "grade" /\ ungraded = {} /\ phase' = "cut"
  /\ kept' = kept \cup Temporal
  /\ UNCHANGED <<undrafted, ungraded, refused, uncut, cases>>

Valid(c) ==
  /\ c.answerable => DOMAIN c.expected # {} \/ c.days > 0
  /\ ~c.answerable => DOMAIN c.expected = {}
  /\ \A d \in DOMAIN c.expected : c.expected[d] \in {1, 2}

\* One of each category is held out; a case that is not valid ends the job.
HoldOut(T, h) == {[candidate |-> c, split |-> IF c = h THEN "holdout" ELSE "dev"] : c \in T}
Cut(k) ==
  /\ phase = "cut" /\ uncut' = uncut \ {k}
  /\ \E T \in Cuts(kept, k) :
       IF \A c \in T : Valid(c)
       THEN /\ \E cut \in {HoldOut(T, h) : h \in T} \cup (IF T = {} THEN {{}} ELSE {}) : cases' = cases \cup cut
            /\ phase' = IF uncut' = {} THEN "written" ELSE "cut"
       ELSE phase' = "failed" /\ cases' = {}
  /\ UNCHANGED <<undrafted, ungraded, refused, kept>>

\* The budget is spent, or an upstream fails for good.
Fail == phase \in {"draft", "grade"} /\ phase' = "failed" /\ UNCHANGED <<undrafted, ungraded, refused, kept, uncut, cases>>

Next ==
  Select \/ (undrafted # {} /\ Draft(CHOOSE s \in undrafted : TRUE)) \/ DraftUnanswerable
  \/ (ungraded # {} /\ Grade(CHOOSE c \in ungraded : TRUE)) \/ Graded
  \/ (uncut # {} /\ Cut(CHOOSE k \in uncut : TRUE)) \/ Fail

-----------------------------------------------------------------------------
(* Properties. *)

TypeOK == phase \in {"idle", "draft", "grade", "cut", "written", "failed"} /\ refused \subseteq Models /\ (phase \notin {"cut", "written"} => cases = {})

\* The set that is written can be scored: every case is valid, no category is over its
\* quota or short of one that was there, and each has exactly one case held out; a case
\* about a document expects that document, unless as many others have the best grade as fit;
\* and nothing that was found answers a case without an answer.
CandidatesRight ==
  phase = "written" =>
       \A k \in DOMAIN Quota :
         LET chosen == {case \in cases : case.candidate.source.category = k} IN
         /\ Cardinality(chosen) = Min({Quota[k], Cardinality(OfCategory(kept, k))})
         /\ chosen # {} => Cardinality({case \in chosen : case.split = "holdout"}) = 1
         /\ \A case \in chosen :
              LET c == case.candidate IN
              /\ c.source.kind \in {"note", "doc"} =>
                   \/ c.source.slugs \subseteq DOMAIN c.expected
                   \/ Cardinality(DOMAIN c.expected) = ExpectedMax /\ \A d \in DOMAIN c.expected : c.expected[d] = 2
              /\ ~c.answerable => c.found = 0
              /\ c.days > 0 => \E age \in Ages[c.source.kind] : age <= c.days
              /\ c.paraphrase = 1 => \A d \in OfCategory(kept, k) : d.paraphrase = 0 => \E e \in chosen : e.candidate = d
=============================================================================
