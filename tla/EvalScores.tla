----------------------------- MODULE EvalScores -----------------------------
(***************************************************************************)
(* The arithmetic of the brain evaluation                                  *)
(* (src/kubernetes/apps/ai/omnigraph/brain-eval/app/brain_eval.py): when   *)
(* two slugs are one document, the retrieval scores, the quantiles, the    *)
(* decision rule of a gate, and the search for private text in this        *)
(* repository.  Scores are pairs of integers, a numerator and a            *)
(* denominator, where the code has floats; the discounts of nDCG are       *)
(* rounded to thousandths.                                                 *)
(*                                                                         *)
(* A "state" is one input: there is none at first, and then any.           *)
(***************************************************************************)
EXTENDS Integers, Sequences, FiniteSets, SequencesExt, FiniteSetsExt

CONSTANTS
  Shadows,               \* slugs obsidian-file/...
  NoteToArtifact,        \* note slug -> artifact slug, where the graph has the edge
  TwinOf,                \* shadow -> the slug obsidian/... of the same name
  Rankings, Expectations,  \* what is scored: sequences of slugs; slug -> grade
  Discount,              \* position -> 1000 / log2(position + 1)
  Scores,                \* case -> the scores it may have, in hundredths, NoScore among them
  NoScore,
  CategoryOf,            \* case -> category
  MinDelta, MinNetWins, MaxCategoryLosses,
  SourceFiles, Cases,          \* files of this repository, and eval cases
  PrivateSlug,           \* slugs that carry a title or a name
  ShingleWords, MinPhraseWords

VARIABLE input

-----------------------------------------------------------------------------
(* Equivalence: a note and its artifact are one document. *)

ArtifactToNote(slug) == CHOOSE n \in DOMAIN NoteToArtifact : NoteToArtifact[n] = slug
HasNote(slug) == \E n \in DOMAIN NoteToArtifact : NoteToArtifact[n] = slug

\* A shadow stands for its note; a note of another artifact for that artifact.
Canonical(slug) ==
  IF slug \in Shadows THEN IF HasNote(slug) THEN ArtifactToNote(slug) ELSE TwinOf[slug]
  ELSE IF slug \in DOMAIN NoteToArtifact /\ NoteToArtifact[slug] \notin Shadows
  THEN NoteToArtifact[slug] ELSE slug

\* Mutant: a document counts as often as it is found.
CanonicalRankingAll(ranking) == [i \in DOMAIN ranking |-> Canonical(ranking[i])]

\* Every document at its best place.
CanonicalRanking(ranking) ==
  FoldLeft(LAMBDA ranked, slug : IF Canonical(slug) \in Range(ranked) THEN ranked
                                 ELSE Append(ranked, Canonical(slug)),
           <<>>, ranking)

\* The best grade of each document.
CanonicalExpectation(expected) ==
  [doc \in {Canonical(s) : s \in DOMAIN expected} |->
     Max({expected[s] : s \in {t \in DOMAIN expected : Canonical(t) = doc}})]

-----------------------------------------------------------------------------
(* Scores. *)

Top(ranked, k) == SubSeq(ranked, 1, IF k < Len(ranked) THEN k ELSE Len(ranked))

RecallAt(ranked, relevant, k) == <<Cardinality(Range(Top(ranked, k)) \cap relevant), Cardinality(relevant)>>

HitAt1(ranked, relevant) == IF ranked # <<>> /\ ranked[1] \in relevant THEN <<1, 1>> ELSE <<0, 1>>

MrrAt(ranked, relevant, k) ==
  LET found == {i \in 1..Len(Top(ranked, k)) : ranked[i] \in relevant}
  IN  IF found = {} THEN <<0, 1>> ELSE <<1, Min(found)>>

Gain(grade) == 2 ^ grade - 1

Dcg(gains) == FoldLeftDomain(LAMBDA sum, i : sum + gains[i] * Discount[i], 0, gains)

\* The grades, best first.
Ideal(grades, k) ==
  Top(SortSeq(SetToSeq(DOMAIN grades), LAMBDA d, e : grades[d] > grades[e]), k)

NdcgAt(ranked, grades, k) ==
  LET gains(docs) == [i \in DOMAIN docs |-> IF docs[i] \in DOMAIN grades THEN Gain(grades[docs[i]]) ELSE 0]
  IN  <<Dcg(gains(Top(ranked, k))), Dcg(gains(Ideal(grades, k)))>>

Relevant(grades) == {d \in DOMAIN grades : grades[d] >= 1}

RetrievalScores(ranked, grades) ==
  [recall |-> [k \in {1, 2, 3} |-> RecallAt(ranked, Relevant(grades), k)],
   hit    |-> HitAt1(ranked, Relevant(grades)),
   mrr    |-> MrrAt(ranked, Relevant(grades), 3),
   ndcg   |-> [k \in {1, 3} |-> NdcgAt(ranked, grades, k)]]

-----------------------------------------------------------------------------
(* The decision rule. *)

\* The cases both sides have scored.
Shared(baseline, candidate) ==
  {c \in DOMAIN baseline \cap DOMAIN candidate : baseline[c] # NoScore /\ candidate[c] # NoScore}

Total(f, S) == FoldSet(LAMBDA c, sum : f[c] + sum, 0, S)

Worst(losses, category) == Cardinality({c \in losses : CategoryOf[c] = category}) > MaxCategoryLosses

Decide(baseline, candidate, guardrails) ==
  LET cases  == Shared(baseline, candidate)
      delta  == [c \in cases |-> candidate[c] - baseline[c]]
      wins   == {c \in cases : delta[c] > 0}
      losses == {c \in cases : delta[c] < 0}
  IN  /\ Total(delta, cases) >= MinDelta * Cardinality(cases)
      /\ cases = {} => 0 >= MinDelta
      /\ Cardinality(wins) - Cardinality(losses) >= MinNetWins
      /\ ~\E category \in Range(CategoryOf) : Worst(losses, category)
      /\ guardrails

-----------------------------------------------------------------------------
(* public_repo_leaks.  A text has words in a row, and slugs; a case has phrases, the     *)
(* question and the key facts, and slugs; it may be public, or come from this repository. *)

\* Every run of ShingleWords words, or the whole of a shorter phrase.
Shingles(text) ==
  IF Len(text) >= ShingleWords
  THEN {SubSeq(text, i, i + ShingleWords - 1) : i \in 1..(Len(text) - ShingleWords + 1)}
  ELSE IF Len(text) >= MinPhraseWords THEN {text} ELSE {}

PrivatePhrases(case) ==
  IF case.public THEN {} ELSE {case.question} \cup (IF case.fromHere THEN {} ELSE case.facts)

\* The notes among the expected slugs, and their shadows.
PrivateSlugs(case) ==
  IF case.public THEN {} ELSE (case.slugs \cap PrivateSlug)
                              \cup {s \in Shadows : TwinOf[s] \in case.slugs \cap PrivateSlug}

Owned(case) == UNION {Shingles(p) : p \in PrivatePhrases(case)}

\* The lengths the shingles of all cases come in.
Lengths(cases) == {Len(s) : s \in UNION {Owned(c) : c \in cases}}

\* The file's runs of those lengths are looked up among the shingles, its slugs among
\* the slugs.
Leaked(cases, file) ==
  LET runs == {SubSeq(file.words, i, i + n - 1) : <<i, n>> \in
                 {x \in (1..Len(file.words)) \X Lengths(cases) : x[1] + x[2] - 1 <= Len(file.words)}}
  IN  {c \in cases : Owned(c) \cap runs # {} \/ PrivateSlugs(c) \cap file.slugs # {}}

-----------------------------------------------------------------------------
(* The inputs. *)

SideScores == {s \in [DOMAIN Scores -> UNION Range(Scores)] : \A c \in DOMAIN Scores : s[c] \in Scores[c]}

Inputs ==
  [kind : {"ranking"}, ranking : Rankings, expected : Expectations]
    \cup [kind : {"decision"}, baseline : SideScores, candidate : SideScores]
    \cup [kind : {"leak"}, file : SourceFiles, cases : SUBSET Cases]

NoInput == [kind |-> "none"]

Init == input = NoInput

Score == input = NoInput /\ input' \in Inputs

Next == Score

-----------------------------------------------------------------------------
(* Properties. *)

AtMostOne(score) == 0 <= score[1] /\ score[1] <= score[2]

\* Scores lie between 0 and 1 whatever slugs a document is found and expected under, more
\* places find no less, and nDCG is whole exactly for a ranking whose grades are the best
\* ones in their order.
ScoresSound ==
  input.kind = "ranking" =>
    LET ranked == CanonicalRanking(input.ranking)
        grades == CanonicalExpectation(input.expected)
        score  == RetrievalScores(ranked, grades)
        grade(doc) == IF doc \in DOMAIN grades THEN grades[doc] ELSE 0
        best == \A i \in 1..Min({3, Cardinality(DOMAIN grades)}) :
                   i <= Len(ranked) /\ \A d \in DOMAIN grades \ Range(Top(ranked, i)) : grade(d) <= grade(ranked[i])
        ordered == \A i \in 1..(Len(Top(ranked, 3)) - 1) : grade(ranked[i]) >= grade(ranked[i + 1])
    IN  /\ \A s \in Range(score.recall) \cup Range(score.ndcg) \cup {score.hit, score.mrr} : AtMostOne(s)
        /\ score.recall[1][1] <= score.recall[2][1] /\ score.recall[2][1] <= score.recall[3][1]
        /\ score.hit[1] = 1 <=> score.mrr = <<1, 1>>
        /\ score.ndcg[3][1] = score.ndcg[3][2] <=> best /\ ordered

\* What a gate adopts is better, and stays adopted when any of its scores is better
\* still; no case that only one side has scored has a say; and the two sides are never
\* adopted each in place of the other.
AdoptedIsBetter ==
  input.kind = "decision" =>
    LET b == input.baseline
        c == input.candidate
        shared == {k \in DOMAIN b : b[k] # NoScore /\ c[k] # NoScore}
        on(f) == [k \in shared |-> f[k]]
    IN  Decide(b, c, TRUE) =>
          /\ Total(c, shared) > Total(b, shared)
          /\ ~Decide(c, b, TRUE) /\ ~Decide(b, c, FALSE)
          /\ Decide(on(b), on(c), TRUE)
          /\ \A better \in SideScores :
               (\A k \in DOMAIN b : IF c[k] = NoScore THEN better[k] = NoScore ELSE better[k] >= c[k])
                 => Decide(b, better, TRUE)

\* A case is reported exactly when ShingleWords words in a row of one of its private
\* phrases, or the whole of a shorter one, or one of its private notes by either slug,
\* is in the file, whatever other cases are searched for.
LeaksFound ==
  input.kind = "leak" =>
    \A c \in input.cases :
      c \in Leaked(input.cases, input.file) <=>
        /\ ~c.public
        /\ \/ \E p \in {c.question} \cup (IF c.fromHere THEN {} ELSE c.facts) :
                \E n \in {Min({Len(p), ShingleWords})} :
                  /\ n >= MinPhraseWords
                  /\ \E i \in 0..(Len(p) - n), j \in 0..(Len(input.file.words) - n) :
                       \A w \in 1..n : p[i + w] = input.file.words[j + w]
           \/ \E s \in input.file.slugs : s \in PrivateSlug /\ (s \in c.slugs \/ (s \in Shadows /\ TwinOf[s] \in c.slugs))
=============================================================================
