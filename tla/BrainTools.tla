----------------------------- MODULE BrainTools -----------------------------
(***************************************************************************)
(* The brain tools server (src/kubernetes/apps/ai/brain-tools/app/server): *)
(* concurrent searches and reads of the brain graph, each with a deadline, *)
(* that share two caches of the documents that bots wrote, and a verdict   *)
(* on the schema that a timer renews.                                      *)
(*                                                                         *)
(* The graph is a sequence of commits.  A query reads the commit that its  *)
(* request pins, or the newest one when the server answers it.  What a     *)
(* query returns is its ranking of all passages, kept to the commit's.     *)
(* Texts, wording and sizes of answers are left out.                       *)
(***************************************************************************)
EXTENDS Naturals, Sequences, FiniteSets, FiniteSetsExt, SequencesExt

CONSTANTS
  Requests,
  Questions,                 \* what a request may ask: profile or "read", the commit it pins (or
                             \* 0), whether it has terms, wants a rerank, reads a note
  SchemaOk,                  \* the schema of the graph matches the embedding contract
  LastCommit, There, Bots,   \* the passages and the bots' documents of a commit
  DocOf, TextOf, DateOf, Short,
  Legs, Meaning, Recall, Ranked, Weight,   \* Recall: the legs of p0, in their order
  Relevance,                 \* the reranker's scores
  MaxChunks, Candidates, Limit, PinnedEntries,
  MaxTroubles                \* bound: upstreams that answer with an error

VARIABLES
  head,        \* the newest commit
  contractOk,  \* the server's verdict
  headBots,    \* the cache of the newest bot index: its commit, 0 when there is none
  loads,       \* refreshes of it under way: the commit they have read
  pinned,      \* the cache of pinned indexes: [commit, by], oldest first
  requests, troubles

toolVars == <<head, contractOk, headBots, loads, pinned, requests, troubles>>

\* A request asks something that can be asked, and is not the timer.
ToolsAssumption ==
  /\ LastCommit \in Nat \ {0} /\ PinnedEntries \in Nat /\ MaxTroubles \in Nat
  /\ SchemaOk \in BOOLEAN /\ "timer" \notin Requests
  /\ \A r \in Requests : Questions[r] \subseteq
       [profile : {"p0", "p1", "read"}, pin : 0..LastCommit, terms : BOOLEAN, rerank : BOOLEAN, note : BOOLEAN]

Commits  == 1..LastCommit
AllLegs  == Legs \cup ToSet(Recall) \cup {"card", "window", "whole"}
Outcomes == {"none", "ok", "timeout", "failed", "not_found"}

None == [profile |-> "none", pin |-> 0, terms |-> FALSE, rerank |-> FALSE, note |-> FALSE]

NoRequest ==
  [phase |-> "idle", question |-> None, vector |-> FALSE,
   left |-> {}, rows |-> [l \in AllLegs |-> 0], refused |-> {}, down |-> {},
   load |-> "none",      \* the pinned index this request loads: none, loading, loaded, failed
   waits |-> {},         \* the request whose load it waits for
   index |-> 0,          \* the commit of its bot index, 0 for none
   late |-> FALSE, reranked |-> FALSE, outcome |-> "none"]

Init ==
  /\ head = 1 /\ contractOk = FALSE
  /\ headBots = 0 /\ loads = [l \in Requests \cup {"timer"} |-> 0] /\ pinned = <<>>
  /\ requests = [r \in Requests |-> NoRequest] /\ troubles = 0

-----------------------------------------------------------------------------
(* The ranking of search.ts. *)

Rows(leg, commit) == IF commit = 0 THEN <<>> ELSE SelectSeq(Ranked[leg], LAMBDA p : p \in There[commit])

\* What the legs found that were read at these commits (0: not asked, or refused).
Found(rows) == UNION {ToSet(Rows(l, rows[l])) : l \in Legs}

\* RRF_K is 60; scaled to whole numbers for legs of three rows.
Share(rank) == (61 * 62 * 63) \div (60 + rank)

\* fuse: reciprocal ranks, weighted by leg
Fused(rows, p) ==
  LET share(l) == LET seq == Rows(l, rows[l])
                  IN  IF p \in ToSet(seq)
                      THEN Weight[l] * Share(CHOOSE i \in DOMAIN seq : seq[i] = p) ELSE 0
  IN  MapThenSumSet(share, Legs)

\* BOT_WEIGHT is 0.3
Score(rows, index, p) ==
  Fused(rows, p) * (IF index # 0 /\ DocOf[p] \in Bots[index] THEN 3 ELSE 10)

\* Short chunks are dropped unless nothing else is left.
Pool(rows) == IF Found(rows) \subseteq Short THEN Found(rows) ELSE Found(rows) \ Short

Clones(rows, p) == {q \in Pool(rows) : TextOf[q] = TextOf[p]}

\* byScore: higher scores first, equals by key
Above(score, p, q) == score[p] > score[q] \/ (score[p] = score[q] /\ p < q)

Best(S, score) == CHOOSE p \in S : \A q \in S \ {p} : Above(score, p, q)

\* Of the copies of a text the newest is shown, the best of those when dates are equal.
Shown(rows, score, p) ==
  LET clones == Clones(rows, p)
  IN  Best({q \in clones : \A o \in clones : DateOf[q] >= DateOf[o]}, score)

\* collapse: a text once, with the score of its best copy, and at most MaxChunks passages
\* of a document
Collapsed(rows, index) ==
  LET score  == [p \in Pool(rows) |-> Score(rows, index, p)]
      shown  == {Shown(rows, score, p) : p \in Pool(rows)}
      groups == LET group == [p \in shown |-> score[Best(Clones(rows, p), score)]]
                IN  SetToSortSeq(shown, LAMBDA p, q : Above(group, p, q))
      spent(i) == Cardinality({j \in 1..(i - 1) : DocOf[groups[j]] = DocOf[groups[i]]})
      kept   == SelectSeq([i \in DOMAIN groups |-> i], LAMBDA i : spent(i) < MaxChunks)
  IN  [k \in DOMAIN kept |-> groups[kept[k]]]

\* interleave: one of each list in turn (p0)
Interleaved(rows) ==
  LET lists == [k \in DOMAIN Recall |-> Rows(Recall[k], rows[Recall[k]])]
      row(i) == SelectSeq([k \in DOMAIN Recall |-> IF i <= Len(lists[k]) THEN lists[k][i] ELSE 0],
                          LAMBDA p : p # 0)
  IN  FlattenSeq([i \in 1..3 |-> row(i)])

Cut(seq, n) == SubSeq(seq, 1, IF n < Len(seq) THEN n ELSE Len(seq))

\* byRelevance: the head by relevance, equals in their order, the rest as it was
Reordered(seq) ==
  LET n == Len(Cut(seq, Candidates))
      higher(i, j) == \/ Relevance[seq[i]] > Relevance[seq[j]]
                      \/ Relevance[seq[i]] = Relevance[seq[j]] /\ i < j
      place(i) == 1 + Cardinality({j \in 1..n : higher(j, i)})
  IN  [k \in DOMAIN seq |-> IF k > n THEN seq[k] ELSE seq[CHOOSE i \in 1..n : place(i) = k]]

Sources(rec) ==
  IF rec.question.profile = "p0" THEN Interleaved(rec.rows)
  ELSE Collapsed(rec.rows, rec.index)

-----------------------------------------------------------------------------
(* Requests. *)

Update(r, new) == requests' = [requests EXCEPT ![r] = new]
\* A failed request keeps what others wait for.
Ended(rec, outcome) ==
  IF outcome = "ok" THEN [rec EXCEPT !.phase = "done", !.outcome = "ok"]
  ELSE [NoRequest EXCEPT !.phase = "done", !.outcome = outcome, !.question = rec.question,
                         !.load = rec.load]
ServerUnchanged == UNCHANGED <<head, contractOk>>
CachesUnchanged == UNCHANGED <<headBots, loads, pinned>>
Trouble == troubles < MaxTroubles /\ troubles' = troubles + 1

\* The legs of a p1 search: meaning legs need the vector, keyword legs need terms.
Planned(rec) == {l \in Legs : IF l \in Meaning THEN rec.vector ELSE rec.question.terms}

WithLegs(rec) ==
  LET profile == rec.question.profile
  IN  [rec EXCEPT !.phase = "legs",
                  !.left = CASE profile = "p0"   -> ToSet(Recall)
                             [] profile = "p1"   -> Planned(rec)
                             [] profile = "read" -> {"card", "window"}]

\* BrainService.search and read, up to the first call.
Ask(r) ==
  /\ requests[r].phase = "idle"
  /\ \E q \in {asked \in Questions[r] : asked.pin <= head} :
       LET rec == [NoRequest EXCEPT !.question = q]
       IN  Update(r, IF q.profile = "p1" /\ contractOk THEN [rec EXCEPT !.phase = "embed"]
                     ELSE WithLegs(rec))
  /\ ServerUnchanged /\ CachesUnchanged /\ UNCHANGED troubles

\* fetch gives no answer under a signal that has fired.
InTime(r) == ~requests[r].late

Embedded(r) ==
  /\ requests[r].phase = "embed" /\ InTime(r)
  /\ Update(r, WithLegs([requests[r] EXCEPT !.vector = TRUE]))
  /\ ServerUnchanged /\ CachesUnchanged /\ UNCHANGED troubles

\* Without a vector the search goes on by keywords.
EmbedFails(r) ==
  /\ requests[r].phase = "embed" /\ InTime(r) /\ Trouble
  /\ Update(r, WithLegs(requests[r]))
  /\ ServerUnchanged /\ CachesUnchanged

\* Mutant: the commit that a request pins is not sent.
ReadHead(rec) == head

\* Omnigraph.stored: the commit that is pinned, or the newest one.
Read(rec) == IF rec.question.pin = 0 THEN head ELSE rec.question.pin

ReadLeg(r) ==
  /\ requests[r].phase = "legs" /\ InTime(r)
  /\ \E l \in requests[r].left :
       Update(r, [requests[r] EXCEPT !.left = @ \ {l}, !.rows[l] = Read(requests[r])])
  /\ ServerUnchanged /\ CachesUnchanged /\ UNCHANGED troubles

\* exchange: a refusal (client_error, not_found) or no answer to speak of.  Only p1 goes on
\* with its other legs: runP0 and readRef await all of theirs at once.
LegFails(r) ==
  /\ requests[r].phase = "legs" /\ InTime(r) /\ Trouble
  /\ \E l \in requests[r].left :
       IF requests[r].question.profile # "p1" THEN Update(r, Ended(requests[r], "failed"))
       ELSE \/ Update(r, [requests[r] EXCEPT !.left = @ \ {l}, !.refused = @ \cup {l}])
            \/ Update(r, [requests[r] EXCEPT !.left = @ \ {l}, !.down = @ \cup {l}])
  /\ ServerUnchanged /\ CachesUnchanged

Sees(rec, leg) == Rows(leg, rec.rows[leg]) # <<>>

\* readRef: without the card there is nothing, and a note that has no passages is read whole.
Opened(rec) ==
  CASE rec.rows["whole"] # 0 -> Ended(rec, IF Sees(rec, "whole") THEN "ok" ELSE "not_found")
    [] ~Sees(rec, "card")    -> Ended(rec, "not_found")
    [] rec.question.note /\ ~Sees(rec, "window") -> [rec EXCEPT !.left = {"whole"}]
    [] OTHER                 -> Ended(rec, "ok")

\* Every leg is answered: one that is down fails a p1 search, those that are refused only
\* when no other is left.
Settle(r) ==
  LET rec == requests[r]
      fulfilled == {l \in Legs : rec.rows[l] # 0}
  IN  /\ rec.phase = "legs" /\ rec.left = {}
      /\ Update(r, CASE rec.question.profile = "read" -> Opened(rec)
                     [] rec.question.profile = "p0"   -> [rec EXCEPT !.phase = "rank"]
                     [] OTHER -> IF rec.down # {} \/ (rec.refused # {} /\ fulfilled = {})
                                 THEN Ended(rec, "failed")
                                 ELSE [rec EXCEPT !.phase = "bots"])
      /\ ServerUnchanged /\ CachesUnchanged /\ UNCHANGED troubles

-----------------------------------------------------------------------------
(* The bot index: Caches.bots. *)

HasHead(r) ==
  /\ requests[r].phase = "bots" /\ requests[r].question.pin = 0 /\ headBots # 0
  /\ Update(r, [requests[r] EXCEPT !.index = headBots, !.phase = "rank"])
  /\ ServerUnchanged /\ CachesUnchanged /\ UNCHANGED troubles

\* Nothing cached yet: the search refreshes the cache itself, with a deadline of its own.
ColdRefresh(r) ==
  /\ requests[r].phase = "bots" /\ requests[r].question.pin = 0 /\ headBots = 0
  /\ loads' = [loads EXCEPT ![r] = head]
  /\ Update(r, [requests[r] EXCEPT !.phase = "cold"])
  /\ ServerUnchanged /\ UNCHANGED <<headBots, pinned, troubles>>

EntryOf(commit) == {e \in ToSet(pinned) : e.commit = commit}

\* Mutant: the cache of pinned indexes grows with every commit that is pinned.
EvictedNone(entries) == entries

Evicted(entries) == IF Len(entries) > PinnedEntries THEN Tail(entries) ELSE entries

\* A pinned index is loaded once, under the signal of the request that asked first.
PinnedIndex(r) ==
  /\ requests[r].phase = "bots" /\ requests[r].question.pin # 0
  /\ IF EntryOf(requests[r].question.pin) # {}
     THEN /\ Update(r, [requests[r] EXCEPT !.phase = "wait",
                                           !.waits = {e.by : e \in EntryOf(requests[r].question.pin)}])
          /\ UNCHANGED pinned
     ELSE LET longer == Append(pinned, [commit |-> requests[r].question.pin, by |-> r])
          IN  /\ pinned' = Evicted(longer)
              /\ Update(r, [requests[r] EXCEPT !.phase = "wait", !.waits = {r}, !.load = "loading"])
  /\ ServerUnchanged /\ UNCHANGED <<headBots, loads, troubles>>

PinnedLoaded(r) ==
  /\ requests[r].load = "loading" /\ InTime(r)
  /\ Update(r, [requests[r] EXCEPT !.load = "loaded"])
  /\ ServerUnchanged /\ CachesUnchanged /\ UNCHANGED troubles

\* Mutant: the signal of the request is not handed on to its load.
AbortedNever(r) == FALSE

\* The load fails with the deadline of the request that started it ...
Aborted(r) == requests[r].late

\* ... and the entry of its commit is dropped, whosever it is by now.
Dropped(commit) ==
  IF EntryOf(commit) = {} THEN pinned
  ELSE RemoveAt(pinned, CHOOSE i \in DOMAIN pinned : pinned[i].commit = commit)

DropEntry(r) ==
  /\ Update(r, [requests[r] EXCEPT !.load = "failed"])
  /\ pinned' = Dropped(requests[r].question.pin)
  /\ ServerUnchanged /\ UNCHANGED <<headBots, loads>>

PinnedAborted(r) == requests[r].load = "loading" /\ Aborted(r) /\ DropEntry(r) /\ UNCHANGED troubles
PinnedFails(r)   == requests[r].load = "loading" /\ InTime(r) /\ Trouble /\ DropEntry(r)

\* Whoever waited goes on with the index, or without one unless its own time is up.
PinnedKnown(r) ==
  LET rec == requests[r]
      by  == CHOOSE b \in rec.waits : TRUE
  IN  /\ rec.phase = "wait" /\ requests[by].load \in {"loaded", "failed"}
      /\ Update(r, IF requests[by].load = "loaded"
                   THEN [rec EXCEPT !.phase = "rank", !.index = requests[by].question.pin]
                   ELSE IF rec.late THEN Ended(rec, "timeout")
                   ELSE [rec EXCEPT !.phase = "rank"])
      /\ ServerUnchanged /\ CachesUnchanged /\ UNCHANGED troubles

\* The answer to a refresh of the newest index, the timer's or a search's.
Refreshed(l) ==
  /\ loads[l] # 0
  /\ headBots' = loads[l] /\ loads' = [loads EXCEPT ![l] = 0]
  /\ IF l = "timer" THEN UNCHANGED requests
     ELSE Update(l, [requests[l] EXCEPT !.phase = "rank", !.index = loads[l]])
  /\ ServerUnchanged /\ UNCHANGED <<pinned, troubles>>

\* It fails, or is cut off after four deadlines.
RefreshFails(l) ==
  /\ loads[l] # 0 /\ loads' = [loads EXCEPT ![l] = 0]
  /\ IF l = "timer" THEN UNCHANGED requests
     ELSE Update(l, IF requests[l].late THEN Ended(requests[l], "timeout")
                    ELSE [requests[l] EXCEPT !.phase = "rank"])
  /\ ServerUnchanged /\ UNCHANGED <<headBots, pinned, troubles>>

-----------------------------------------------------------------------------
(* The answer. *)

\* search: the sources in the order of the rerank or of the fusion, cut to the limit.
Answer(rec) == Cut(IF rec.reranked THEN Reordered(Sources(rec)) ELSE Sources(rec), Limit)

\* Without a rerank the ranking is the answer; one source needs no reranker.
Rank(r) ==
  LET rec == requests[r]
  IN  /\ rec.phase = "rank"
      /\ Update(r, IF ~rec.question.rerank THEN Ended(rec, "ok")
                   ELSE IF Len(Sources(rec)) < 2 THEN Ended([rec EXCEPT !.reranked = TRUE], "ok")
                   ELSE [rec EXCEPT !.phase = "rerank"])
      /\ ServerUnchanged /\ CachesUnchanged /\ UNCHANGED troubles

Rerank(r) ==
  /\ requests[r].phase = "rerank" /\ InTime(r)
  /\ Update(r, Ended([requests[r] EXCEPT !.reranked = TRUE], "ok"))
  /\ ServerUnchanged /\ CachesUnchanged /\ UNCHANGED troubles

\* An error, a malformed answer or the reranker's own timeout keeps the fused order.
RerankFallsBack(r) ==
  /\ requests[r].phase = "rerank" /\ InTime(r)
  /\ Update(r, Ended(requests[r], "ok"))
  /\ ServerUnchanged /\ CachesUnchanged /\ UNCHANGED troubles

\* A request awaits an answer; between two answers nothing interrupts it.
Awaiting(r) ==
  LET rec == requests[r]
  IN  \/ rec.phase \in {"embed", "cold", "rerank"}
      \/ rec.phase = "legs" /\ rec.left # {}
      \/ rec.phase = "wait" /\ \A b \in rec.waits : requests[b].load = "loading"

\* The calls that the signal of a request ends.
Cuts == {"embed", "legs", "rerank"}

\* AbortSignal.timeout(deadlineMs)
Deadline(r) ==
  /\ Awaiting(r) /\ ~requests[r].late
  /\ Update(r, IF requests[r].phase \in Cuts THEN Ended(requests[r], "timeout")
               ELSE [requests[r] EXCEPT !.late = TRUE])
  /\ ServerUnchanged /\ CachesUnchanged /\ UNCHANGED troubles

\* A call that is begun under a signal that has fired ends at once.
CutOff(r) ==
  /\ requests[r].late /\ requests[r].phase \in Cuts
  /\ Update(r, Ended(requests[r], "timeout"))
  /\ ServerUnchanged /\ CachesUnchanged /\ UNCHANGED troubles

-----------------------------------------------------------------------------
(* The timers of main.ts, and the graph. *)

\* checkCatalog: the schema is read, or the last verdict stays.
CheckContract ==
  /\ contractOk' = SchemaOk
  /\ UNCHANGED <<head, headBots, loads, pinned, requests, troubles>>

\* (a refresh that would bring the index there is is left out)
RefreshHead ==
  /\ loads["timer"] = 0 /\ headBots # head /\ loads' = [loads EXCEPT !["timer"] = head]
  /\ UNCHANGED <<head, contractOk, headBots, pinned, requests, troubles>>

Commit ==
  /\ head < LastCommit /\ head' = head + 1
  /\ UNCHANGED <<contractOk, headBots, loads, pinned, requests, troubles>>

LocalStep(r) == Settle(r) \/ HasHead(r) \/ ColdRefresh(r) \/ PinnedIndex(r) \/ PinnedKnown(r)
                \/ PinnedAborted(r) \/ Rank(r) \/ CutOff(r)
AnswerOf(r)  == Embedded(r) \/ ReadLeg(r) \/ PinnedLoaded(r) \/ Rerank(r)

Next ==
  \/ \E r \in Requests :
       \/ Ask(r) \/ LocalStep(r) \/ AnswerOf(r) \/ Deadline(r)
       \/ EmbedFails(r) \/ LegFails(r) \/ PinnedFails(r) \/ RerankFallsBack(r)
  \/ \E l \in Requests \cup {"timer"} : Refreshed(l) \/ RefreshFails(l)
  \/ CheckContract \/ RefreshHead \/ Commit

Spec == Init /\ [][Next]_toolVars

\* What happens although no upstream ever answers.
GoesOn == \E r \in Requests : LocalStep(r) \/ Deadline(r) \/ RefreshFails(r)

-----------------------------------------------------------------------------
(* Properties. *)

Phases == {"idle", "embed", "legs", "bots", "cold", "wait", "rank", "rerank", "done"}

\* Every variable holds values of its kind.
TypeOK ==
  /\ head \in Commits /\ contractOk \in BOOLEAN
  /\ headBots \in 0..LastCommit /\ loads \in [Requests \cup {"timer"} -> 0..LastCommit]
  /\ Len(pinned) <= PinnedEntries
  /\ \A i \in DOMAIN pinned : pinned[i] \in [commit : Commits, by : Requests]
  /\ \A r \in Requests :
       /\ requests[r].phase \in Phases /\ requests[r].outcome \in Outcomes
       /\ requests[r].question.pin \in 0..LastCommit /\ requests[r].index \in 0..LastCommit
       /\ requests[r].left \subseteq AllLegs /\ requests[r].rows \in [AllLegs -> 0..LastCommit]
  /\ troubles \in 0..MaxTroubles

Done(r) == requests[r].phase = "done" /\ requests[r].outcome = "ok"

\* What the answers to two searches say of themselves is the same.
SameReport(q, r) ==
  LET a == requests[q]
      b == requests[r]
  IN  /\ Done(q) /\ Done(r) /\ a.question.profile # "read" /\ a.question.pin = b.question.pin /\ a.question.pin # 0
      /\ a.question.profile = b.question.profile /\ a.question.terms = b.question.terms
      /\ a.vector = b.vector /\ a.refused = b.refused /\ a.reranked = b.reranked

\* Two searches of one commit that report the same give the same answer, whatever was
\* committed and cached in between, if both have got their bot index.
PinnedAlike ==
  \A q, r \in Requests :
    SameReport(q, r) /\ (requests[q].index = 0 <=> requests[r].index = 0)
      => Answer(requests[q]) = Answer(requests[r])

\* ... also when one has not: its answer does not say so.
PinnedReproducible ==
  \A q, r \in Requests : SameReport(q, r) => Answer(requests[q]) = Answer(requests[r])

\* The answer of a p1 search shows every text once, in its newest copy that was found,
\* at most MaxChunks passages of a document, and nothing only when nothing was found.
AnswerShape ==
  \A r \in Requests : Done(r) /\ requests[r].question.profile = "p1" =>
    \A a \in {Answer(requests[r])} :
        /\ \A i, j \in DOMAIN a : TextOf[a[i]] = TextOf[a[j]] => i = j
        /\ \A i \in DOMAIN a, p \in Found(requests[r].rows) \ Short :
             TextOf[p] = TextOf[a[i]] => DateOf[p] <= DateOf[a[i]]
        /\ \A i \in DOMAIN a : Cardinality({j \in DOMAIN a : DocOf[a[j]] = DocOf[a[i]]}) <= MaxChunks
        /\ a = <<>> <=> Found(requests[r].rows) = {}

\* A request that ran into its deadline ends as a timeout, unless a bot index came after
\* all: one that another request's signal bounds, or the refresh of a cold cache.
LateIsTimeout ==
  \A r \in Requests :
    Done(r) /\ requests[r].late =>
      /\ requests[r].index # 0 /\ r \notin requests[r].waits
      /\ ~requests[r].question.rerank \/ Len(Sources(requests[r])) < 2

\* Every request comes to an end although no upstream ever answers: while one is under
\* way, something happens of itself (and no request goes back to an earlier phase).
NobodyStuck ==
  (\E r \in Requests : requests[r].phase \notin {"idle", "done"}) => ENABLED GoesOn
=============================================================================
