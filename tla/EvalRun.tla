------------------------------- MODULE EvalRun -------------------------------
(***************************************************************************)
(* One job of the brain evaluation                                         *)
(* (src/kubernetes/apps/ai/omnigraph/brain-eval/app/brain_eval.py): the    *)
(* retrieval of every case at one commit of the graph, the control pair    *)
(* of the judge, the answers and their verdicts, and the two ways in which *)
(* numbers reach the metrics store: with the results, or as "invalid".     *)
(*                                                                         *)
(* Model and tool calls go through a pacer and a spend cap; they fail, are *)
(* throttled and are repeated.  EvalStore has the containers before and    *)
(* after; here they are one step, Publish, in which the pod may die.       *)
(* Graph, models, tools and metrics store are external.                    *)
(***************************************************************************)
EXTENDS Naturals, Sequences, FiniteSets, SequencesExt

CONSTANTS
  Profiles,        \* the retrieval profiles of a run, in order
  Rest,            \* those that brain-tools serves
  LastCase,        \* the cases are 1..LastCase
  Known,           \* commit -> the cases whose expected documents it has
  Jobs,            \* answers of a run: the cases of its arm, so often repeated
  GradedFiles,     \* answers that people have graded
  MaxTurns, JudgeAttempts, Backoffs, LimitedAttempts,
  LoseOneIn,       \* one in so many verdicts may be unreadable
  Cap,             \* the spend cap
  Window, RequestsPerWindow, TokensPerWindow,
  Costs, Tokens,   \* what a call can cost and use
  Redacted,        \* LiteLLM keeps no arguments of tool calls
  MaxRuns, MaxTroubles   \* bounds: jobs, and things that go wrong

VARIABLES
  pod,        \* where the job is and what it holds
  window,     \* the pacer's calls: how long ago, and their tokens
  recent,     \* the calls of the last Window, whoever keeps them
  spent,      \* what the job has counted
  billed,     \* what the calls have cost
  lost,       \* the cost of calls whose answer never came
  head,       \* the newest commit of the graph
  shown,      \* what the metrics store says of each mode
  controlOk,  \* and of the judge
  stored,     \* the modes whose last job has its results in the store
  runs, troubles

runVars == <<pod, window, recent, spent, billed, lost, head, shown, controlOk, stored, runs, troubles>>

EvalAssumption ==
  /\ Profiles \in Seq(Range(Profiles)) /\ Profiles # <<>> /\ IsInjective(Profiles)
  /\ LastCase \in Nat \ {0} /\ Known \in Seq(SUBSET Nat) /\ Known # <<>>
  /\ Jobs \in Nat \ {0} /\ LoseOneIn \in Nat /\ GradedFiles \in Nat
  /\ MaxTurns \in Nat /\ JudgeAttempts \in Nat \ {0} /\ LimitedAttempts \in Nat \ {0}
  /\ Cap \in Nat /\ Costs \subseteq Nat /\ \E c \in Costs : \A d \in Costs : d <= c

Modes == {"retrieval", "answer", "gate", "calibration"}
Hows  == {"full", "control_only", "synthetic"}
Cases == 1..LastCase
Reads == Len(Profiles) * LastCase

Models == {"control", "answer", "judge", "grade"}     \* the job awaits a model
Bridge == {"tools", "tool"}                           \* or the MCP bridge

NoFacts == [control |-> <<>>, unreadable |-> 0, answers |-> 0, read |-> {}, snap |-> 0,
            spent |-> 0, stored |-> FALSE]
NoPod == [mode |-> "retrieval", how |-> "full", at |-> "idle", control |-> <<>>, rpc |-> 0,
          job |-> 0, turns |-> 0, attempt |-> 1, unreadable |-> 0, snap |-> 0, read |-> {},
          graded |-> 0, limited |-> 0, backoffs |-> 0]

Init ==
  /\ pod = NoPod /\ window = <<>> /\ recent = <<>>
  /\ spent = 0 /\ billed = 0 /\ lost = 0 /\ head = 1
  /\ shown = [m \in Modes |-> [valid |-> "none", of |-> NoFacts]]
  /\ controlOk = "none" /\ stored = {} /\ runs = 0 /\ troubles = 0

Trouble == troubles < MaxTroubles /\ troubles' = troubles + 1

Money == <<spent, billed, lost>>
Pace  == <<window, recent>>
Seen  == <<shown, controlOk, stored>>

-----------------------------------------------------------------------------
(* The pacer. *)

Aged(calls, d) == [i \in 1..Len(calls) |-> [calls[i] EXCEPT !.ago = @ + d]]

\* Calls older than the window are dropped.
InWindow(calls) == SelectSeq(calls, LAMBDA c : c.ago < Window)

TokensOf(calls) == FoldSeq(LAMBDA c, sum : c.tokens + sum, 0, calls)

\* Mutant: one call more than a window holds.
OverBudgetByOne(calls) == TokensOf(calls) > TokensPerWindow \/ Len(calls) > RequestsPerWindow

OverBudget(calls) == TokensOf(calls) >= TokensPerWindow \/ Len(calls) >= RequestsPerWindow

TimePasses(d) ==
  /\ window' = InWindow(Aged(window, d))
  /\ recent' = SelectSeq(Aged(recent, d), LAMBDA c : c.ago < Window)

\* A call that has ended after d counts from then on.
Recorded(d, tokens) ==
  /\ window' = Append(InWindow(Aged(window, d)), [ago |-> 0, tokens |-> tokens])
  /\ recent' = Append(SelectSeq(Aged(recent, d), LAMBDA c : c.ago < Window), [ago |-> 0, tokens |-> tokens])

\* Mutant: until the newest call is as old as the oldest.
WaitTooShort == window[1].ago - window[Len(window)].ago

\* wait_for_room: until the oldest call has left the window, and again.
WaitTime == Window - window[1].ago

WaitForRoom ==
  /\ pod.at \in Models \cup Bridge /\ OverBudget(window)
  /\ TimePasses(WaitTime)
  /\ UNCHANGED <<pod, Money, head, Seen, runs, troubles>>

-----------------------------------------------------------------------------
(* The end of a job. *)

\* invalid_run: the metric is pushed at once, and a push that fails is only logged.
\* The mode is that of the command that failed.
Invalid(mode) ==
  /\ pod' = NoPod
  /\ shown' \in {shown, [shown EXCEPT ![mode].valid = IF pod.how = "synthetic" THEN @ ELSE "no"]}

\* Mutant: the limit is looked at before the call's cost is added.
WithinBefore(total) == spent <= Cap

Within(total) == total <= Cap

\* The answer of a model: its cost is counted after the call is recorded.
Paid(next) ==
  \E cost \in Costs, tokens \in Tokens, d \in {0, 1} :
    /\ Recorded(d, tokens)
    /\ spent' = spent + cost /\ billed' = billed + cost
    /\ IF Within(spent + cost)
       THEN next
       ELSE Invalid(pod.mode) /\ UNCHANGED controlOk
    /\ UNCHANGED <<lost, head, stored, runs, troubles>>

Goes(to) == pod' = [pod EXCEPT !.at = to, !.limited = 0, !.backoffs = 0]

Room == ~OverBudget(window)

\* A 429 that says how long, while the attempts last.
Throttled ==
  /\ pod.at \in Models \cup Bridge /\ Room /\ Trouble
  /\ pod.limited < LimitedAttempts - 1
  /\ pod' = [pod EXCEPT !.limited = @ + 1]
  /\ \E d \in 1..Window : TimePasses(d)
  /\ UNCHANGED <<Money, head, Seen, runs>>

\* A timeout or a failing gateway: what the call cost, if anything, nobody hears.
Lost(cost) == lost' = lost + cost /\ billed' = billed + cost /\ UNCHANGED spent

BacksOff ==
  /\ pod.at \in Models /\ Room /\ Trouble
  /\ pod.backoffs < Backoffs
  /\ pod' = [pod EXCEPT !.backoffs = @ + 1]
  /\ \E cost \in Costs \cup {0} : Lost(cost)
  /\ TimePasses(1)
  /\ UNCHANGED <<head, Seen, runs>>

\* Any other refusal, or the last of a row: a tool call has failed and the answer goes
\* on; everything else ends the job.
Refused ==
  /\ pod.at \in Models \cup Bridge /\ Room /\ Trouble
  /\ \/ pod.at = "tool" /\ Goes("answer") /\ UNCHANGED <<Seen, Money>>
     \/ pod.at # "tool" /\ Invalid(pod.mode) /\ UNCHANGED <<controlOk, stored>>
        /\ IF pod.at \in Models THEN \E cost \in Costs \cup {0} : Lost(cost) ELSE UNCHANGED Money
  /\ UNCHANGED <<Pace, head, runs>>

-----------------------------------------------------------------------------
(* run_retrieval. *)

First(mode) ==
  CASE mode \in {"retrieval", "gate"} -> "pin"
    [] mode = "answer"                -> "control"
    [] OTHER                          -> IF GradedFiles > 0 THEN "grade" ELSE "write"

Start ==
  /\ pod.at = "idle" /\ runs < MaxRuns /\ runs' = runs + 1
  /\ \E mode \in Modes, how \in Hows :
       /\ how = "control_only" => mode = "answer"
       /\ pod' = [NoPod EXCEPT !.mode = mode, !.how = how, !.at = First(mode)]
       /\ stored' = stored \ {mode}
  /\ spent' = 0 /\ billed' = 0 /\ lost' = 0 /\ window' = <<>> /\ recent' = <<>>
  /\ UNCHANGED <<head, shown, controlOk, troubles>>

\* One commit for every read of the run.
Pin ==
  /\ pod.at = "pin"
  /\ pod' = [pod EXCEPT !.at = "read", !.snap = head]
  /\ UNCHANGED <<Pace, Money, head, Seen, runs, troubles>>

\* The commits a ranking can come from: a stored query reads the pinned one, brain-tools
\* may answer from another.
CommitOf(profile) == IF profile \in Rest THEN {pod.snap, head} ELSE {pod.snap}

\* A gate may have no arm, and then asks no model.
AfterReads(read) ==
  IF Cardinality(read) < Reads THEN {"read"} ELSE IF pod.mode = "gate" THEN {"control", "write"} ELSE {"write"}

\* The cases of one profile after another; brain-tools names the commit it answers from,
\* and another one than the pinned is an error.
Read ==
  /\ pod.at = "read"
  /\ LET k == Cardinality(pod.read)
         profile == Profiles[(k \div LastCase) + 1]
     IN  \E commit \in CommitOf(profile) :
           IF profile \in Rest /\ commit # pod.snap
           THEN Invalid(pod.mode)
           ELSE LET read == pod.read \cup {[profile |-> profile, case |-> (k % LastCase) + 1, commit |-> commit]}
                IN  /\ \E at \in AfterReads(read) : pod' = [pod EXCEPT !.read = read, !.at = at, !.backoffs = 0]
                    /\ UNCHANGED shown
  /\ UNCHANGED <<Pace, Money, head, controlOk, stored, runs, troubles>>

\* A stored query is asked again twice; brain-tools is not.
ReadFails ==
  /\ pod.at = "read" /\ Trouble
  /\ LET profile == Profiles[(Cardinality(pod.read) \div LastCase) + 1]
     IN  \/ /\ profile \notin Rest /\ pod.backoffs < 2
            /\ pod' = [pod EXCEPT !.backoffs = @ + 1] /\ UNCHANGED shown
         \/ Invalid(pod.mode)
  /\ UNCHANGED <<Pace, Money, head, controlOk, stored, runs>>

\* The cases that are scored: their documents are in the pinned commit.
Scored(facts, profile) ==
  {c \in Cases : /\ c \in Known[facts.snap]
                 /\ \E r \in facts.read : r.profile = profile /\ r.case = c}

-----------------------------------------------------------------------------
(* The control pair. *)

Verdicts == {"high", "low", "unreadable"}

\* Mutant: a verdict that cannot be read counts as zero for both.
ScoreZero(label, verdict) == IF verdict = "high" THEN 10 ELSE 0

\* In tenths: an unreadable verdict counts against the judge.
Score(label, verdict) ==
  CASE verdict = "high" -> 10 [] verdict = "low" -> 0 [] OTHER -> IF label = "supported" THEN 0 ELSE 10

Passes(control) == Score("supported", control[1]) >= 8 /\ Score("unsupported", control[2]) <= 2

\* The supported answer, then the planted one, each asked once.
JudgeControl ==
  /\ pod.at = "control" /\ Room
  /\ \E verdict \in Verdicts :
       LET control == Append(pod.control, verdict)
           next == [pod EXCEPT !.control = control, !.limited = 0, !.backoffs = 0]
       IN  Paid(CASE Len(control) = 1 -> pod' = next /\ UNCHANGED <<shown, controlOk>>
                  [] ~Passes(control) -> Invalid(pod.mode) /\ controlOk' = IF pod.how = "synthetic" THEN controlOk ELSE "no"
                  [] pod.how = "control_only" -> pod' = NoPod /\ controlOk' = "yes" /\ UNCHANGED shown
                  [] pod.how = "full" /\ ~Redacted -> Invalid(pod.mode) /\ UNCHANGED controlOk
                  [] OTHER -> pod' = [next EXCEPT !.at = "tools"] /\ UNCHANGED <<shown, controlOk>>)

-----------------------------------------------------------------------------
(* run_answers. *)

\* initialize, its notification, and tools/list.
ListTools ==
  /\ pod.at = "tools" /\ Room
  /\ pod' = IF pod.rpc < 2 THEN [pod EXCEPT !.rpc = @ + 1, !.limited = 0]
            ELSE [pod EXCEPT !.at = "answer", !.job = 1, !.limited = 0]
  /\ \E d \in {0, 1} : Recorded(d, 0)
  /\ UNCHANGED <<Money, head, Seen, runs, troubles>>

\* The model asks for a tool, and after MaxTurns is not asked to; or it answers.
Answer ==
  /\ pod.at = "answer" /\ Room
  /\ \E asks \in BOOLEAN :
       Paid(/\ pod' = [pod EXCEPT !.limited = 0, !.backoffs = 0,
                         !.at = IF asks /\ pod.turns < MaxTurns THEN "tool" ELSE "judge",
                         !.turns = IF asks /\ @ < MaxTurns THEN @ + 1 ELSE @]
            /\ UNCHANGED <<shown, controlOk>>)

CallTool ==
  /\ pod.at = "tool" /\ Room
  /\ Goes("answer")
  /\ \E d \in {0, 1} : Recorded(d, 0)
  /\ UNCHANGED <<Money, head, Seen, runs, troubles>>

TooManyUnreadable(unreadable) == unreadable * LoseOneIn > Jobs

AfterAnswers ==
  IF pod.mode = "answer" /\ pod.how = "full" /\ GradedFiles > 0 THEN "grade" ELSE "write"

\* The next answer; after the last one the run says whether it has lost too many.
NextJob(unreadable) ==
  IF pod.job < Jobs
  THEN /\ pod' = [pod EXCEPT !.at = "answer", !.job = @ + 1, !.turns = 0, !.attempt = 1,
                             !.unreadable = unreadable, !.limited = 0, !.backoffs = 0]
       /\ UNCHANGED shown
  ELSE IF TooManyUnreadable(unreadable) THEN Invalid(pod.mode)
  ELSE /\ pod' = [pod EXCEPT !.at = AfterAnswers, !.unreadable = unreadable, !.attempt = 1,
                             !.limited = 0, !.backoffs = 0]
       /\ UNCHANGED shown

\* judge_with_retry: an unreadable verdict is asked for once more.
Judge ==
  /\ pod.at = "judge" /\ Room
  /\ \E readable \in BOOLEAN :
       Paid(/\ IF readable THEN NextJob(pod.unreadable)
               ELSE IF pod.attempt < JudgeAttempts
               THEN pod' = [pod EXCEPT !.attempt = @ + 1, !.limited = 0, !.backoffs = 0] /\ UNCHANGED shown
               ELSE NextJob(pod.unreadable + 1)
            /\ UNCHANGED controlOk)

\* calibration_agreement: the judge grades what people have; what it cannot is left out.
Grade ==
  /\ pod.at = "grade" /\ Room
  /\ \E readable \in BOOLEAN :
       Paid(/\ pod' = IF ~readable /\ pod.attempt < JudgeAttempts
                      THEN [pod EXCEPT !.attempt = @ + 1, !.limited = 0, !.backoffs = 0]
                      ELSE [pod EXCEPT !.graded = @ + 1, !.attempt = 1, !.limited = 0, !.backoffs = 0,
                                       !.at = IF pod.graded + 1 < GradedFiles THEN "grade" ELSE "write"]
            /\ UNCHANGED <<shown, controlOk>>)

-----------------------------------------------------------------------------
(* Results, store and metrics. *)

\* Results, metrics.prom and the commit message; a synthetic run writes nothing.
Write ==
  /\ pod.at = "write"
  /\ pod' = IF pod.how = "synthetic" THEN NoPod ELSE [pod EXCEPT !.at = "publish"]
  /\ UNCHANGED <<Pace, Money, head, Seen, runs, troubles>>

\* The containers up to publish.sh.
Publish ==
  /\ pod.at = "publish"
  /\ pod' = [pod EXCEPT !.at = "report"] /\ stored' = stored \cup {pod.mode}
  /\ UNCHANGED <<Pace, Money, head, shown, controlOk, runs, troubles>>

Facts == [control |-> pod.control, unreadable |-> pod.unreadable, answers |-> pod.job, read |-> pod.read,
          snap |-> pod.snap, spent |-> spent, stored |-> pod.mode \in stored]

\* push-metrics pushes what finish wrote.  It is a command of its own, none of MODES: its
\* failure is reported as an invalid run of "retrieval".
Report ==
  /\ pod.at = "report"
  /\ \/ /\ pod' = NoPod
        /\ shown' = [shown EXCEPT ![pod.mode] = [valid |-> "yes", of |-> Facts]]
        /\ controlOk' = IF pod.control # <<>> THEN "yes" ELSE controlOk
        /\ UNCHANGED troubles
     \/ Trouble /\ Invalid("retrieval") /\ UNCHANGED controlOk
  /\ UNCHANGED <<Pace, Money, head, stored, runs>>

\* The pod dies or passes its deadline.
PodDies ==
  /\ pod.at # "idle" /\ Trouble /\ pod' = NoPod
  /\ UNCHANGED <<Pace, Money, head, Seen, runs>>

\* The importers write the graph.
HeadMoves ==
  /\ head < Len(Known) /\ pod.at # "idle"
  /\ head' = head + 1
  /\ UNCHANGED <<pod, Pace, Money, Seen, runs, troubles>>

Next ==
  \/ Start \/ Pin \/ Read \/ ReadFails \/ WaitForRoom \/ Throttled \/ BacksOff \/ Refused
  \/ JudgeControl \/ ListTools \/ Answer \/ CallTool \/ Judge \/ Grade
  \/ Write \/ Publish \/ Report \/ PodDies \/ HeadMoves

\* What the pod does by itself: everything but its troubles and the graph's other users.
PodStep ==
  \/ Pin \/ Read \/ WaitForRoom \/ JudgeControl \/ ListTools \/ Answer \/ CallTool \/ Judge
  \/ Grade \/ Write \/ Publish \/ Report

Spec == Init /\ [][Next]_runVars

FairSpec == Spec /\ WF_runVars(PodStep)

-----------------------------------------------------------------------------
(* Properties. *)

Most(costs) == CHOOSE c \in costs : \A d \in costs : d <= c

TypeOK ==
  /\ pod.at \in {"idle", "pin", "read", "write", "publish", "report"} \cup Models \cup Bridge
  /\ pod.mode \in Modes /\ pod.how \in Hows
  /\ pod.turns \in 0..MaxTurns /\ pod.attempt \in 1..JudgeAttempts /\ pod.job \in 0..Jobs
  /\ pod.limited \in 0..LimitedAttempts /\ pod.backoffs \in Nat /\ pod.rpc \in 0..2
  /\ stored \subseteq Modes /\ controlOk \in {"none", "no", "yes"}
  /\ \A m \in Modes : shown[m].valid \in {"none", "no", "yes"}

\* The numbers of a mode are those of a job that stored its results, whose judge told
\* the supported answer of the control pair from the planted one in verdicts that could
\* be read, that lost no more verdicts than it may and judged every answer, if it asked for any.
PublishedIsJudged ==
  \A m \in Modes :
    LET of == shown[m].of
    IN  shown[m].valid = "yes" =>
          /\ of.stored /\ of.spent <= Cap
          /\ m = "answer" \/ of.answers > 0 =>
               /\ of.control = <<"high", "low">>
               /\ of.answers = Jobs /\ of.unreadable * LoseOneIn <= Jobs

\* Profiles are compared over the same cases, each ranked at the commit that has its
\* documents, although the graph moves on meanwhile.
ComparedOnOneCommit ==
  \A m \in {"retrieval", "gate"} :
    LET of == shown[m].of
    IN  shown[m].valid = "yes" =>
          /\ \A p \in Range(Profiles) : Scored(of, p) = Known[of.snap] \cap Cases
          /\ \A r \in of.read : r.commit = of.snap

\* A job stops with the call that passes its cap.  Calls that came to nothing, which
\* nobody counts, are all that its bill can have beyond.
SpendCapped ==
  /\ spent <= Cap + Most(Costs) /\ billed = spent + lost
  /\ spent > Cap => pod.at = "idle"

\* Every job ends, however often it has to wait for room.
JobsEnd == <>[](pod.at = "idle")

\* In no stretch of a window's length do more calls end than it has room for, nor calls
\* once its tokens are used.
PaceKept ==
  /\ Len(recent) <= RequestsPerWindow
  /\ recent # <<>> => TokensOf(Front(recent)) < TokensPerWindow

\* A mode that is shown as invalid has had a last job that stored nothing.
\* (prometheusrule.yaml:86; does not hold: see Report.)
InvalidStoredNothing ==
  pod.at = "idle" => \A m \in stored : shown[m].valid # "no"
=============================================================================
