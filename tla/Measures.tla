------------------------------ MODULE Measures ------------------------------
(***************************************************************************)
(* The store of the brain evaluation, beside an evaluation job and the     *)
(* merge check under constants and variables of their own, and what these  *)
(* two promise.                                                            *)
(***************************************************************************)
EXTENDS EvalStore

CONSTANTS
  Profiles, Rest, LastCase, Known, Jobs, GradedFiles, MaxTurns, JudgeAttempts, Backoffs, LimitedAttempts,
  LoseOneIn, Cap, JobWindow, RequestsPerWindow, TokensPerWindow, Costs, Tokens, Redacted, MaxJobs, MaxJobTroubles,
  Paths, TestPaths, GatePaths, JudgePaths, ProtectedPaths, Lockfiles, Manifests, Migrations,
  Asserting, Weakening, Softening, Markers, Contents, FirstTree, CommitKinds, Options,
  MaxLines, MaxFiles, MaxCommits, MaxLanded

VARIABLES
  part,      \* the program that moves
  job, window, recent, spent, billed, lost, evalHead, shown, controlOk, stored, jobs, jobTroubles,
  base, ancestor, head, commits, behind, written, landed

jobVars   == <<job, window, recent, spent, billed, lost, evalHead, shown, controlOk, stored, jobs, jobTroubles>>
mergeVars == <<base, ancestor, head, commits, behind, written, landed>>

Eval == INSTANCE EvalRun WITH
  Window <- JobWindow, MaxRuns <- MaxJobs, MaxTroubles <- MaxJobTroubles,
  pod <- job, head <- evalHead, runs <- jobs, troubles <- jobTroubles

Merge == INSTANCE MergeCheck

-----------------------------------------------------------------------------
\* The numbers that the metrics store shows for a mode are those of a job that stored
\* its results and whose judge had passed the control pair, and retrieval profiles are
\* compared over the same cases, ranked at one commit.
ReportsSound == Eval!PublishedIsJudged /\ Eval!ComparedOnOneCommit

\* A job stops with the call that passes its spend cap, and its bill has no more than that
\* call and those that came to nothing beyond.
SpendCapped == Eval!SpendCapped

\* Whatever the merge check lets through keeps the tests, the gates and the files of a
\* ticket, and the result of the merge is what was checked.
GatesHold == part = "merge" => Merge!GatesHold
=============================================================================
