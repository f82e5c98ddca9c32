----------------------------- MODULE MergeCheck -----------------------------
(***************************************************************************)
(* The mechanical half of the Definition of Mergeable                      *)
(* (src/.agents/skills/product-owner/scripts/merge_check.py): a branch is  *)
(* compared with the commit where it left its base, and every criterion    *)
(* becomes a row that passes, warns, blocks, or is left to a person.       *)
(*                                                                         *)
(* The branch grows by commits of agents and people while its base moves;  *)
(* the check may be run at any time, with any of Options.  Git is          *)
(* external: which removed file it takes for the origin of an added one is *)
(* its choice, Renames.  A file is a set of lines and one hunk: order and  *)
(* numbers of lines are left out, and two changes of a file conflict.      *)
(***************************************************************************)
EXTENDS Integers, FiniteSetsExt, Functions

CONSTANTS
  Paths,
  TestPaths, GatePaths, JudgePaths,       \* TEST_PATH_RE, GATE_CONFIG_RE, JUDGE_PATH_RE
  ProtectedPaths,                         \* those of the ticket
  Lockfiles, Manifests, Migrations,
  Asserting, Weakening, Softening, Markers,  \* lines: assertions, WEAKENING of any file and of a judging one
  Contents,                               \* what a file can be
  FirstTree,
  CommitKinds,                            \* what commits are like
  Options,                                \* the arguments of the check
  MaxLines, MaxFiles,                     \* --max-lines, --max-files
  MaxCommits, MaxLanded                   \* bounds

VARIABLES
  base,      \* the target branch: its newest tree
  ancestor,  \* the tree where the branch left it
  head,      \* the branch
  commits,   \* the commits of the branch that the base does not have
  behind,    \* how many commits of the base the branch does not have
  written, landed

mergeVars == <<base, ancestor, head, commits, behind, written, landed>>

Absent == [kind |-> "absent", lines |-> {}]
Trees  == [Paths -> Contents \cup {Absent}]

\* The one line of a link is the path it leads to, which may well read like an assertion.
MergeAssumption ==
  /\ TestPaths \cup GatePaths \cup ProtectedPaths \subseteq Paths
  /\ FirstTree \in Trees /\ MaxCommits \in Nat /\ MaxLanded \in Nat
  /\ \A f \in Contents : IsFiniteSet(f.lines) /\ f.kind \in {"file", "link"}

Init ==
  /\ base = FirstTree /\ ancestor = FirstTree /\ head = FirstTree
  /\ commits = {} /\ behind = 0 /\ written = 0 /\ landed = 0

-----------------------------------------------------------------------------
(* Git. *)

Commits(tree, kind) ==
  /\ written < MaxCommits /\ written' = written + 1
  /\ head' = tree /\ head' # head
  /\ commits' = commits \cup {kind}
  /\ UNCHANGED <<base, ancestor, behind, landed>>

Write == \E p \in Paths, f \in Contents \cup {Absent}, kind \in CommitKinds : Commits([head EXCEPT ![p] = f], kind)

Move ==
  \E p, q \in Paths, f \in Contents, kind \in CommitKinds :
    /\ head[p] # Absent /\ head[q] = Absent
    /\ Commits([head EXCEPT ![p] = Absent, ![q] = f], kind)

\* Somebody else's change lands.
Land ==
  /\ landed < MaxLanded /\ landed' = landed + 1
  /\ \E p \in Paths, f \in Contents \cup {Absent} : base' = [base EXCEPT ![p] = f]
  /\ base' # base /\ behind' = behind + 1
  /\ UNCHANGED <<ancestor, head, commits, written>>

\* merge-tree, file by file: what only one side has changed is taken from it.
Merged == [p \in Paths |-> IF head[p] = ancestor[p] THEN base[p] ELSE head[p]]

Conflict == \E p \in Paths : head[p] # ancestor[p] /\ base[p] # ancestor[p] /\ head[p] # base[p]

\* The base is merged into the branch.
Update ==
  /\ behind > 0 /\ ~Conflict
  /\ head' = Merged /\ ancestor' = base /\ behind' = 0
  /\ commits' = IF commits = {} THEN {} ELSE commits \cup {[agent |-> FALSE, merge |-> TRUE, subject |-> "merge", ticket |-> FALSE]}
  /\ UNCHANGED <<base, written, landed>>

Next == Write \/ Move \/ Land \/ Update

Spec == Init /\ [][Next]_mergeVars

Gone  == {p \in Paths : ancestor[p] # Absent /\ head[p] = Absent}
Added == {p \in Paths : ancestor[p] = Absent /\ head[p] # Absent}

\* Half of the longer file is in the other one.
Similar(f, g) ==
  /\ f.kind = g.kind
  /\ f = g \/ \A x \in {f, g} : 2 * Cardinality(f.lines \cap g.lines) >= Cardinality(x.lines)

\* The renames git may find (-M): no removed and no added file are left that are similar.
Renames ==
  {r \in UNION {[S -> Added] : S \in SUBSET Gone} :
     /\ IsInjective(r)
     /\ \A p \in DOMAIN r : Similar(ancestor[p], head[r[p]])
     /\ \A p \in Gone \ DOMAIN r, q \in Added \ Range(r) : ~Similar(ancestor[p], head[q])}

Change(status, old, path) == [status |-> status, old |-> old, path |-> path, same |-> ancestor[old] = head[path]]

\* changes_between; a file that became a link, or the other way round, has a status of its own.
Changes(r) ==
  {Change("D", p, p) : p \in Gone \ DOMAIN r}
    \cup {Change("A", p, p) : p \in Added \ Range(r)}
    \cup {Change("R", p, r[p]) : p \in DOMAIN r}
    \cup {Change(IF ancestor[p].kind = head[p].kind THEN "M" ELSE "T", p, p) :
            p \in {q \in Paths \ (Gone \cup Added) : ancestor[q] # head[q]}}

\* Mutant: only the new path of a rename is looked at.
TouchedByName(changes) == {c.path : c \in changes}

Touched(changes) == {c.old : c \in changes} \cup {c.path : c \in changes}

\* diff_lines: what goes is read under the old path, what comes under the new one; a change
\* of status "T" is shown as one file that goes and one that comes.
Removed(changes, path) ==
  UNION {ancestor[c.old].lines \ (IF c.status = "T" THEN {} ELSE head[c.path].lines) :
           c \in {d \in changes : d.old = path /\ d.status # "A"}}
Additions(changes, path) ==
  UNION {head[c.path].lines \ (IF c.status \in {"A", "T"} THEN {} ELSE ancestor[c.old].lines) :
           c \in {d \in changes : d.path = path /\ d.status # "D"}}

-----------------------------------------------------------------------------
(* The rows. *)

\* "auto" is an agent as soon as one commit says so.
Author(o) == IF o.author # "auto" THEN o.author ELSE IF \E c \in commits : c.agent THEN "agent" ELSE "human"

Strict(o)   == IF Author(o) = "agent" THEN "FAIL" ELSE "WARN"
TestEdit(o) == IF o.allowTestEdits THEN "WARN" ELSE Strict(o)

\* PASS, unless something was found.
Unless(found, status) == IF found THEN status ELSE "PASS"

ChangeRow(changes) == Unless(commits = {} \/ changes = {}, "FAIL")

CurrentRow(o) == Unless(behind > 0, IF o.requireUpToDate THEN "FAIL" ELSE "WARN")
MergesRow(o)  == IF o.oldGit THEN "MANUAL" ELSE Unless(Conflict, "FAIL")

\* A test that is gone, or renamed out of test discovery.
DeletedTests(changes) ==
  {c \in changes : c.old \in TestPaths /\ (c.status = "D" \/ (c.status = "R" /\ c.path \notin TestPaths))}

EditedTests(changes) ==
  {c \in changes : /\ c.old \in TestPaths /\ c.path \in TestPaths
                   /\ c.status = "M" \/ (c.status = "R" /\ ~c.same)}

GateConfig(changes) == Touched(changes) \cap GatePaths

Judging == TestPaths \cup GatePaths \cup JudgePaths

Weakened(changes) ==
  \E p \in Paths : Additions(changes, p) \cap (IF p \in Judging THEN Weakening \cup Softening ELSE Weakening) # {}

\* Net assertions lost, path by path.
Thinned(changes) ==
  {p \in TestPaths : Cardinality(Removed(changes, p) \cap Asserting) > Cardinality(Additions(changes, p) \cap Asserting)}

Marked(changes) == \E p \in Paths : Additions(changes, p) \cap Markers # {}

ProtectedRow(o, changes) ==
  IF ~o.protected THEN "MANUAL" ELSE Unless(Touched(changes) \cap ProtectedPaths # {}, "FAIL")

\* Lockfiles count for nothing.
SizeRow(changes) ==
  LET reviewed == {c \in changes : c.path \notin Lockfiles}
      Lines(c) == Cardinality(Removed({c}, c.old)) + Cardinality(Additions({c}, c.path))
  IN  Unless(\/ MapThenSumSet(Lines, reviewed) > MaxLines \/ Cardinality(reviewed) > MaxFiles, "WARN")

DependencyRow(changes) == Unless(\E c \in changes : c.path \in Manifests \cup Lockfiles, "WARN")
SchemaRow(changes)     == Unless(\E c \in changes : c.path \in Migrations, "WARN")

Own == {c \in commits : ~c.merge}

FixupRow(o) == Unless(o.style # "squash" /\ \E c \in Own : c.subject = "fixup", "FAIL")

\* What becomes the subject on the base: the title with a squash, each commit's otherwise.
SubjectRow(o) ==
  CASE ~o.conventional                            -> "PASS"
    [] o.style = "squash" /\ o.title = "none"     -> "MANUAL"
    [] o.style = "squash" /\ o.title # "none"     -> Unless(o.title # "conventional", "FAIL")
    [] OTHER -> Unless(\E c \in Own : c.subject # "conventional", "FAIL")

TicketRow(o) ==
  IF ~o.trailer THEN "MANUAL" ELSE Unless(~o.bodyTicket /\ \A c \in Own : ~c.ticket, "FAIL")

DescriptionRow(o) == IF o.body = "none" THEN "MANUAL" ELSE Unless(o.body = "thin", Strict(o))

Rows(o, r) ==
  LET changes == Changes(r) IN
  [change |-> ChangeRow(changes), current |-> CurrentRow(o), merges |-> MergesRow(o),
   deleted |-> Unless(DeletedTests(changes) # {}, TestEdit(o)), edited |-> Unless(EditedTests(changes) # {}, TestEdit(o)),
   config |-> Unless(GateConfig(changes) # {}, Strict(o)), weakened |-> Unless(Weakened(changes), Strict(o)),
   thinned |-> Unless(Thinned(changes) # {}, TestEdit(o)), markers |-> Unless(Marked(changes), "FAIL"),
   protected |-> ProtectedRow(o, changes), size |-> SizeRow(changes), dependencies |-> DependencyRow(changes),
   schema |-> SchemaRow(changes), fixups |-> FixupRow(o), subject |-> SubjectRow(o), ticket |-> TicketRow(o),
   description |-> DescriptionRow(o), forge |-> "MANUAL"]

\* The check's answer: no row blocks.
Mergeable(o, r) == "FAIL" \notin Range(Rows(o, r))

-----------------------------------------------------------------------------
(* Properties. *)

TypeOK ==
  /\ base \in Trees /\ ancestor \in Trees /\ head \in Trees
  /\ behind \in 0..MaxLanded /\ written \in 0..MaxCommits /\ landed \in 0..MaxLanded

\* An agent's branch that may land, by an author who may not edit tests, takes no test
\* from the base: each is in what lands at a test path with the lines it had, unless the
\* base has changed it.  A file that becomes a link is in none of the lists, so of such a
\* test the rows keep no more than the number of lines that look like assertions.
TestsKept(o) ==
  \A p \in TestPaths : base[p] = ancestor[p] /\ base[p] # Absent =>
     \/ \E q \in TestPaths : Merged[q] = base[p]
     \/ /\ Merged[p].kind # base[p].kind /\ Merged[p] # Absent
        /\ Cardinality(base[p].lines \cap Asserting) <= Cardinality(Merged[p].lines \cap Asserting)

\* Nor does it change what judges it, or bring a line that silences a check and that no
\* file had.
JudgesKept ==
  /\ \A p \in GatePaths : Merged[p] = base[p]
  /\ \A p \in Paths : head[p].lines \cap Weakening \subseteq UNION {ancestor[q].lines : q \in Paths}

\* What the check says of a branch is true of what lands, whatever git takes for a rename
\* and whoever else has landed since: no test, gate or protected file is lost or changed,
\* conflicts and fixups stay out, and with the strictest option the head is the result.
GatesHold ==
  \A r \in Renames, o \in Options :
    Mergeable(o, r) =>
      /\ Author(o) = "agent" /\ ~o.allowTestEdits /\ ~o.oldGit => TestsKept(o)
      /\ Author(o) = "agent" /\ ~o.oldGit => JudgesKept
      /\ o.protected /\ ~o.oldGit => \A p \in ProtectedPaths : Merged[p] = base[p]
      /\ o.requireUpToDate => Merged = head
      /\ \A p \in Paths : Merged[p].lines \cap Markers \subseteq ancestor[p].lines \cup base[p].lines \cup
                             UNION {ancestor[q].lines : q \in Paths}
      /\ o.style # "squash" => \A c \in commits : c.subject # "fixup" \/ c.merge

\* What the merge gate says: no existing test is deleted.
NoTestDeleted ==
  \A r \in Renames, o \in Options :
    Mergeable(o, r) /\ Author(o) = "agent" /\ ~o.allowTestEdits /\ ~o.oldGit =>
      \A p \in TestPaths : base[p] = ancestor[p] /\ base[p] # Absent => \E q \in TestPaths : Merged[q] = base[p]
=============================================================================
