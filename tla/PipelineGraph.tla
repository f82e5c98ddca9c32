--------------------------- MODULE PipelineGraph ---------------------------
(***************************************************************************)
(* How the pipeline panel finds the node of every job of a run             *)
(* (src/kubernetes/apps/forgejo/forgejo/app/custom/wg-pipeline.js): it     *)
(* fetches the reusable workflows that the jobs of the workflow call, to   *)
(* know the names of the jobs behind each, and gives every job of the run  *)
(* to one caller by its name alone.                                        *)
(*                                                                         *)
(* Forgejo, which is external, puts the jobs of a called workflow beside   *)
(* their callers, and tells equal names apart by a number: the first has   *)
(* none.  A name is a word and a part in brackets, "" for none.            *)
(***************************************************************************)
EXTENDS Naturals, Sequences, FiniteSets, FiniteSetsExt, SequencesExt

CONSTANTS
  Words,
  MaxDepth,      \* MAX_REUSABLE_DEPTH, 5 in the code
  MaxMissing,    \* bound: workflow files that cannot be read
  None

VARIABLES
  callers,   \* the jobs of the workflow: their label, how many legs, what they use
  files,     \* the two reusable workflows: the jobs of "R", which may use "S", and of "S"
  names,     \* the run Forgejo makes of it: who made each job, its label and its number
  pending,   \* fetches in flight
  seen,      \* what has been asked for, by caller
  items,     \* childItems: label and depth of the jobs behind each caller
  claims,    \* the jobs of the run that each caller has got; None before
  missing

graphVars == <<callers, files, names, pending, seen, items, claims, missing>>

Label(word, part) == [word |-> word, part |-> part]

\* calledJobLabel: a name may be an input, which is the caller's label here.
Given == [word |-> "given", part |-> ""]
CalledJobLabel(label, with) == IF label = Given THEN with ELSE label

Plain == {Label(w, "") : w \in Words}

Jobs == [label : Plain \cup {Given, Label(CHOOSE w \in Words : TRUE, "x")}, uses : {"none", "S"}]
Callers == [label : Plain, legs : 1..2, uses : {"none", "R", "S"}]

(* The run, as Forgejo makes it of the workflow. *)

Calls(jobs) == {i \in DOMAIN jobs : jobs[i].uses # "none"}

\* The labels of the jobs behind a workflow file, for a caller of that label.
LabelsOf(file, with) ==
  LET own(jobs) == [i \in DOMAIN jobs |-> CalledJobLabel(jobs[i].label, with)]
  IN  IF file = "none" THEN << >>
      ELSE own(files[file]) \o FlattenSeq([i \in 1..Cardinality(Calls(files[file])) |-> own(files["S"])])

Legs(c) == [i \in 1..callers[c].legs |-> callers[c].label]

\* The run's jobs, each with the caller that made it.
Made ==
  LET of(c, labels) == [i \in DOMAIN labels |-> [by |-> c, label |-> labels[i]]]
  IN  of(1, Legs(1)) \o of(2, Legs(2))
      \o of(1, LabelsOf(callers[1].uses, callers[1].label)) \o of(2, LabelsOf(callers[2].uses, callers[2].label))

Numbered(made) == [i \in DOMAIN made |->
  [by |-> made[i].by, label |-> made[i].label, dup |-> Cardinality({k \in 1..i-1 : made[k].label = made[i].label})]]

Init ==
  /\ callers \in Callers \X Callers
  /\ \E r \in [1..1 -> Jobs] \cup [1..2 -> Jobs], s \in {j \in Jobs : j.uses = "none" /\ j.label # Given} :
       files = [f \in {"R", "S"} |-> IF f = "R" THEN r ELSE <<s>>]
  /\ \E made \in {Made} : names = Numbered(made)
  /\ pending = {[caller |-> c, at |-> 0, uses |-> callers[c].uses, depth |-> 1] :
                  c \in {i \in DOMAIN callers : callers[i].uses # "none"}}
  /\ seen = [c \in DOMAIN callers |-> {callers[c].uses}]
  /\ items = [c \in DOMAIN callers |-> {}] /\ claims = None /\ missing = 0

-----------------------------------------------------------------------------
(* resolveDescendants. *)

\* Mutant: the jobs of a called workflow's own calls are left out.
DirectOnly(called) == {}

Nested(called) == called

\* A workflow that was seen already, also beside this one, is not followed again.  The
\* place of a job among those of its caller is kept in `at`.
Fetched(p) ==
  LET jobs   == files[p.uses]
      place(i) == IF p.at = 0 THEN 10 * i ELSE p.at + i
      called == {i \in DOMAIN jobs : /\ jobs[i].uses # "none" /\ p.depth < MaxDepth
                                     /\ jobs[i].uses \notin seen[p.caller]
                                     /\ \A k \in 1..i-1 : jobs[k].uses # jobs[i].uses}
  IN  /\ pending' = (pending \ {p}) \cup
           {[caller |-> p.caller, at |-> place(i), uses |-> jobs[i].uses, depth |-> p.depth + 1] : i \in Nested(called)}
      /\ seen' = [seen EXCEPT ![p.caller] = @ \cup {jobs[i].uses : i \in called}]
      /\ items' = [items EXCEPT ![p.caller] = @ \cup
           {[at |-> place(i), label |-> CalledJobLabel(jobs[i].label, callers[p.caller].label), depth |-> p.depth] : i \in DOMAIN jobs}]
      /\ UNCHANGED <<callers, files, names, claims, missing>>

\* None of the candidate addresses has the file.
Unreadable(p) ==
  /\ missing < MaxMissing /\ missing' = missing + 1 /\ pending' = pending \ {p}
  /\ UNCHANGED <<callers, files, names, seen, items, claims>>

-----------------------------------------------------------------------------
(* assignIndices. *)

NameMatches(name, label) ==
  \/ name.label = label /\ name.dup = 0
  \/ name.label.word = label.word /\ label.part = "" /\ name.label.part # ""

DedupSuffixMatches(name, label) == name.label = label /\ name.dup > 0

Free(of) == DOMAIN names \ UNION {of[c] : c \in DOMAIN of}

\* A caller's own jobs.
Primary(of, c) ==
  [of EXCEPT ![c] = @ \cup {i \in Free(of) : NameMatches(names[i], callers[c].label)}]

\* Mutant: all of the equal names go to whoever comes first.
AllOf(indices) == indices

OneOf(indices) == {Min(indices)}

\* The jobs behind it: one of those of that very name, or else one that is numbered;
\* and all whose name goes on.
Child(of, c, item) ==
  LET exact    == {i \in Free(of) : names[i].label = item.label /\ names[i].dup = 0}
      suffixed == {i \in Free(of) : DedupSuffixMatches(names[i], item.label)}
      prefixed == {i \in Free(of) \ exact : NameMatches(names[i], item.label)}
      one      == IF exact # {} THEN OneOf(exact) ELSE IF suffixed # {} THEN OneOf(suffixed) ELSE {}
  IN  [of EXCEPT ![c] = @ \cup one \cup prefixed]

InPlace(its) == [k \in 1..Cardinality(its) |-> CHOOSE x \in its : Cardinality({y \in its : y.at < x.at}) = k - 1]

Children(of, c) ==
  FoldLeft(LAMBDA o, item : Child(o, c, item), of, InPlace(items[c]))

\* Legs of one name.
Copies(of, c) ==
  [of EXCEPT ![c] = @ \cup {i \in Free(of) : DedupSuffixMatches(names[i], callers[c].label)}]

AssignIndices ==
  LET first  == FoldLeft(Primary, [c \in DOMAIN callers |-> {}], <<1, 2>>)
      second == FoldLeft(Children, first, <<1, 2>>)
  IN  FoldLeft(Copies, second, <<1, 2>>)

Assign ==
  /\ pending = {} /\ claims = None
  /\ claims' = AssignIndices
  /\ UNCHANGED <<callers, files, names, pending, seen, items, missing>>

Next == Assign \/ \E p \in pending : Fetched(p) \/ Unreadable(p)

\* Fetches are answered.
FairSpec == Init /\ [][Next]_graphVars /\ WF_graphVars(Assign \/ \E p \in pending : Fetched(p))

-----------------------------------------------------------------------------
(* Properties. *)

TypeOK ==
  /\ seen \in [DOMAIN callers -> SUBSET {"none", "R", "S"}]
  /\ \A p \in pending : p.depth \in 1..MaxDepth
  /\ \A c \in DOMAIN callers : \A item \in items[c] : item.depth \in 1..MaxDepth
  /\ claims # None => \A c \in DOMAIN callers : claims[c] \subseteq DOMAIN names

\* What the names leave open: two jobs of the workflow have one name, a name of one caller
\* goes on where that of another ends, a
\* workflow is called twice behind one caller, or a file could not be read.
Clear ==
  /\ missing = 0 /\ callers[1].label # callers[2].label
  /\ \A c \in DOMAIN callers :
       /\ \A i \in DOMAIN names : names[i].by # c /\ names[i].label.part # ""
            => \A item \in items[c] \cup {[label |-> callers[c].label]} : item.label.word # names[i].label.word
       /\ callers[c].uses = "R" => Cardinality(Calls(files["R"])) <= 1

\* "Identical jobs ... must be shared out one per caller", "a child whose name equals the
\* caller's matches through the dedup suffix", and a leg "joins the job it is a copy of":
\* for every workflow whose names are clear, each node gets as many jobs of each name as
\* its caller made, none is left over and none is in two nodes.
NodesGetTheirs ==
  claims # None /\ Clear =>
    /\ claims[1] \cap claims[2] = {} /\ Free(claims) = {}
    /\ \A c \in DOMAIN callers : \A label \in {names[i].label : i \in DOMAIN names} :
         Cardinality({i \in claims[c] : names[i].label = label})
           = Cardinality({i \in DOMAIN names : names[i].by = c /\ names[i].label = label})
=============================================================================
