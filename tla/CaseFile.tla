------------------------------ MODULE CaseFile ------------------------------
(***************************************************************************)
(* The files of the brain evaluation's cases (brain_eval.py, dump_case and *)
(* load_case): the candidates job writes them, people edit them in         *)
(* Forgejo, and every job reads them with a reader of its own, which knows *)
(* a part of YAML and is to refuse the rest.                               *)
(*                                                                         *)
(* A file is a sequence of lines; a line has an indentation, a dash or     *)
(* none, a key or none, a scalar and maybe a comment after it.  A text is  *)
(* a sequence of characters, of which only line breaks, spaces, "#" and    *)
(* what makes a number matter.  The edits mean the same in YAML; they are  *)
(* some of those that do.  Left out are other headers of a block than the  *)
(* reader knows (|+, |2), a text over several lines without one, lists in  *)
(* lists, several spaces after a dash, anchors and tags.                   *)
(***************************************************************************)
EXTENDS Integers, SequencesExt, FiniteSetsExt

CONSTANTS
  Cases,     \* what is written
  KeyOrder,  \* CASE_KEY_ORDER
  ListKeys,  \* the keys that must hold a list
  NoKey,
  MaxFileEdits

VARIABLES file, meaning, fileEdits

fileVars == <<file, meaning, fileEdits>>

Text(t)   == [type |-> "text", of |-> t]
Null      == [type |-> "null", of |-> << >>]
NumberOf(t) == [type |-> "number", of |-> t]
ListOf(s) == [type |-> "list", of |-> s]
MapOf(s)  == [type |-> "map", of |-> s]  \* pairs, in their order
Refused   == [type |-> "refused", of |-> << >>]

Raw(style, of) == [style |-> style, of |-> of]
NoRaw          == Raw("none", << >>)

Line(indent, dash, key, raw) ==
  [kind |-> "text", indent |-> indent, dash |-> dash, key |-> key, raw |-> raw, note |-> FALSE]
Blank           == [Line(0, FALSE, NoKey, NoRaw) EXCEPT !.kind = "blank"]
Comment(indent) == [Line(indent, FALSE, NoKey, NoRaw) EXCEPT !.kind = "comment"]

-----------------------------------------------------------------------------
(* Writing. *)

\* Texts are quoted, whatever they look like.
YamlScalar(v) == IF v.type = "text" THEN Raw("double", v.of) ELSE Raw("plain", v.of)

FieldLines(dash, pairs) ==
  [n \in DOMAIN pairs |-> Line(IF dash /\ n > 1 THEN 4 ELSE 2, dash /\ n = 1, pairs[n].key, YamlScalar(pairs[n].value))]

ItemLines(v) == IF v.type = "map" THEN FieldLines(TRUE, v.of) ELSE <<Line(2, TRUE, NoKey, YamlScalar(v))>>

KeyLines(k, v) ==
  CASE v.type \in {"list", "map"} /\ v.of = << >> -> <<Line(0, FALSE, k, Raw("flow", << >>))>>
    [] v.type = "list" /\ v.of # << >> -> <<Line(0, FALSE, k, NoRaw)>> \o FlattenSeq([n \in DOMAIN v.of |-> ItemLines(v.of[n])])
    [] v.type = "map" /\ v.of # << >>  -> <<Line(0, FALSE, k, NoRaw)>> \o FieldLines(FALSE, v.of)
    [] OTHER -> <<Line(0, FALSE, k, YamlScalar(v))>>

\* dump_case
Dump(case) ==
  FlattenSeq([n \in DOMAIN KeyOrder |-> IF KeyOrder[n] \in DOMAIN case THEN KeyLines(KeyOrder[n], case[KeyOrder[n]]) ELSE << >>])

-----------------------------------------------------------------------------
(* Reading. *)

Digits == {"7"}

\* A plain text is what it looks like, up to a comment after a space.
Cuts(t) == {i \in 1..(Len(t) - 1) : t[i] = "sp" /\ t[i + 1] = "#"}
Plain(t) ==
  LET shown == IF Cuts(t) = {} THEN t ELSE SubSeq(t, 1, Min(Cuts(t)) - 1)
  IN  IF shown = << >> \/ shown[1] = "#" THEN Null
      ELSE IF ToSet(shown) \subseteq Digits THEN NumberOf(shown) ELSE Text(shown)

\* parse_scalar; what looks like a comment cuts a list in brackets, in quotes too: a text is left.
Bracketed(items) ==
  IF \E n \in DOMAIN items : Cuts(items[n].of) # {} THEN Text(<<"[">>)
  ELSE ListOf([n \in DOMAIN items |-> IF items[n].style = "plain" THEN Plain(items[n].of) ELSE Text(items[n].of)])
ParseScalar(raw) ==
  CASE raw.style = "none" -> Null
    [] raw.style = "plain" -> Plain(raw.of)
    [] raw.style = "flow" -> Bracketed(raw.of)
    [] OTHER -> Text(raw.of)

Indented(f, i, block) ==
  {j \in (i + 1)..Len(f) : \A k \in (i + 1)..j : f[k].indent > 0 \/ f[k].kind = "blank" \/ (~block /\ f[k].kind = "comment")}
Meaningful(f, S) == {j \in S : f[j].kind = "text"}

\* Mutant: a line is read without its indentation, however deep.
Flush(n) == << >>

Spaces(n) == [k \in 1..n |-> "sp"]

\* read_block_scalar, of the styles that drop the last line break: blank lines at the end go too.
\* A line is refused that is indented less than the first; more is kept as spaces.
Joined(style, lines) ==
  FlattenSeq([n \in DOMAIN lines |->
    IF n = 1 THEN lines[1]
    ELSE IF style = "folded" /\ lines[n] # << >> /\ lines[n - 1] # << >> THEN <<"sp">> \o lines[n]
    ELSE IF style = "folded" /\ lines[n] # << >> THEN lines[n]
    ELSE <<"nl">> \o lines[n]])
ReadBlockScalar(f, i) ==
  LET body  == Indented(f, i, TRUE)
      full  == {j \in body : f[j].kind # "blank"}
      first == f[Min(full)].indent
      shown == {j \in body : j <= Max(full)}
      lines == [n \in 1..Cardinality(shown) |->
                  IF f[i + n].kind = "blank" THEN << >> ELSE Spaces(f[i + n].indent - first) \o f[i + n].raw.of]
  IN  IF full = {} THEN Text(<< >>)
      ELSE IF \E j \in full : f[j].indent < first THEN Refused
      ELSE Text(Joined(f[i].raw.style, lines))

Pairs(f, S) ==
  [n \in 1..Cardinality(S) |->
     LET l == f[SetToSortSeq(S, <)[n]] IN [key |-> l.key, value |-> ParseScalar(l.raw)]]

\* read_nested
ReadNested(f, i) ==
  LET inner == Meaningful(f, Indented(f, i, FALSE))
      child == f[Min(inner)].indent
      items == {j \in inner : f[j].dash}
      Item(j) == {k \in inner : k >= j /\ \A l \in items : l <= k => l <= j}
      ListFits ==
        \A j \in inner :
          IF f[j].dash THEN f[j].indent = child
          ELSE f[j].key # NoKey /\ f[j].indent = child + 2 /\ f[Max({k \in items : k < j})].key # NoKey
      MapFits == \A j \in inner : ~f[j].dash /\ f[j].key # NoKey /\ f[j].indent = child
      Nth(n) == SetToSortSeq(items, <)[n]
  IN  IF inner = {} THEN Null
      ELSE IF f[Min(inner)].dash
      THEN IF ListFits
           THEN ListOf([n \in 1..Cardinality(items) |->
                  IF f[Nth(n)].key = NoKey THEN ParseScalar(f[Nth(n)].raw) ELSE MapOf(Pairs(f, Item(Nth(n))))])
           ELSE Refused
      ELSE IF MapFits THEN MapOf(Pairs(f, inner)) ELSE Refused

Opens(l)   == l.raw.style \in {"literal", "folded"}
Nests(l)   == l.raw.style = "none" /\ ~l.note
Within(f, i) == IF Opens(f[i]) THEN Indented(f, i, TRUE) ELSE IF Nests(f[i]) THEN Indented(f, i, FALSE) ELSE {}

Top(f) == {i \in DOMAIN f : f[i].kind = "text" /\ f[i].indent = 0}
ReadKey(f, i) ==
  IF Opens(f[i]) THEN ReadBlockScalar(f, i) ELSE IF Nests(f[i]) THEN ReadNested(f, i) ELSE ParseScalar(f[i].raw)

\* load_case and validate_case: what is indented belongs to the key above it, what is not is a
\* key (an item of a list is none), no key comes twice, and lists are lists.
Loads(f) ==
  /\ \A i \in DOMAIN f : f[i].kind = "text" /\ f[i].indent > 0 => \E t \in Top(f) : i \in Within(f, t)
  /\ \A i \in Top(f) : ~f[i].dash /\ f[i].key # NoKey /\ \A j \in Top(f) : f[i].key = f[j].key => i = j
  /\ \A i \in Top(f) : ReadKey(f, i).type \in (IF f[i].key \in ListKeys THEN {"list", "null"} ELSE {"text", "number", "map", "list", "null"})
Load(f) == [k \in {f[i].key : i \in Top(f)} |-> ReadKey(f, CHOOSE i \in Top(f) : f[i].key = k)]

-----------------------------------------------------------------------------
(* Edits. *)

Init == meaning \in Cases /\ file = Dump(meaning) /\ fileEdits = 0

InBlock(i) == \E t \in Top(file) : Opens(file[t]) /\ i \in Indented(file, t, TRUE) \cup {t}

Edited(f) == fileEdits < MaxFileEdits /\ fileEdits' = fileEdits + 1 /\ file' = f /\ UNCHANGED meaning
Replaced(i, lines) == SubSeq(file, 1, i - 1) \o lines \o SubSeq(file, i + 1, Len(file))

AddLine == \E i \in 0..Len(file), l \in {Blank, Comment(0), Comment(2)} : ~InBlock(i) /\ Edited(InsertAt(file, i + 1, l))

AddNote == \E i \in DOMAIN file : file[i].kind = "text" /\ ~InBlock(i) /\ Edited([file EXCEPT ![i].note = TRUE])

Split(t, char) ==
  LET breaks == {0, Len(t) + 1} \cup {i \in DOMAIN t : t[i] = char}
      at(n)  == SetToSortSeq(breaks, <)[n]
  IN  [n \in 1..(Cardinality(breaks) - 1) |-> SubSeq(t, at(n) + 1, at(n + 1) - 1)]

\* The spaces a line begins with are its indentation; no line is of spaces alone.
Leading(t) == Cardinality({k \in DOMAIN t : \A j \in 1..k : t[j] = "sp"})
BlockLine(t) ==
  IF t = << >> THEN Blank
  ELSE Line(2 + Leading(t), FALSE, NoKey, Raw("plain", SubSeq(t, Leading(t) + 1, Len(t))))
Blockable(lines) ==
  /\ Head(lines) # << >> /\ Leading(Head(lines)) = 0 /\ Last(lines) # << >>
  /\ \A n \in DOMAIN lines : lines[n] # << >> => Leading(lines[n]) < Len(lines[n])
AsBlock(i, style, lines) ==
  <<[file[i] EXCEPT !.raw = Raw(style, << >>)]>> \o [n \in DOMAIN lines |-> BlockLine(lines[n])]

\* What YAML makes of the lines of a folded block, none of them blank: a line break is a space,
\* but stays beside a line that is indented more.
Folded(lines) ==
  FlattenSeq([n \in DOMAIN lines |->
    IF n = 1 THEN lines[1]
    ELSE IF Leading(lines[n - 1]) = 0 /\ Leading(lines[n]) = 0 THEN <<"sp">> \o lines[n]
    ELSE <<"nl">> \o lines[n]])

Restyle ==
  \E i \in DOMAIN file :
    LET t == file[i].raw.of IN
    /\ file[i].raw.style = "double"
    /\ \/ "nl" \notin ToSet(t) /\ Edited([file EXCEPT ![i].raw = Raw("single", t)])
       \/ "nl" \notin ToSet(t) /\ Plain(t) = Text(t) /\ Edited([file EXCEPT ![i].raw = Raw("plain", t)])
       \/ /\ file[i].indent = 0 /\ ~file[i].note /\ \A j \in Indented(file, i, FALSE) : file[j].kind = "blank"
          /\ ~file[i].dash
          /\ \/ Blockable(Split(t, "nl")) /\ Edited(Replaced(i, AsBlock(i, "literal", Split(t, "nl"))))
             \/ \E lines \in {Split(t, "sp"), Split(t, "nl")} :
                  /\ Blockable(lines) /\ \A n \in DOMAIN lines : lines[n] # << >> /\ "nl" \notin ToSet(lines[n])
                  /\ Folded(lines) = t /\ Edited(Replaced(i, AsBlock(i, "folded", lines)))

Simple(i) == LET S == Indented(file, i, FALSE) IN S # {} /\ \A j \in S : file[j].dash /\ file[j].key = NoKey /\ ~file[j].note
InBrackets(i) == [n \in 1..Cardinality(Indented(file, i, FALSE)) |-> file[i + n].raw]
Flow ==
  \E i \in Top(file) :
    /\ Nests(file[i]) /\ Simple(i)
    /\ Edited(SubSeq(file, 1, i - 1) \o <<[file[i] EXCEPT !.raw = Raw("flow", InBrackets(i))]>>
                \o SubSeq(file, Max(Indented(file, i, FALSE)) + 1, Len(file)))

Deepen ==
  \E i \in Top(file) :
    /\ Within(file, i) # {}
    /\ Edited([j \in DOMAIN file |-> IF j \in Within(file, i) /\ file[j].kind = "text" THEN [file[j] EXCEPT !.indent = @ + 2] ELSE file[j]])

\* A list need not be indented more than its key.
Undent ==
  \E i \in Top(file) :
    LET below == Meaningful(file, Indented(file, i, FALSE)) IN
    /\ Nests(file[i]) /\ below # {} /\ file[Min(below)].dash
    /\ Edited([j \in DOMAIN file |-> IF j \in below THEN [file[j] EXCEPT !.indent = @ - file[Min(below)].indent] ELSE file[j]])

Next == AddLine \/ AddNote \/ Restyle \/ Flow \/ Deepen \/ Undent

-----------------------------------------------------------------------------
(* Properties. *)

\* A folded block keeps the line break before and after a line that is indented more.
MoreIndented(f, i) ==
  /\ f[i].raw.style = "folded"
  /\ \E j, k \in {n \in Indented(f, i, TRUE) : f[n].kind = "text"} : f[j].indent # f[k].indent

\* Nothing but line breaks has become a space.
BreaksLost(meant, got) ==
  /\ got.type = "text" /\ Len(got.of) = Len(meant.of)
  /\ \A n \in DOMAIN got.of : got.of[n] = meant.of[n] \/ (meant.of[n] = "nl" /\ got.of[n] = "sp")

\* A case is read as it was meant after any of the edits, in any order: comments, blank
\* lines, quotes, blocks, brackets and indentation.  Of those the reader refuses three that
\* YAML allows, a comment after a key that has its value below, what looks like a comment
\* inside a list in brackets, and a list that is not indented under its key; and one it
\* reads as something else, a folded block with a line that is indented more than another,
\* of which no more is lost than the breaks of its lines (brain_eval.py, load_case).
FilesRead ==
  IF Loads(file)
  THEN /\ DOMAIN Load(file) = DOMAIN meaning
       /\ \A i \in Top(file) :
            LET k == file[i].key IN
            \/ Load(file)[k] = meaning[k]
            \/ MoreIndented(file, i) /\ BreaksLost(meaning[k], Load(file)[k])
  ELSE \E i \in Top(file) :
         \/ file[i].note /\ file[i].raw.style = "none"
         \/ file[i].raw.style = "flow" /\ \E n \in DOMAIN file[i].raw.of : Cuts(file[i].raw.of[n].of) # {}
         \/ file[i].dash

\* What the reader is to do with what it does not support: refuse it.
NeverMisread == Loads(file) => Load(file) = meaning
=============================================================================
