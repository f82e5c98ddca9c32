----------------------------- MODULE PanelHealth -----------------------------
(***************************************************************************)
(* The panel check (src/kubernetes/apps/observability/grafana-panel-health/ *)
(* app/panel_health_exporter.py): a thread asks Grafana for the dashboards, *)
(* then for each, then runs the queries of each panel, and puts the results *)
(* in the place of the old ones; the metrics store scrapes what is there,  *)
(* and the alert GrafanaPanelsStoppedShowingData                           *)
(* (src/kubernetes/apps/observability/victoria-metrics/app/rules/          *)
(* prometheusrule-observability-backend.yaml) reads the scrapes.           *)
(*                                                                         *)
(* One scrape is kept of each check, with what the check left.  Titles,    *)
(* time ranges and the text of queries are left out.                       *)
(***************************************************************************)
EXTENDS Integers, FiniteSets, Functions, Sequences

CONSTANTS
  Panels,
  DashboardOf,       \* of each panel, also of those in rows
  Panel,             \* of each: [type, library, datasource, noValue, targets]
  Variables,         \* of each dashboard: its variables, [type, current, all]
  Typeless,          \* PANEL_TYPES_WITHOUT_QUERIES
  Builtin, Mixed, NoSource,
  Window, Memory,    \* the checks of 3 hours, and of 7 days
  MaxChecks, MaxChanges, MaxTroubles  \* bounds

VARIABLES
  world,     \* what each target of each panel would answer
  phase, dashboards, rest, results, \* the check: the dashboards and the panels left, and what it has found
  snapshot,  \* what a scrape reads
  scrapes,   \* newest last
  saw,       \* history: of each scrape, which panels its check saw with data and without
  seen,      \* the same of the check that runs
  lit,       \* history: the panels that ever answered with data and without an error
  checks, changes, troubles

Outcomes == {"data", "empty", "error"}

Nothing == [p \in {} |-> "empty"]
With(f, p, v) == [q \in DOMAIN f \cup {p} |-> IF q = p THEN v ELSE f[q]]

-----------------------------------------------------------------------------
(* What the check asks for. *)

\* The saved value of a variable; all of them, or none, becomes allValue or ".*".
Value(v) ==
  CASE v.type = "constant"                      -> v.query
    [] v.type # "constant" /\ v.current \in {"none", "all"} -> IF v.all # "none" THEN v.all ELSE ".*"
    [] OTHER                                    -> v.current

\* A target's own source, or that of its panel; a variable of the dashboard is filled in.
SourceOf(p, t) ==
  LET source == IF t.datasource # NoSource THEN t.datasource ELSE Panel[p].datasource
      filled == Variables[DashboardOf[p]]
  IN  IF source \in DOMAIN filled THEN Value(filled[source]) ELSE source

\* The queries of a panel, without what is hidden, computed in Grafana, or has no source.
Queries(p) ==
  {i \in DOMAIN Panel[p].targets :
     ~Panel[p].targets[i].hidden /\ SourceOf(p, Panel[p].targets[i]) \notin Builtin \cup {NoSource, Mixed}}

Checked(p) == Panel[p].type \notin Typeless /\ ~Panel[p].library /\ Queries(p) # {}

EmptyIsExpected(p) == Panel[p].noValue = "sentence"

\* One failing query fails the panel; otherwise one value is enough.
Classify(outcomes) ==
  IF "error" \in outcomes THEN "error" ELSE IF "data" \in outcomes THEN "data" ELSE "empty"

\* What is not asked plays no part.
Targets == UNION {{<<p, i>> : i \in Queries(p)} : p \in Panels}

Init ==
  /\ world = [t \in Targets |-> "data"]
  /\ phase = "idle" /\ dashboards = {} /\ rest = {} /\ results = Nothing
  /\ snapshot = Nothing /\ scrapes = << >> /\ saw = << >> /\ seen = Nothing /\ lit = {}
  /\ checks = 0 /\ changes = 0 /\ troubles = 0

-----------------------------------------------------------------------------
(* The check. *)

List ==
  /\ phase = "idle" /\ checks < MaxChecks /\ checks' = checks + 1
  /\ phase' = "read" /\ dashboards' = {DashboardOf[p] : p \in Panels} /\ rest' = {} /\ results' = Nothing /\ seen' = Nothing
  /\ UNCHANGED <<world, snapshot, scrapes, saw, lit, changes, troubles>>

Trouble == troubles < MaxTroubles /\ troubles' = troubles + 1

\* No token, or the list cannot be had: what was found last is exported again.
Again ==
  /\ phase' = "scrape" /\ seen' = Nothing
  /\ UNCHANGED <<world, dashboards, rest, results, snapshot, scrapes, saw, lit, changes>>

ListFails == phase = "idle" /\ checks < MaxChecks /\ checks' = checks + 1 /\ Trouble /\ Again

\* The panels of one dashboard, those in rows as well.
ReadDashboard(d) ==
  /\ phase = "read" /\ rest = {} /\ d \in dashboards
  /\ dashboards' = dashboards \ {d}
  /\ rest' = {p \in Panels : DashboardOf[p] = d /\ Checked(p)}
  /\ UNCHANGED <<world, phase, results, snapshot, scrapes, saw, seen, lit, checks, changes, troubles>>

\* A dashboard that cannot be read is left out, whatever the reason, and the check goes on.
SkipDashboard(d) ==
  /\ phase = "read" /\ rest = {} /\ d \in dashboards
  /\ Trouble /\ dashboards' = dashboards \ {d}
  /\ UNCHANGED <<world, phase, rest, results, snapshot, scrapes, saw, seen, lit, checks, changes>>

Found(p, status) ==
  /\ phase = "read" /\ p \in rest
  /\ rest' = rest \ {p} /\ results' = With(results, p, status)
  /\ UNCHANGED <<world, phase, dashboards, snapshot, scrapes, saw, checks, changes>>

Query(p) ==
  /\ Found(p, Classify({world[<<p, i>>] : i \in Queries(p)}))
  /\ seen' = With(seen, p, "data" \in {world[<<p, i>>] : i \in Queries(p)})
  /\ lit' = IF {world[<<p, i>>] : i \in Queries(p)} \cap {"data", "error"} = {"data"} THEN lit \cup {p} ELSE lit
  /\ UNCHANGED troubles

\* Mutant: a panel that gets no answer is left out.
QueryDropped(p) ==
  /\ phase = "read" /\ p \in rest /\ rest' = rest \ {p}
  /\ Trouble /\ UNCHANGED <<world, phase, dashboards, results, snapshot, scrapes, saw, seen, lit, checks, changes>>

\* No answer, or one that is no JSON, is an error; an error page in JSON has no results, which
\* reads as empty.
QueryFails(p) == \E status \in {"error", "empty"} : Found(p, status) /\ Trouble /\ UNCHANGED <<seen, lit>>

EndCheck ==
  /\ phase = "read" /\ dashboards = {} /\ rest = {}
  /\ phase' = "scrape" /\ snapshot' = results
  /\ UNCHANGED <<world, dashboards, rest, results, scrapes, saw, seen, lit, checks, changes, troubles>>

-----------------------------------------------------------------------------
(* The metrics store, and what the panels show. *)

Newest(s, n) == IF Len(s) <= n THEN s ELSE SubSeq(s, Len(s) - n + 1, Len(s))

Scrape ==
  /\ phase = "scrape" /\ phase' = "idle"
  /\ scrapes' = Newest(Append(scrapes, snapshot), Memory)
  /\ saw' = Newest(Append(saw, seen), Memory)
  /\ seen' = Nothing
  /\ UNCHANGED <<world, dashboards, rest, results, snapshot, lit, checks, changes, troubles>>

Change ==
  /\ changes < MaxChanges /\ changes' = changes + 1
  /\ \E t \in Targets, o \in Outcomes : o # world[t] /\ world' = [world EXCEPT ![t] = o]
  /\ UNCHANGED <<phase, dashboards, rest, results, snapshot, scrapes, saw, seen, lit, checks, troubles>>

Next ==
  \/ List \/ ListFails \/ (\E p \in Panels : ReadDashboard(DashboardOf[p]) \/ SkipDashboard(DashboardOf[p]))
  \/ (\E p \in Panels : Query(p) \/ QueryFails(p)) \/ EndCheck \/ Scrape \/ Change

\* max_over_time(grafana_panel_has_data[3h]) == 0, unless empty is expected, and == 1 over 7 days.
Samples(p, n) == {Newest(scrapes, n)[i][p] : i \in {j \in DOMAIN Newest(scrapes, n) : p \in DOMAIN Newest(scrapes, n)[j]}}

Stopped(p) ==
  /\ Samples(p, Window) # {} /\ "data" \notin Samples(p, Window)
  /\ p \notin DOMAIN snapshot \/ ~EmptyIsExpected(p)
  /\ "data" \in Samples(p, Memory)

-----------------------------------------------------------------------------
(* Properties. *)

TypeOK ==
  /\ world \in [Targets -> Outcomes] /\ phase \in {"idle", "read", "scrape"} /\ rest \subseteq Panels
  /\ \A f \in {results, snapshot} \cup Range(scrapes) : DOMAIN f \subseteq Panels /\ Range(f) \subseteq Outcomes
  /\ Len(scrapes) <= Memory /\ Len(saw) = Len(scrapes) /\ lit \subseteq Panels

\* What the checks of a window saw of a panel, where they asked it.
Sights(p, n) == {Newest(saw, n)[i][p] : i \in {j \in DOMAIN Newest(saw, n) : p \in DOMAIN Newest(saw, n)[j]}}

\* An alert is about a panel that a check has seen with data, and no check of the window
\* that asked it in full has seen it answer without an error; whatever failed, and whatever
\* old results were exported again meanwhile.  About a panel that says empty is fine it is
\* only when the newest results have nothing of its whole dashboard: what says so is
\* exported with the results of a panel, and a skipped dashboard has none.
AlertsTrue ==
  \A p \in Panels : Stopped(p) =>
    /\ p \in lit
    /\ EmptyIsExpected(p) => \A q \in Panels : DashboardOf[q] = DashboardOf[p] => q \notin DOMAIN snapshot
    /\ \A i \in DOMAIN Newest(saw, Window) :
         LET s == Newest(saw, Window)[i] IN p \in DOMAIN s /\ s[p] => Newest(scrapes, Window)[i][p] = "error"

\* A panel that was seen dark by every check of the window, and with data before, is alerted
\* about, unless it says that empty is fine.
AlertsComplete ==
  \A p \in Panels :
    /\ Checked(p) /\ ~EmptyIsExpected(p) /\ Len(saw) >= Window
    /\ Sights(p, Window) = {FALSE} /\ \A i \in DOMAIN Newest(saw, Window) : p \in DOMAIN Newest(saw, Window)[i]
    /\ "data" \in Samples(p, Memory)
    => Stopped(p)

PanelsRight == AlertsTrue /\ AlertsComplete

\* What the handbook says: a panel that says empty is fine never alerts.
NeverAlertsOnEmpty == \A p \in Panels : EmptyIsExpected(p) => ~Stopped(p)
=============================================================================
