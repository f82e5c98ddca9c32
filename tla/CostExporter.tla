---------------------------- MODULE CostExporter ----------------------------
(***************************************************************************)
(* The Hetzner cost exporter (src/kubernetes/apps/observability/           *)
(* hcloud-cost-exporter/app/hcloud_cost_exporter.py): a thread lists the   *)
(* account page by page, prices what it found and puts a new snapshot in   *)
(* the place of the old one; a scrape computes from the snapshot, and the  *)
(* time it comes at, what every resource has cost this month and will.     *)
(*                                                                         *)
(* Resources come and go while they are listed, and the token may be       *)
(* missing, refused or rotated.  Time counts in ticks, TicksPerHour to an  *)
(* hour; names and labels are left out.                                    *)
(***************************************************************************)
EXTENDS Integers, FiniteSetsExt, Functions, Sequences

CONSTANTS
  Ids,              \* numbers of resources, given in order
  KindOf,           \* of each, one of Listings
  BackedUp,         \* servers with a backup window
  NoPrice, Free,    \* resources without a price for their location; that cost nothing or are of no priced type
  Listings,         \* the kinds, in the order of inventory()
  PerGB,            \* the kinds that are priced by size
  Price,            \* of each kind: the hourly price and the monthly cap, or the price of a month
  BackupPercentage, HoursPerMonth,
  PageSize, TicksPerHour, HoursOfMonth,
  LastTick, MaxRefreshes, MaxTroubles, MaxChanges  \* bounds

Never == -1

VARIABLES
  time,
  created, gone,          \* the account
  token,                  \* what is mounted
  used, at, page, listed, \* the refresh: its token, listing and page, and what it has found
  steady, shifted,        \* history: what was there all along, and whether a page lost its place
  snapshot,
  refreshes, troubles, changes

costVars == <<time, created, gone, token, used, at, page, listed, steady, shifted, snapshot, refreshes, troubles, changes>>

There == {i \in Ids : created[i] # Never /\ i \notin gone}

Init ==
  /\ time = 0
  /\ created = [i \in Ids |-> Never] /\ gone = {}
  /\ token \in {"none", "good"}
  /\ used = "none" /\ at = 0 /\ page = 0 /\ listed = {} /\ steady = {} /\ shifted = FALSE
  /\ snapshot = [resources |-> {}, owed |-> {}, configured |-> FALSE, authorized |-> FALSE, ok |-> FALSE,
                 success |-> Never, failures |-> 0]
  /\ refreshes = 0 /\ troubles = 0 /\ changes = 0

-----------------------------------------------------------------------------
(* What a resource costs. *)

MonthTicks          == HoursOfMonth * TicksPerHour
MonthStart(now)     == (now \div MonthTicks) * MonthTicks
NextMonthStart(now) == MonthStart(now) + MonthTicks

BillingStart(since, now) == Max({since, MonthStart(now)})

\* Mutant: only hours that have ended.
EndedHours(from, to) == IF to <= from THEN 0 ELSE (to - from) \div TicksPerHour

\* Hours that have begun, rounded up.
StartedHours(from, to) == IF to <= from THEN 0 ELSE (to - from + TicksPerHour - 1) \div TicksPerHour

CappedCost(hours, r) == Min({hours * r.hourly, r.cap})

MonthToDate(r, now)    == CappedCost(StartedHours(BillingStart(r.since, now), now), r)
ProjectedMonth(r, now) == CappedCost(StartedHours(BillingStart(r.since, now), NextMonthStart(now)), r)

-----------------------------------------------------------------------------
(* From the account to resources. *)

Resource(i, kind, hourly, cap) == [id |-> i, kind |-> kind, since |-> created[i], hourly |-> hourly, cap |-> cap]

Servers(ids) ==
  LET price == Price["server"] IN
  {Resource(i, "server", price.hourly, price.cap) : i \in ids}
    \cup {Resource(i, "server_backup", (price.hourly * BackupPercentage) \div 100, (price.cap * BackupPercentage) \div 100) :
            i \in ids \cap BackedUp}

\* Addresses, load balancers: a primary address that is free is not reported, the rest is.
Unreported == {i \in Free : KindOf[i] = "primary_ip"}
Located(kind, ids) ==
  {Resource(i, kind, Price[kind].hourly, Price[kind].cap) : i \in ids \ Unreported}

Sized(kind, ids) == {Resource(i, kind, Price[kind].cap \div HoursPerMonth, Price[kind].cap) : i \in ids}

OfKind(kind, ids) == {i \in ids : KindOf[i] = kind}

Resources(ids) ==
  UNION {CASE kind = "server" -> Servers(OfKind(kind, ids))
           [] kind \in PerGB  -> Sized(kind, OfKind(kind, ids))
           [] OTHER           -> Located(kind, OfKind(kind, ids)) : kind \in Range(Listings)}

-----------------------------------------------------------------------------
(* The refresh. *)

Refreshing == at > 0

Idle == used' = "none" /\ at' = 0 /\ page' = 0 /\ listed' = {} /\ steady' = {} /\ shifted' = FALSE

\* No token: nothing is reported, whatever was.
Unconfigured ==
  [snapshot EXCEPT !.resources = {}, !.owed = {}, !.configured = FALSE, !.authorized = FALSE, !.ok = FALSE, !.failures = @ + 1]

\* The token is read anew for every refresh.
Refresh ==
  /\ ~Refreshing /\ refreshes < MaxRefreshes
  /\ refreshes' = refreshes + 1
  /\ IF token = "none"
     THEN snapshot' = Unconfigured /\ UNCHANGED <<used, at, page, listed, steady, shifted>>
     ELSE /\ used' = token /\ at' = 1 /\ page' = 1 /\ listed' = {} /\ steady' = There /\ shifted' = FALSE
          /\ UNCHANGED snapshot
  /\ UNCHANGED <<time, created, gone, token, troubles, changes>>

\* A page of the kind being listed, in the order of the numbers, and whether another follows.
Page ==
  LET ids == OfKind(Listings[at], There) IN
  {i \in ids : (Cardinality({j \in ids : j < i}) \div PageSize) + 1 = page}
MorePages == Cardinality(OfKind(Listings[at], There)) > page * PageSize

Unauthorized ==
  /\ Refreshing /\ used = "refused"
  /\ snapshot' = [snapshot EXCEPT !.resources = {}, !.owed = {}, !.configured = TRUE, !.authorized = FALSE, !.ok = FALSE,
                                  !.failures = @ + 1]
  /\ Idle /\ UNCHANGED <<time, created, gone, token, refreshes, troubles, changes>>

\* What was reported stays reported, and the verdict on the token with it.
Failed == snapshot' = [snapshot EXCEPT !.configured = TRUE, !.ok = FALSE, !.failures = @ + 1]

CallFails ==
  /\ Refreshing /\ troubles < MaxTroubles /\ troubles' = troubles + 1
  /\ Failed /\ Idle /\ UNCHANGED <<time, created, gone, token, refreshes, changes>>

ReadPage ==
  /\ Refreshing /\ used = "good" /\ (MorePages \/ at < Len(Listings))
  /\ listed' = listed \cup Page
  /\ IF MorePages THEN page' = page + 1 /\ UNCHANGED at ELSE page' = 1 /\ at' = at + 1
  /\ UNCHANGED <<time, created, gone, token, used, steady, shifted, snapshot, refreshes, troubles, changes>>

\* The last page; a resource without a price for its location fails the whole refresh.
Finish ==
  /\ Refreshing /\ used = "good" /\ ~MorePages /\ at = Len(Listings)
  /\ LET found == listed \cup Page IN
     IF found \cap NoPrice # {} THEN Failed
     ELSE snapshot' = [snapshot EXCEPT !.resources = Resources(found), !.owed = IF shifted THEN {} ELSE steady,
                         !.configured = TRUE, !.authorized = TRUE, !.ok = TRUE, !.success = time]
  /\ Idle /\ UNCHANGED <<time, created, gone, token, refreshes, troubles, changes>>

-----------------------------------------------------------------------------
(* The world. *)

Tick ==
  /\ time < LastTick /\ time' = time + 1
  /\ UNCHANGED <<created, gone, token, used, at, page, listed, steady, shifted, snapshot, refreshes, troubles, changes>>

Changes == changes < MaxChanges /\ changes' = changes + 1 /\ UNCHANGED <<time, used, at, page, listed, snapshot, refreshes, troubles>>

Create(i) ==
  /\ created[i] = Never /\ \A j \in Ids : j < i => created[j] # Never
  /\ created' = [created EXCEPT ![i] = time]
  /\ Changes /\ UNCHANGED <<gone, token, steady, shifted>>

Delete(i) ==
  /\ i \in There
  /\ gone' = gone \cup {i} /\ steady' = steady \ {i}
  /\ shifted' = (shifted \/ (Refreshing /\ Listings[at] = KindOf[i] /\ page > 1))
  /\ Changes /\ UNCHANGED <<created, token>>

\* A token that is mounted is refused from now on, also by a refresh that uses it.
Revoke ==
  /\ token = "good" /\ token' = "refused"
  /\ changes < MaxChanges /\ changes' = changes + 1
  /\ used' = IF used = "good" THEN "refused" ELSE used
  /\ UNCHANGED <<time, created, gone, at, page, listed, steady, shifted, snapshot, refreshes, troubles>>

Mount ==
  /\ \E t \in {"good", "none"} : token' = t /\ t # token
  /\ Changes /\ UNCHANGED <<created, gone, steady, shifted>>

Next ==
  \/ Refresh \/ Unauthorized \/ CallFails \/ ReadPage \/ Finish
  \/ Tick \/ (\E i \in Ids : Create(i) \/ Delete(i)) \/ Revoke \/ Mount

-----------------------------------------------------------------------------
(* Properties. *)

TypeOK ==
  /\ time \in 0..LastTick /\ created \in [Ids -> Never..LastTick] /\ gone \subseteq Ids
  /\ token \in {"none", "good", "refused"} /\ used \in {"none", "good", "refused"}
  /\ at \in 0..Len(Listings) /\ page \in Nat /\ listed \subseteq Ids /\ steady \subseteq Ids /\ shifted \in BOOLEAN
  /\ snapshot.success \in Never..time /\ snapshot.failures \in 0..MaxRefreshes

\* What Hetzner bills: each hour of the month that has begun while the resource was there.
Billed(r, now) ==
  LET hours == {h \in 0..HoursOfMonth : Max({r.since, MonthStart(now)}) + h * TicksPerHour < now}
  IN  Min({Cardinality(hours) * r.hourly, r.cap})

\* A scrape shows the bill.  It grows within a month, and no further than what any earlier
\* scrape of that month has projected, which does not move.
BillsRight ==
  \A r \in snapshot.resources :
    /\ MonthToDate(r, time) = Billed(r, time)
    /\ \A t \in Max({MonthStart(time), r.since})..time :
         /\ MonthToDate(r, t) <= MonthToDate(r, time) /\ MonthToDate(r, time) <= ProjectedMonth(r, t)
         /\ ProjectedMonth(r, t) = ProjectedMonth(r, time)

\* What is reported was there at the last refresh that succeeded, and whatever was there
\* all through that refresh is reported, a server with its backups; unless something was
\* deleted from a listing between two of its pages, which hides the next one.
ListingRight ==
  /\ \A r \in snapshot.resources : r.since # Never /\ r.since <= snapshot.success
  /\ \A i \in snapshot.owed \ Unreported :
       /\ \E r \in snapshot.resources : r.id = i /\ r.kind = KindOf[i]
       /\ KindOf[i] = "server" /\ i \in BackedUp => \E r \in snapshot.resources : r.id = i /\ r.kind = "server_backup"

CostsRight == BillsRight /\ ListingRight
=============================================================================
