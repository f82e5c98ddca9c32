---------------------------- MODULE PagesProofs ----------------------------
(***************************************************************************)
(* Proofs about the readers of Forgejo, for any number of tabs, tokens,    *)
(* jobs, runs, tasks and repositories.  Under the Web Lock no refresh      *)
(* token is spent twice, although a sign-in replaces the tokens without    *)
(* the lock.  Every row of a pipeline panel is the newest attempt of its   *)
(* job, although the list it is read from moves from page to page while it *)
(* is read and is not read to its end.  And what the inventory pushes is   *)
(* true of every repository, whichever reads failed.                       *)
(***************************************************************************)
EXTENDS Pages, Integers, Sequences, TLAPS, WellFoundedInduction

-----------------------------------------------------------------------------
(* The tokens of the page. *)

Refreshing(t) == tabs[t].at \in {"refresh", "renewed"}

\* The tab brings tokens that no other tab has seen.
Brings(t) == tabs[t].at \in {"renewed", "signed"} /\ tabs[t].got # 0

\* Whoever refreshes has the lock, and nobody else has.
LockInv ==
  /\ \A t \in Tabs : Refreshing(t) => lock = t
  /\ lock # NoTab => Refreshing(lock)

\* Tokens on their way to localStorage are new: nobody has presented them, and no two
\* tabs bring the same.
FreshInv ==
  /\ newest >= 1 /\ auth.n <= newest
  /\ \A n \in presented : n >= 1 /\ n <= newest
  /\ \A t \in Tabs : Brings(t) => /\ tabs[t].got <= newest
                                  /\ tabs[t].got # auth.n /\ tabs[t].got \notin presented
  /\ \A t, u \in Tabs : Brings(t) /\ Brings(u) /\ tabs[t].got = tabs[u].got => t = u

\* Stored tokens that have been presented are with the tab that has the lock, or their
\* answer never came.
SpentInv ==
  /\ \A t \in Tabs : Refreshing(t) => tabs[t].refresh \in presented
  /\ auth.n \in presented => auth.n \in unheard \/ (lock # NoTab /\ tabs[lock].refresh = auth.n)

Inv == TypeOK /\ LockInv /\ FreshInv /\ SpentInv /\ TokenOnce

\* A tab's record.
TabType == [at : {"idle", "call", "wait", "refresh", "renewed", "away", "exchange", "signed"},
            gated : BOOLEAN, token : Numbers, retried : BOOLEAN, refresh : Numbers, got : Numbers]

USE DEF Trouble, Forgejo, Ghosts

LEMMA NumbersAre ==
  ASSUME TokensAssumption
  PROVE  /\ 0 \in Numbers /\ 1 \in Numbers
         /\ \A n : n \in Numbers <=> n \in Nat /\ n <= MaxGrants
BY DEF TokensAssumption, Numbers

LEMMA InitInv ==
  ASSUME TokensAssumption
  PROVE  Init => Inv
<1> SUFFICES ASSUME Init PROVE Inv
  OBVIOUS
<1>1. auth \in [n : Numbers, fresh : BOOLEAN] /\ auth.n \in {0, 1}
  <2>1. CASE auth = NoAuth
    BY <2>1, NumbersAre DEF NoAuth
  <2>2. CASE auth = [n |-> 1, fresh |-> TRUE]
    BY <2>2, NumbersAre
  <2> QED
    BY <2>1, <2>2 DEF Init
<1>2. \A t \in Tabs : tabs[t] = [NewTab EXCEPT !.gated = (auth = NoAuth)]
  BY DEF Init
<1>3. \A b \in BOOLEAN : [NewTab EXCEPT !.gated = b] \in TabType
  BY NumbersAre DEF NewTab, TabType, TokensAssumption
<1>4. (auth = NoAuth) \in BOOLEAN
  OBVIOUS
<1>5. tabs \in [Tabs -> TabType]
  BY <1>3, <1>4 DEF Init
<1>6. \A t \in Tabs : tabs[t].at = "idle"
  BY <1>2 DEF NewTab
<1>7. TypeOK
  BY <1>1, <1>5, NumbersAre DEF Init, TypeOK, TabType, TokensAssumption
<1>8. LockInv /\ FreshInv /\ SpentInv /\ TokenOnce
  BY <1>1, <1>6 DEF Init, LockInv, FreshInv, SpentInv, TokenOnce, Refreshing, Brings
<1> QED
  BY <1>7, <1>8 DEF Inv

-----------------------------------------------------------------------------
(* What the invariant asks of a step that changes one tab. *)

\* What the tabs have when one of them changes.
LEMMA TabChanges ==
  ASSUME TypeOK, NEW t \in Tabs, NEW r \in TabType, Tab(t, r)
  PROVE  /\ tabs'[t] = r
         /\ \A u \in Tabs : u # t => tabs'[u] = tabs[u]
         /\ tabs' \in [Tabs -> TabType]
BY DEF TypeOK, Tab, TabType

\* A step by which a tab neither begins nor ends a request, and stores nothing, keeps
\* all of it.
LEMMA QuietStep ==
  ASSUME TokensAssumption, Inv, NEW t \in Tabs, NEW r \in TabType, Tab(t, r),
         ~Refreshing(t), r.at \notin {"refresh", "renewed", "signed"},
         UNCHANGED <<auth, newest, withdrawn, lock, presented, twice, unheard>>,
         tokenTroubles' \in 0..MaxTroubles
  PROVE  Inv'
<1>1. /\ tabs'[t] = r
      /\ \A u \in Tabs : u # t => tabs'[u] = tabs[u]
      /\ tabs' \in [Tabs -> TabType]
  BY TabChanges DEF Inv
<1>2. TypeOK'
  BY <1>1 DEF Inv, TypeOK, TabType
<1>3. lock # t
  BY NumbersAre DEF Inv, LockInv, TokensAssumption
<1>4. LockInv'
  BY <1>1, <1>3 DEF Inv, TypeOK, LockInv, Refreshing
<1>5. FreshInv'
  BY <1>1 DEF Inv, FreshInv, Brings
<1>6. SpentInv' /\ TokenOnce'
  BY <1>1, <1>3 DEF Inv, TypeOK, SpentInv, TokenOnce, Refreshing
<1> QED
  BY <1>2, <1>4, <1>5, <1>6 DEF Inv

-----------------------------------------------------------------------------
(* The steps. *)

LEMMA PollInv ==
  ASSUME TokensAssumption, Inv, NEW t \in Tabs, Poll(t)
  PROVE  Inv'
<1> DEFINE r == IF auth.n # 0 /\ auth.fresh THEN [Calls(t, auth.n) EXCEPT !.retried = FALSE]
                ELSE [tabs[t] EXCEPT !.at = "wait", !.token = auth.n, !.retried = FALSE]
<1>1. r \in TabType /\ r.at \in {"call", "wait"}
  <2>1. auth.n \in Numbers /\ tabs[t] \in TabType
    BY DEF Inv, TypeOK, TabType
  <2>2. CASE auth.n # 0 /\ auth.fresh
    BY <2>1, <2>2, NumbersAre DEF TabType, Calls, TokensAssumption
  <2>3. CASE ~(auth.n # 0 /\ auth.fresh)
    BY <2>1, <2>3 DEF TabType
  <2> QED
    BY <2>2, <2>3
<1>2. Tab(t, r) /\ ~Refreshing(t)
  BY DEF Poll, Refreshing
<1> HIDE DEF r
<1> QED
  BY <1>1, <1>2, QuietStep DEF Poll, Inv, TypeOK

LEMMA CallEndsInv ==
  ASSUME TokensAssumption, Inv, NEW t \in Tabs, CallEnds(t)
  PROVE  Inv'
<1> DEFINE r == IF tabs[t].token \notin withdrawn THEN NewTab
                ELSE IF tabs[t].retried THEN Gated(t)
                ELSE [tabs[t] EXCEPT !.at = "wait", !.retried = TRUE]
<1>1. r \in TabType /\ r.at \in {"idle", "wait"}
  BY NumbersAre DEF Inv, TypeOK, TabType, NewTab, Gated, TokensAssumption
<1>2. Tab(t, r) /\ ~Refreshing(t)
  BY DEF CallEnds, Refreshing
<1> HIDE DEF r
<1> QED
  BY <1>1, <1>2, QuietStep DEF CallEnds, Inv, TypeOK

\* A token is presented under the lock: it is new, or its first answer never came.
LEMMA RefreshTokenInv ==
  ASSUME TokensAssumption, Inv, NEW t \in Tabs, RefreshToken(t)
  PROVE  Inv'
<1>0. ~Refreshing(t) /\ lock = NoTab /\ tokenTroubles' \in 0..MaxTroubles
  BY DEF RefreshToken, Refreshing, LockFree, Inv, TypeOK
<1>1. CASE auth.n # tabs[t].token /\ auth.fresh
  <2>1. auth.n \in Numbers /\ tabs[t] \in TabType
    BY DEF Inv, TypeOK, TabType
  <2>2. Calls(t, auth.n) \in TabType /\ Calls(t, auth.n).at = "call"
    BY <2>1, NumbersAre DEF TabType, Calls
  <2> QED
    BY <1>0, <1>1, <2>2, QuietStep DEF RefreshToken
<1>2. CASE ~(auth.n # tabs[t].token /\ auth.fresh) /\ auth.n = 0
  <2>1. Gated(t) \in TabType /\ Gated(t).at = "idle"
    BY NumbersAre DEF TabType, Gated, NewTab, TokensAssumption
  <2> QED
    BY <1>0, <1>2, <2>1, QuietStep DEF RefreshToken
<1>3. CASE ~(auth.n # tabs[t].token /\ auth.fresh) /\ auth.n # 0
  <2> DEFINE r == [tabs[t] EXCEPT !.at = "refresh", !.refresh = auth.n]
  <2>1. /\ r \in TabType /\ r.at = "refresh" /\ r.refresh = auth.n
        /\ Tab(t, r)
        /\ lock' = t /\ presented' = presented \cup {auth.n}
        /\ twice' = twice \cup (presented \cap {auth.n})
        /\ UNCHANGED <<auth, newest, withdrawn, unheard, tokenTroubles>>
    BY <1>3 DEF RefreshToken, Inv, TypeOK, TabType
  <2> HIDE DEF r
  <2>2. /\ tabs'[t] = r
        /\ \A u \in Tabs : u # t => tabs'[u] = tabs[u]
        /\ tabs' \in [Tabs -> TabType]
    BY <2>1, TabChanges DEF Inv
  <2>3. TypeOK'
    BY <2>1, <2>2 DEF Inv, TypeOK, TabType
  <2>4. \A u \in Tabs : ~Refreshing(u)
    BY <1>0, NumbersAre DEF Inv, LockInv, TokensAssumption
  <2>5. LockInv'
    BY <2>1, <2>2, <2>4 DEF LockInv, Refreshing
  <2>6. FreshInv'
    <3>1. auth.n \in Nat /\ auth.n >= 1 /\ auth.n <= newest
      BY <1>3, NumbersAre DEF Inv, TypeOK, FreshInv
    <3>2. \A u \in Tabs : Brings(u)' => u # t /\ Brings(u) /\ tabs'[u].got = tabs[u].got
      BY <2>1, <2>2 DEF Brings
    <3>3. \A n \in presented' : n >= 1 /\ n <= newest
      BY <2>1, <3>1 DEF Inv, FreshInv
    <3>4. \A u \in Tabs : Brings(u)' => /\ tabs'[u].got <= newest
                                        /\ tabs'[u].got # auth.n /\ tabs'[u].got \notin presented'
      BY <2>1, <3>2 DEF Inv, FreshInv
    <3> QED
      BY <2>1, <3>1, <3>2, <3>3, <3>4 DEF Inv, FreshInv
  <2>7. SpentInv'
    BY <2>1, <2>2, <2>4, NumbersAre DEF SpentInv, Refreshing, TokensAssumption
  <2>8. TokenOnce'
    BY <1>0, <2>1 DEF Inv, SpentInv, TokenOnce
  <2> QED
    BY <2>3, <2>5, <2>6, <2>7, <2>8 DEF Inv
<1> QED
  BY <1>1, <1>2, <1>3

\* Forgejo issues newer tokens than any that has been seen.
LEMMA IssueInv ==
  ASSUME TokensAssumption, Inv, NEW t \in Tabs, NEW to \in {"renewed", "signed"}, Issue(t, to),
         to = "renewed" => Refreshing(t), to = "signed" => ~Refreshing(t),
         UNCHANGED <<auth, withdrawn, lock, presented, twice, unheard, tokenTroubles>>
  PROVE  Inv'
<1> DEFINE r == [tabs[t] EXCEPT !.at = to, !.got = newest + 1]
<1>1. /\ newest \in Nat /\ newest < MaxGrants /\ newest' = newest + 1
      /\ newest' \in Numbers /\ Tab(t, r)
  BY NumbersAre DEF Issue, Inv, TypeOK, TokensAssumption
<1>2. r \in TabType /\ r.at = to /\ r.got = newest' /\ r.refresh = tabs[t].refresh
  BY <1>1 DEF Inv, TypeOK, TabType
<1> HIDE DEF r
<1>3. /\ tabs'[t] = r
      /\ \A u \in Tabs : u # t => tabs'[u] = tabs[u]
      /\ tabs' \in [Tabs -> TabType]
  BY <1>1, <1>2, TabChanges DEF Inv
<1>4. TypeOK'
  BY <1>1, <1>3 DEF Inv, TypeOK, TabType
<1>5. LockInv'
  BY <1>2, <1>3 DEF Inv, TypeOK, LockInv, Refreshing
<1>6. FreshInv'
  <2>0. auth.n \in Nat /\ (\A n \in presented : n \in Nat) /\ (\A u \in Tabs : tabs[u].got \in Nat)
    BY NumbersAre DEF Inv, TypeOK
  <2>1. /\ newest' >= 1 /\ auth'.n <= newest' /\ auth'.n # newest'
        /\ newest' \notin presented'
        /\ \A n \in presented' : n >= 1 /\ n <= newest'
    BY <1>1, <2>0 DEF Inv, FreshInv
  <2>2. \A u \in Tabs : u # t /\ Brings(u)' => /\ tabs'[u].got # newest' /\ tabs'[u].got <= newest'
                                               /\ tabs'[u].got # auth'.n /\ tabs'[u].got \notin presented'
    BY <1>1, <1>3, <2>0 DEF Inv, FreshInv, Brings
  <2>3. \A u, v \in Tabs : u # t /\ v # t /\ Brings(u)' /\ Brings(v)' /\ tabs'[u].got = tabs'[v].got => u = v
    BY <1>3 DEF Inv, FreshInv, Brings
  <2> QED
    BY <1>1, <1>2, <1>3, <2>1, <2>2, <2>3 DEF FreshInv
<1>7. SpentInv' /\ TokenOnce'
  BY <1>2, <1>3 DEF Inv, TypeOK, SpentInv, TokenOnce, Refreshing
<1> QED
  BY <1>4, <1>5, <1>6, <1>7 DEF Inv

\* An answer without tokens.
LEMMA RefusedInv ==
  ASSUME TokensAssumption, Inv, NEW t \in Tabs, NEW to \in {"renewed", "signed"},
         Tab(t, [tabs[t] EXCEPT !.at = to, !.got = 0]),
         to = "renewed" => Refreshing(t), to = "signed" => ~Refreshing(t),
         UNCHANGED <<auth, newest, withdrawn, lock, presented, twice, unheard>>,
         tokenTroubles' \in 0..MaxTroubles
  PROVE  Inv'
<1> DEFINE r == [tabs[t] EXCEPT !.at = to, !.got = 0]
<1>1. r \in TabType /\ r.at = to /\ r.got = 0 /\ r.refresh = tabs[t].refresh
  BY NumbersAre DEF Inv, TypeOK, TabType, TokensAssumption
<1>2. Tab(t, r)
  OBVIOUS
<1> HIDE DEF r
<1>3. /\ tabs'[t] = r
      /\ \A u \in Tabs : u # t => tabs'[u] = tabs[u]
      /\ tabs' \in [Tabs -> TabType]
  BY <1>1, <1>2, TabChanges DEF Inv
<1>4. TypeOK'
  BY <1>3 DEF Inv, TypeOK, TabType
<1>5. LockInv'
  BY <1>1, <1>3 DEF Inv, TypeOK, LockInv, Refreshing
<1>6. FreshInv'
  BY <1>1, <1>3 DEF Inv, FreshInv, Brings
<1>7. SpentInv' /\ TokenOnce'
  BY <1>1, <1>3 DEF Inv, TypeOK, SpentInv, TokenOnce, Refreshing
<1> QED
  BY <1>4, <1>5, <1>6, <1>7 DEF Inv

LEMMA ForgejoRefreshesInv ==
  ASSUME TokensAssumption, Inv, NEW t \in Tabs, ForgejoRefreshes(t)
  PROVE  Inv'
<1>1. Refreshing(t)
  BY DEF ForgejoRefreshes, Refreshing
<1>2. CASE Issue(t, "renewed") /\ UNCHANGED tokenTroubles
  BY <1>1, <1>2, IssueInv DEF ForgejoRefreshes
<1>3. CASE Tab(t, [tabs[t] EXCEPT !.at = "renewed", !.got = 0]) /\ UNCHANGED newest
           /\ tokenTroubles' \in 0..MaxTroubles
  BY <1>1, <1>3, RefusedInv DEF ForgejoRefreshes
<1> QED
  BY <1>2, <1>3, NumbersAre DEF ForgejoRefreshes, Inv, TypeOK, TokensAssumption

\* The tokens a tab brings are stored; it may hold the lock, which it gives back.
LEMMA StoresInv ==
  ASSUME TokensAssumption, Inv, NEW t \in Tabs, NEW r \in TabType, Tab(t, r),
         r.at \in {"idle", "call"}, r.got = 0,
         tabs[t].at \in {"renewed", "signed"}, auth' = Stored(tabs[t].got),
         lock' = IF Refreshing(t) THEN NoTab ELSE lock,
         UNCHANGED <<newest, withdrawn, presented, twice, unheard, tokenTroubles>>
  PROVE  Inv'
<1>1. /\ tabs'[t] = r
      /\ \A u \in Tabs : u # t => tabs'[u] = tabs[u]
      /\ tabs' \in [Tabs -> TabType]
  BY TabChanges DEF Inv
<1>2. auth'.n = tabs[t].got /\ auth' \in [n : Numbers, fresh : BOOLEAN] /\ tabs[t].got \in Nat
  BY NumbersAre DEF Inv, TypeOK, Stored, NoAuth, TokensAssumption
<1>3. TypeOK'
  BY <1>1, <1>2 DEF Inv, TypeOK, TabType
<1>4. LockInv'
  BY <1>1, NumbersAre DEF Inv, TypeOK, LockInv, Refreshing, TokensAssumption
<1>5. auth'.n <= newest /\ auth'.n \notin presented
  <2>1. CASE tabs[t].got = 0
    BY <1>2, <2>1, NumbersAre DEF Inv, TypeOK, FreshInv
  <2>2. CASE tabs[t].got # 0
    BY <1>2, <2>2 DEF Inv, FreshInv, Brings
  <2> QED
    BY <2>1, <2>2
<1>6. \A u \in Tabs : u # t /\ Brings(u) => tabs[u].got # auth'.n
  BY <1>2 DEF Inv, FreshInv, Brings
<1>7. FreshInv'
  BY <1>1, <1>5, <1>6 DEF Inv, FreshInv, Brings
<1>8. SpentInv' /\ TokenOnce'
  BY <1>1, <1>5 DEF Inv, SpentInv, TokenOnce, Refreshing
<1> QED
  BY <1>3, <1>4, <1>7, <1>8 DEF Inv

LEMMA RenewedInv ==
  ASSUME TokensAssumption, Inv, NEW t \in Tabs, Renewed(t)
  PROVE  Inv'
<1> DEFINE r == IF tabs[t].got = 0 THEN Gated(t) ELSE Calls(t, tabs[t].got)
<1>1. r \in TabType /\ r.at \in {"idle", "call"} /\ r.got = 0
  BY NumbersAre DEF Inv, TypeOK, TabType, Gated, Calls, NewTab, TokensAssumption
<1>2. Tab(t, r) /\ Refreshing(t) /\ tabs[t].at = "renewed"
  BY DEF Renewed, Refreshing
<1> HIDE DEF r
<1> QED
  BY <1>1, <1>2, StoresInv DEF Renewed

LEMMA SignedInInv ==
  ASSUME TokensAssumption, Inv, NEW t \in Tabs, SignedIn(t)
  PROVE  Inv'
<1> DEFINE r == IF tabs[t].got = 0 THEN Gated(t) ELSE NewTab
<1>1. r \in TabType /\ r.at \in {"idle", "call"} /\ r.got = 0
  BY NumbersAre DEF TabType, Gated, NewTab, TokensAssumption
<1>2. Tab(t, r) /\ ~Refreshing(t) /\ tabs[t].at = "signed"
  BY DEF SignedIn, Refreshing
<1> HIDE DEF r
<1> QED
  BY <1>1, <1>2, StoresInv DEF SignedIn

\* The lock is free again, and what the tab has presented may be presented once more.
LEMMA AnswerLostInv ==
  ASSUME TokensAssumption, Inv, NEW t \in Tabs, AnswerLost(t)
  PROVE  Inv'
<1> DEFINE r == [NewTab EXCEPT !.gated = (auth.n = 0)]
<1>1. r \in TabType /\ r.at = "idle" /\ r.got = 0
  BY NumbersAre DEF TabType, NewTab, TokensAssumption
<1>2. /\ Tab(t, r) /\ Refreshing(t) /\ lock = t /\ lock' = NoTab
      /\ unheard' = unheard \cup {tabs[t].refresh}
      /\ UNCHANGED <<auth, newest, withdrawn, presented, twice>>
      /\ tokenTroubles' \in 0..MaxTroubles
  BY NumbersAre DEF AnswerLost, Refreshing, Inv, TypeOK, LockInv, TokensAssumption
<1> HIDE DEF r
<1>3. /\ tabs'[t] = r
      /\ \A u \in Tabs : u # t => tabs'[u] = tabs[u]
      /\ tabs' \in [Tabs -> TabType]
  BY <1>1, <1>2, TabChanges DEF Inv
<1>4. TypeOK'
  <2>1. tabs[t].refresh \in presented
    BY <1>2 DEF Inv, SpentInv
  <2> QED
    BY <1>2, <1>3, <2>1 DEF Inv, TypeOK, TabType
<1>5. LockInv'
  BY <1>1, <1>2, <1>3 DEF Inv, LockInv, Refreshing
<1>6. FreshInv'
  BY <1>1, <1>2, <1>3 DEF Inv, FreshInv, Brings
<1>7. SpentInv' /\ TokenOnce'
  BY <1>1, <1>2, <1>3 DEF Inv, SpentInv, TokenOnce, Refreshing
<1> QED
  BY <1>4, <1>5, <1>6, <1>7 DEF Inv

\* Every step keeps the invariant.
LEMMA NextInv ==
  ASSUME TokensAssumption, Inv, [Next]_tokenVars
  PROVE  Inv'
<1>1. ASSUME NEW t \in Tabs, StartSignIn(t) \/ Return(t)
      PROVE  Inv'
  <2>1. NewTab \in TabType /\ Gated(t) \in TabType /\ ~Refreshing(t) /\ tokenTroubles' \in 0..MaxTroubles
    <3>1. NewTab \in TabType /\ Gated(t) \in TabType
      BY NumbersAre DEF TabType, Gated, NewTab
    <3>2. ~Refreshing(t)
      BY <1>1 DEF StartSignIn, Return, Refreshing
    <3>3. tokenTroubles' \in 0..MaxTroubles
      BY <1>1 DEF TokensAssumption, StartSignIn, Return, Inv, TypeOK
    <3> QED
      BY <3>1, <3>2, <3>3
  <2>2. CASE StartSignIn(t)
    <3>1. [NewTab EXCEPT !.at = "away"] \in TabType /\ [NewTab EXCEPT !.at = "away"].at = "away"
      BY <2>1 DEF TabType, NewTab
    <3> QED
      BY <2>1, <2>2, <3>1, QuietStep DEF StartSignIn
  <2>3. CASE Tab(t, [tabs[t] EXCEPT !.at = "exchange"]) /\ Return(t)
    <3>1. [tabs[t] EXCEPT !.at = "exchange"] \in TabType /\ [tabs[t] EXCEPT !.at = "exchange"].at = "exchange"
      BY DEF TabType, Inv, TypeOK
    <3> QED
      BY <2>1, <2>3, <3>1, QuietStep DEF Return
  <2>4. CASE Tab(t, Gated(t)) /\ Return(t)
    BY <2>1, <2>4, QuietStep DEF Return, Gated, NewTab
  <2> QED
    BY <1>1, <2>2, <2>3, <2>4 DEF Return
<1>2. ASSUME NEW t \in Tabs, ForgejoSignsIn(t)
      PROVE  Inv'
  <2>1. ~Refreshing(t)
    BY <1>2 DEF ForgejoSignsIn, Refreshing
  <2>2. CASE newest < MaxGrants
    BY <1>2, <2>1, <2>2, IssueInv DEF ForgejoSignsIn
  <2>3. CASE ~(newest < MaxGrants)
    BY <1>2, <2>1, <2>3, RefusedInv DEF ForgejoSignsIn, Inv, TypeOK
  <2> QED
    BY <2>2, <2>3
<1>3. CASE Expire \/ Withdraw
  <2>1. auth \in [n : Numbers, fresh : BOOLEAN] /\ auth.n \in Numbers
    BY DEF Inv, TypeOK
  <2>2. /\ auth'.n = auth.n /\ auth' \in [n : Numbers, fresh : BOOLEAN]
        /\ withdrawn' \subseteq Numbers /\ tokenTroubles' \in 0..MaxTroubles
        /\ UNCHANGED <<newest, lock, tabs, presented, twice, unheard>>
    <3>1. CASE Expire
      BY <2>1, <3>1 DEF Expire, Inv, TypeOK
    <3>2. CASE Withdraw
      BY <2>1, <3>2 DEF Withdraw, Inv, TypeOK, TokensAssumption
    <3> QED
      BY <1>3, <3>1, <3>2
  <2>3. TypeOK'
    BY <2>2 DEF Inv, TypeOK
  <2> QED
    BY <2>2, <2>3 DEF Inv, LockInv, FreshInv, SpentInv, TokenOnce, Refreshing, Brings
<1>4. CASE UNCHANGED tokenVars
  BY <1>4 DEF tokenVars, Inv, TypeOK, LockInv, FreshInv, SpentInv, TokenOnce, Refreshing, Brings
<1> QED
  BY <1>1, <1>2, <1>3, <1>4, PollInv, CallEndsInv, RefreshTokenInv, ForgejoRefreshesInv, RenewedInv,
     SignedInInv, AnswerLostInv
  DEF Next, TabStep

LEMMA InvHolds ==
  ASSUME TokensAssumption
  PROVE  Spec => []Inv
BY InitInv, NextInv, PTL DEF Spec

HIDE DEF Trouble, Forgejo, Ghosts

-----------------------------------------------------------------------------
(* The panel. *)

\* The numbers of the tasks a poll has read.
Ids(acc) == {a.id : a \in acc}

\* The tasks a poll has read are those since number low: none older, and all there were
\* when it began.
ReadDownTo(scan, last, low) ==
  /\ low <= last - scan.page * PageSize
  /\ \A i \in Ids(scan.acc) : i \in 1..last /\ low < i
  /\ \A i \in 1..scan.since : low < i => i \in Ids(scan.acc)

PollType == [on : BOOLEAN, page : Nat, acc : SUBSET [id : Nat, over : BOOLEAN], seen : BOOLEAN, since : Nat,
         over : BOOLEAN, status : {"unread", "failed", "none", "pending", "ended"}]

ScanRight(scan, last) ==
  /\ scan.since <= last /\ (scan.page = 0 => scan.acc = {})
  /\ \E low \in Int : ReadDownTo(scan, last, low)

TaskType == [run : Nat, job : PanelJobs]

PanelInv ==
  /\ tasks \in Seq(TaskType) /\ runs \in Nat
  /\ scans \in [1..MaxScans -> PollType]
  /\ \A k \in 1..MaxScans : ScanRight(scans[k], Len(tasks))

\* A set of task numbers has a greatest one.
LEMMA Greatest ==
  ASSUME NEW n \in Nat, NEW S \in SUBSET (1..n), S # {}
  PROVE  Panel!Max(S) \in S /\ \A i \in S : i <= Panel!Max(S)
<1> DEFINE T == {n - i : i \in S}
<1>1. T \subseteq Nat /\ T # {}
  <2>1. \A i \in S : i \in Nat /\ i <= n
    OBVIOUS
  <2>2. \A i \in S : n - i \in Nat
    BY <2>1
  <2> QED
    BY <2>2
<1>2. PICK m \in T : \A t \in T : <<t, m>> \notin OpToRel(<, Nat)
  BY <1>1, NatLessThanWellFounded, WFMin, Zenon
<1>3. PICK x \in S : m = n - x
  BY <1>2
<1>4. ASSUME NEW i \in S PROVE i <= x
  <2>1. n - i \in T /\ n - i \in Nat /\ m \in Nat
    BY <1>1, <1>2
  <2>2. ~(n - i < m)
    <3> SUFFICES ASSUME n - i < m PROVE FALSE
      OBVIOUS
    <3> DEFINE t == n - i
    <3>1. t \in T /\ t \in Nat /\ t < m
      BY <2>1
    <3> HIDE DEF t, T
    <3>2. <<t, m>> \in OpToRel(<, Nat)
      BY <2>1, <3>1, Zenon DEF OpToRel
    <3> QED
      BY <1>2, <3>1, <3>2
  <2> QED
    BY <1>3, <2>2
<1>5. \A i \in S : x >= i
  BY <1>4
<1>6. Panel!Max(S) \in S /\ \A i \in S : Panel!Max(S) >= i
  BY <1>5 DEF Panel!Max
<1> QED
  BY <1>6

\* A poll that has read nothing is as it should be.
LEMMA IdleRight == Panel!PanelAssumption => \A last \in Nat : /\ Panel!Idle \in PollType /\ [Panel!Idle EXCEPT !.on = TRUE] \in PollType
                                     /\ ScanRight(Panel!Idle, last) /\ ScanRight([Panel!Idle EXCEPT !.on = TRUE], last)
<1> SUFFICES ASSUME Panel!PanelAssumption, NEW last \in Nat
             PROVE  /\ Panel!Idle \in PollType /\ [Panel!Idle EXCEPT !.on = TRUE] \in PollType
                    /\ ScanRight(Panel!Idle, last) /\ ScanRight([Panel!Idle EXCEPT !.on = TRUE], last)
  OBVIOUS
<1>1. Panel!Idle \in PollType /\ [Panel!Idle EXCEPT !.on = TRUE] \in PollType
  BY DEF Panel!Idle, PollType
<1>2. ASSUME NEW scan, scan.page = 0, scan.acc = {}, scan.since = 0
      PROVE  ScanRight(scan, last)
  <2>1. Ids(scan.acc) = {}
    BY <1>2 DEF Ids
  <2>2. 0 * PageSize = 0
    BY DEF Panel!PanelAssumption
  <2>3. ReadDownTo(scan, last, 0)
    BY <1>2, <2>1, <2>2 DEF ReadDownTo
  <2> QED
    BY <1>2, <2>3 DEF ScanRight
<1> QED
  BY <1>1, <1>2 DEF Panel!Idle

\* What a poll has read stays so while tasks are added to the list.
LEMMA ReadStays ==
  ASSUME Panel!PanelAssumption, NEW last \in Nat, NEW scan \in PollType, ScanRight(scan, last)
  PROVE  ScanRight(scan, last + 1)
<1>1. PICK low \in Int : ReadDownTo(scan, last, low)
  BY DEF ScanRight
<1>2. scan.page * PageSize \in Nat /\ scan.since \in Nat
  BY DEF Panel!PanelAssumption, PollType
<1>3. ReadDownTo(scan, last + 1, low)
  BY <1>1, <1>2 DEF ReadDownTo
<1> QED
  BY <1>2, <1>3 DEF ScanRight

\* One more page closes up with those before it, however many tasks were added meanwhile.
LEMMA NextPage ==
  ASSUME Panel!PanelAssumption, NEW last \in Nat, NEW scan \in PollType, NEW next \in PollType, NEW page \in SUBSET (1..last),
         ScanRight(scan, last),
         \A i \in 1..last : i \in page <=> last < i + (scan.page + 1) * PageSize /\ i + scan.page * PageSize <= last,
         next.page = scan.page + 1, Ids(next.acc) = Ids(scan.acc) \cup page,
         next.since = IF scan.page = 0 THEN last ELSE scan.since
  PROVE  ScanRight(next, last)
<1>1. PICK low \in Int : ReadDownTo(scan, last, low)
  BY DEF ScanRight
<1>2. PICK size \in Nat : size = scan.page * PageSize
  BY DEF Panel!PanelAssumption, PollType
<1>3. PICK ends \in Int : ends = last - size - PageSize
  BY DEF Panel!PanelAssumption
<1>4. (scan.page + 1) * PageSize = size + PageSize
  BY <1>2 DEF Panel!PanelAssumption, PollType
<1>5. PageSize \in Nat /\ scan.page \in Nat /\ scan.since \in Nat /\ scan.since <= last
  BY DEF Panel!PanelAssumption, PollType, ScanRight
<1>6. \A i \in 1..last : i \in page <=> ends < i /\ i <= last - size
  <2> SUFFICES ASSUME NEW i \in 1..last PROVE i \in page <=> ends < i /\ i <= last - size
    OBVIOUS
  <2>1. i \in page <=> last < i + (size + PageSize) /\ i + size <= last
    BY <1>2, <1>4
  <2>2. i \in Int /\ size \in Int /\ PageSize \in Int /\ last \in Int
    BY <1>5
  <2> QED
    BY <1>3, <2>1, <2>2
<1>7. /\ low <= last - size
      /\ \A i \in Ids(scan.acc) : i \in 1..last /\ low < i
      /\ \A i \in 1..scan.since : low < i => i \in Ids(scan.acc)
  BY <1>1, <1>2 DEF ReadDownTo
<1>8. next.page # 0 /\ next.since <= last
  BY <1>5
<1>9. CASE scan.page = 0
  <2>1. Ids(next.acc) = page /\ next.since = last
    BY <1>9 DEF ScanRight, Ids
  <2>2. size = 0
    BY <1>2, <1>5, <1>9
  <2>3. ends <= last - next.page * PageSize
    BY <1>3, <1>4, <1>5
  <2>4. \A i \in 1..last : i \in page <=> ends < i
    BY <1>6, <2>2
  <2>5. \A i \in page : i \in 1..last
    OBVIOUS
  <2>6. ReadDownTo(next, last, ends)
    BY <2>1, <2>3, <2>4, <2>5 DEF ReadDownTo
  <2> QED
    BY <1>8, <2>6 DEF ScanRight
<1>10. CASE scan.page # 0
  <2>1. PICK down \in Int : down = IF ends < low THEN ends ELSE low
    OBVIOUS
  <2>2. down <= ends /\ down <= low /\ down \in {ends, low}
    BY <2>1
  <2>3. down <= last - next.page * PageSize
    BY <1>3, <1>4, <1>5, <2>2
  <2>4. ASSUME NEW i \in Ids(next.acc) PROVE i \in 1..last /\ down < i
    <3>1. CASE i \in Ids(scan.acc)
      <4>1. i \in 1..last /\ low < i
        BY <1>7, <3>1
      <4> QED
        BY <2>2, <4>1
    <3>2. CASE i \in page
      <4>1. i \in 1..last /\ ends < i
        BY <1>6, <3>2
      <4> QED
        BY <2>2, <4>1
    <3> QED
      BY <2>4, <3>1, <3>2
  <2>5. ASSUME NEW i \in 1..next.since, down < i PROVE i \in Ids(next.acc)
    <3>1. i \in 1..scan.since /\ i \in 1..last
      BY <1>5, <1>10
    <3>2. CASE low < i
      BY <1>7, <3>1, <3>2
    <3>3. CASE ~(low < i)
      <4>1. i <= last - size /\ ends < i
        BY <1>7, <2>2, <2>5, <3>1, <3>3
      <4> QED
        BY <1>6, <3>1, <4>1
    <3> QED
      BY <3>2, <3>3
  <2> QED
    BY <1>8, <2>3, <2>4, <2>5 DEF ScanRight, ReadDownTo
<1> QED
  BY <1>9, <1>10

LEMMA PanelStarts == Panel!PanelAssumption /\ Panel!Init => PanelInv
<1> SUFFICES ASSUME Panel!PanelAssumption, Panel!Init PROVE PanelInv
  OBVIOUS
<1>1. tasks = << >> /\ runs \in Nat /\ scans = [k \in 1..MaxScans |-> Panel!Idle]
  BY DEF Panel!Init
<1>2. tasks \in Seq(TaskType) /\ Len(tasks) = 0
  BY <1>1
<1> QED
  BY <1>1, <1>2, IdleRight DEF PanelInv

\* A poll whose reading does not change, whatever else of it does.
LEMMA SameReading ==
  ASSUME NEW last, NEW scan, NEW next, ScanRight(scan, last),
         next.page = scan.page, next.acc = scan.acc, next.since = scan.since
  PROVE  ScanRight(next, last)
BY DEF ScanRight, ReadDownTo

\* The list grows and no poll does anything.
LEMMA StartsKeep ==
  ASSUME Panel!PanelAssumption, PanelInv, NEW r \in Nat, NEW j \in PanelJobs, Panel!Starts(r, j)
  PROVE  PanelInv'
<1>1. tasks' = Append(tasks, [run |-> r, job |-> j]) /\ runs' = runs /\ scans' = scans
  BY DEF Panel!Starts
<1>2. [run |-> r, job |-> j] \in TaskType
  BY DEF TaskType
<1>3. tasks' \in Seq(TaskType) /\ Len(tasks') = Len(tasks) + 1 /\ Len(tasks) \in Nat
  BY <1>1, <1>2 DEF PanelInv
<1>4. \A k \in 1..MaxScans : ScanRight(scans'[k], Len(tasks'))
  BY <1>1, <1>3, ReadStays DEF PanelInv
<1> QED
  BY <1>1, <1>3, <1>4 DEF PanelInv

\* One poll changes.
LEMMA ScanKeeps ==
  ASSUME PanelInv, NEW k \in 1..MaxScans, NEW next \in PollType, ScanRight(next, Len(tasks)),
         scans' = [scans EXCEPT ![k] = next], UNCHANGED <<tasks, runs>>
  PROVE  PanelInv'
BY DEF PanelInv

\* A page adds the tasks that are on it.
LEMMA AddedIds == \A acc, page : Ids(Panel!Added(acc, page)) = Ids(acc) \cup page
<1> SUFFICES ASSUME NEW acc, NEW page PROVE Ids(Panel!Added(acc, page)) = Ids(acc) \cup page
  OBVIOUS
<1> DEFINE new == {[id |-> i, over |-> i \in ended] : i \in page \ {a.id : a \in acc}}
<1>1. {a.id : a \in new} = page \ {a.id : a \in acc}
  <2>1. ASSUME NEW i \in page \ {a.id : a \in acc} PROVE i \in {a.id : a \in new}
    <3>1. [id |-> i, over |-> i \in ended] \in new /\ [id |-> i, over |-> i \in ended].id = i
      OBVIOUS
    <3> HIDE DEF new
    <3> QED
      BY <3>1
  <2>2. ASSUME NEW a \in new PROVE a.id \in page \ {b.id : b \in acc}
    OBVIOUS
  <2> HIDE DEF new
  <2> QED
    BY <2>1, <2>2
<1> QED
  BY <1>1 DEF Ids, Panel!Added

\* The next page is read: the list may have grown since the one before.
LEMMA ReadPageKeeps ==
  ASSUME Panel!PanelAssumption, PanelInv, NEW k \in 1..MaxScans, Panel!ReadPage(k)
  PROVE  PanelInv'
<1> DEFINE scan == scans[k]
           p    == scan.page + 1
           page == Panel!PageOf(p)
           acc  == Panel!Added(scan.acc, page)
<1>1. PICK here \in BOOLEAN, done \in BOOLEAN :
        scans' = [scans EXCEPT ![k] = [scan EXCEPT !.page = p, !.acc = acc, !.seen = @ \/ here, !.over = done,
                                                   !.since = IF p = 1 THEN Len(tasks) ELSE @]]
  <2> DEFINE here == Panel!Mine({[id |-> i, over |-> FALSE] : i \in page}) # {}
             last == p * PageSize >= Len(tasks) \/ p >= MaxPages
             done == IF view = "run" THEN last \/ (scan.seen /\ ~here) ELSE last \/ here
  <2>1. here \in BOOLEAN /\ done \in BOOLEAN
    BY DEF PanelInv, PollType
  <2>2. scans' = [scans EXCEPT ![k] = [scan EXCEPT !.page = p, !.acc = acc, !.seen = @ \/ here, !.over = done,
                                                   !.since = IF p = 1 THEN Len(tasks) ELSE @]]
    BY DEF Panel!ReadPage
  <2> HIDE DEF here, done
  <2> QED
    BY <2>1, <2>2
<1>2. UNCHANGED <<tasks, runs>>
  BY DEF Panel!ReadPage, Panel!Forgejo
<1>3. scan \in PollType /\ scan.page \in Nat /\ Len(tasks) \in Nat /\ DOMAIN tasks = 1..Len(tasks) /\ ScanRight(scan, Len(tasks))
  BY DEF PanelInv, PollType
<1>4. page \in SUBSET (1..Len(tasks))
  BY <1>3 DEF Panel!PageOf
<1>5. \A i \in 1..Len(tasks) : i \in page <=>
        Len(tasks) < i + (scan.page + 1) * PageSize /\ i + scan.page * PageSize <= Len(tasks)
  <2>1. p - 1 = scan.page
    BY <1>3
  <2> QED
    BY <1>3, <2>1 DEF Panel!PageOf
<1>6. Ids(acc) = Ids(scan.acc) \cup page
  BY AddedIds
<1>7. acc \in SUBSET [id : Nat, over : BOOLEAN]
  <2>1. \A i \in page : [id |-> i, over |-> i \in ended] \in [id : Nat, over : BOOLEAN]
    BY <1>3, <1>4
  <2>2. scan.acc \subseteq [id : Nat, over : BOOLEAN]
    BY <1>3 DEF PollType
  <2> HIDE DEF page
  <2> QED
    BY <2>1, <2>2 DEF Panel!Added
<1> DEFINE next == [scan EXCEPT !.page = p, !.acc = acc, !.seen = @ \/ here, !.over = done,
                               !.since = IF p = 1 THEN Len(tasks) ELSE @]
<1> HIDE DEF page, acc
<1>8. next \in PollType
  <2>1. p \in Nat /\ (scan.seen \/ here) \in BOOLEAN /\ (IF p = 1 THEN Len(tasks) ELSE scan.since) \in Nat
    BY <1>1, <1>3 DEF PollType
  <2> HIDE DEF p
  <2> QED
    BY <1>1, <1>3, <1>7, <2>1 DEF PollType
<1>9. /\ next.page = scan.page + 1 /\ next.acc = acc
      /\ next.since = IF scan.page = 0 THEN Len(tasks) ELSE scan.since
  BY <1>3 DEF PollType
<1> HIDE DEF next
<1>10. ScanRight(next, Len(tasks))
  BY <1>3, <1>4, <1>5, <1>6, <1>8, <1>9, NextPage
<1>11. scans' = [scans EXCEPT ![k] = next]
  BY <1>1 DEF next
<1> QED
  BY <1>2, <1>8, <1>10, <1>11, ScanKeeps

\* Every step of the page and of Forgejo keeps the invariant.
LEMMA PanelStep ==
  ASSUME Panel!PanelAssumption, PanelInv, [Panel!Next]_Panel!panelVars
  PROVE  PanelInv'
<1>0. Len(tasks) \in Nat
  BY DEF PanelInv
<1>1. CASE Panel!CreateRun
  BY <1>1 DEF Panel!CreateRun, PanelInv
<1>2. CASE Panel!StartTask
  BY <1>2, StartsKeep DEF Panel!StartTask, Panel!Unstarted, PanelInv
<1>3. CASE Panel!MoreTasks
  BY <1>3, StartsKeep DEF Panel!MoreTasks, PanelInv
<1>4. CASE Panel!EndTask
  BY <1>4 DEF Panel!EndTask, PanelInv
<1>5. ASSUME NEW k \in 1..MaxScans, Panel!Starting(k)
      PROVE  PanelInv'
  BY <1>0, <1>5, IdleRight, ScanKeeps DEF Panel!Starting, Panel!Forgejo
<1>6. CASE Panel!Attempt
  <2>1. CASE 1 \in 1..MaxScans
    BY <1>5, <1>6, <2>1 DEF Panel!Attempt
  <2>2. CASE 1 \notin 1..MaxScans
    BY <1>6, <2>2 DEF Panel!Attempt, Panel!Starting, PanelInv, Panel!Forgejo
  <2> QED
    BY <2>1, <2>2
<1>7. ASSUME NEW k \in 1..MaxScans, Panel!Poll(k)
      PROVE  PanelInv'
  BY <1>5, <1>7 DEF Panel!Poll
<1>8. ASSUME NEW k \in 1..MaxScans, Panel!PageFails(k)
      PROVE  PanelInv'
  <2>1. [scans[k] EXCEPT !.over = TRUE] \in PollType
    BY DEF PanelInv, PollType
  <2>2. ScanRight([scans[k] EXCEPT !.over = TRUE], Len(tasks))
    BY SameReading DEF PanelInv, PollType
  <2> QED
    BY <1>8, <2>1, <2>2, ScanKeeps DEF Panel!PageFails, Panel!Forgejo
<1>9. ASSUME NEW k \in 1..MaxScans, Panel!ReadStatus(k)
      PROVE  PanelInv'
  <2>1. PICK status \in {"failed", "none", "pending", "ended"} : scans' = [scans EXCEPT ![k] = [scans[k] EXCEPT !.status = status]]
    BY <1>9 DEF Panel!ReadStatus, Panel!CommitStatus
  <2>2. [scans[k] EXCEPT !.status = status] \in PollType
    BY DEF PanelInv, PollType
  <2>3. ScanRight([scans[k] EXCEPT !.status = status], Len(tasks))
    BY SameReading DEF PanelInv, PollType
  <2> QED
    BY <1>9, <2>1, <2>2, <2>3, ScanKeeps DEF Panel!ReadStatus, Panel!Forgejo
<1>10. ASSUME NEW k \in 1..MaxScans, Panel!Answered(k)
       PROVE  PanelInv'
  <2>1. Panel!Finish(k) /\ UNCHANGED <<tasks, runs>>
    BY <1>10 DEF Panel!Answered, Panel!Render, Panel!RenderFlat, Panel!NothingFound, Panel!Follow, Panel!FollowTimes, Panel!Forgejo
  <2> QED
    BY <1>0, <2>1, IdleRight, ScanKeeps DEF Panel!Finish
<1>11. CASE UNCHANGED Panel!panelVars
  BY <1>11 DEF Panel!panelVars, PanelInv
<1> QED
  BY <1>1, <1>2, <1>3, <1>4, <1>6, <1>7, <1>8, <1>9, <1>10, <1>11, ReadPageKeeps DEF Panel!Next, Panel!ScanStep

\* A row is the newest task of its job among those the poll has read, and older ones than
\* the row are all it has not read.
LEMMA RowsFollow ==
  ASSUME PanelInv
  PROVE  Panel!RowsNewest
<1> SUFFICES ASSUME NEW k \in 1..MaxScans, NEW entry \in Panel!NewestRows(scans[k].acc),
                    NEW n \in Panel!TasksOf(tasks[entry.id].run, tasks[entry.id].job), n <= scans[k].since
             PROVE  n <= entry.id
  BY DEF Panel!RowsNewest
<1> DEFINE acc  == scans[k].acc
           mine == Panel!Mine(acc)
           lastRun == Panel!Max({tasks[a.id].run : a \in mine})
           ofRun(j) == {a \in mine : tasks[a.id].run = lastRun /\ tasks[a.id].job = j}
           ids(j) == {b.id : b \in ofRun(j)}
<1>1. PICK j \in PanelJobs : entry \in ofRun(j) /\ entry.id = Panel!Max(ids(j))
  BY DEF Panel!NewestRows, Panel!NewestOf
<1>2. PICK low \in Int : ReadDownTo(scans[k], Len(tasks), low)
  BY DEF PanelInv, ScanRight
<1>3. /\ acc \subseteq [id : Nat, over : BOOLEAN] /\ mine \subseteq acc /\ Len(tasks) \in Nat /\ DOMAIN tasks = 1..Len(tasks)
      /\ scans[k].since \in Nat
  BY DEF PanelInv, PollType, Panel!Mine
<1>4. entry \in acc /\ entry \in mine /\ tasks[entry.id].run = lastRun /\ tasks[entry.id].job = j
  BY <1>1, <1>3
<1>5. entry.id \in 1..Len(tasks) /\ low < entry.id
  BY <1>2, <1>4 DEF ReadDownTo, Ids
<1>6. n \in 1..Len(tasks) /\ tasks[n].run = tasks[entry.id].run /\ tasks[n].job = tasks[entry.id].job
  BY <1>3 DEF Panel!TasksOf
<1> HIDE DEF lastRun
<1>7. CASE n \in Ids(acc)
  <2>1. PICK b \in acc : b.id = n
    BY <1>7 DEF Ids
  <2>2. b \in mine
    BY <1>4, <1>6, <2>1 DEF Panel!Mine
  <2>3. b \in ofRun(j)
    BY <1>4, <1>6, <2>1, <2>2
  <2>4. n \in ids(j)
    BY <2>1, <2>3
  <2>5. ids(j) \in SUBSET (1..Len(tasks))
    BY <1>2, <1>3 DEF ReadDownTo, Ids
  <2> HIDE DEF ids
  <2> QED
    BY <1>1, <1>3, <2>4, <2>5, Greatest
<1>8. CASE n \notin Ids(acc)
  <2>1. n \in 1..scans[k].since
    BY <1>3, <1>6
  <2>2. ~(low < n)
    BY <1>2, <1>8, <2>1 DEF ReadDownTo
  <2> QED
    BY <1>2, <1>5, <1>6, <2>2
<1> QED
  BY <1>7, <1>8

\* The invariant holds throughout.
LEMMA PanelHolds ==
  ASSUME Panel!PanelAssumption
  PROVE  Panel!Spec => []Panel!RowsNewest
BY PanelStarts, PanelStep, RowsFollow, PTL DEF Panel!Spec

-----------------------------------------------------------------------------
(* The inventory. *)

LEMMA InitTyped == ASSUME Inventory!InventoryAssumption PROVE Inventory!Init => Inventory!TypeOK
BY DEF Inventory!InventoryAssumption, Inventory!Init, Inventory!TypeOK, Inventory!NoBoard, Inventory!Unlisted

LEMMA StepTyped ==
  ASSUME Inventory!InventoryAssumption, Inventory!TypeOK, [Inventory!Next]_Inventory!inventoryVars
  PROVE  Inventory!TypeOK'
<1>1. CASE Inventory!ListOrgRepositories
  BY <1>1 DEF Inventory!ListOrgRepositories, Inventory!TypeOK, Inventory!Visible, Inventory!World, Inventory!Unlisted
<1>2. CASE Inventory!LatestReleases
  BY <1>2 DEF Inventory!LatestReleases, Inventory!TypeOK, Inventory!World
<1>3. CASE Inventory!Scan
  BY <1>3 DEF Inventory!Scan, Inventory!ScanRepository, Inventory!Listed, Inventory!TypeOK, Inventory!World
<1>4. CASE Inventory!ReadUpdateStatuses
  BY <1>4 DEF Inventory!ReadUpdateStatuses, Inventory!ReadUpdate, Inventory!Listed, Inventory!HasUpdates, Inventory!TypeOK, Inventory!World
<1>5. CASE Inventory!Push
  BY <1>5 DEF Inventory!Push, Inventory!Ends, Inventory!TypeOK, Inventory!World, Inventory!Unlisted
<1>6. CASE Inventory!RunFails
  BY <1>6 DEF Inventory!RunFails, Inventory!Ends, Inventory!TypeOK, Inventory!World, Inventory!Unlisted
<1>7. CASE Inventory!Change
  BY <1>7 DEF Inventory!InventoryAssumption, Inventory!Change, Inventory!TypeOK
<1>8. CASE UNCHANGED Inventory!inventoryVars
  BY <1>8 DEF Inventory!inventoryVars, Inventory!TypeOK
<1> QED
  BY <1>1, <1>2, <1>3, <1>4, <1>5, <1>6, <1>7, <1>8 DEF Inventory!Next, Inventory!RunStep

\* A repository of which nothing could be read.
UnreadOf(r) == [Inventory!ReadOf(r, Inventory!Unread) EXCEPT !.gate = FALSE, !.pins = [p \in Packages |-> Inventory!Unread]]

\* What a run has read is what the repositories hold while it goes on.
ReadInv ==
  /\ step # "idle" => active = Repositories
  /\ \A r \in DOMAIN reads :
       reads[r] \in {Inventory!ReadOf(r, facts[r].dashboard), Inventory!ReadOf(r, Inventory!DashboardUnread), UnreadOf(r)}
  /\ \A r \in DOMAIN updates : updates[r] \in {Inventory!Unread, Inventory!TrueUpdate(r)}
  /\ step = "idle" => DOMAIN reads = {} /\ DOMAIN updates = {}
  /\ step \in {"updates", "push"} => active \subseteq DOMAIN reads

LEMMA InitRead == Inventory!Init => ReadInv
BY DEF Inventory!Init, ReadInv, Inventory!Unlisted

\* A run reads one thing after the other, and the repositories rest meanwhile.
LEMMA StepRead ==
  ASSUME Inventory!InventoryAssumption, Inventory!TypeOK, ReadInv, [Inventory!Next]_Inventory!inventoryVars
  PROVE  ReadInv'
<1>1. CASE Inventory!ListOrgRepositories
  BY <1>1 DEF Inventory!ListOrgRepositories, ReadInv, Inventory!Credible, Inventory!Visible, Inventory!Unlisted
<1>2. CASE Inventory!LatestReleases
  BY <1>2 DEF Inventory!LatestReleases, ReadInv, Inventory!World, Inventory!ReadOf, UnreadOf, Inventory!TrueUpdate
<1>3. ASSUME NEW r \in active, Inventory!ScanRepository(r)
      PROVE  ReadInv'
  <2>1. /\ facts' = facts /\ step' = step /\ active' = active /\ updates' = updates
        /\ step = "scan" /\ r \notin DOMAIN reads
    BY <1>3 DEF Inventory!ScanRepository, Inventory!World
  <2>2. PICK value \in {Inventory!ReadOf(r, facts[r].dashboard), Inventory!ReadOf(r, Inventory!DashboardUnread), UnreadOf(r)} : reads' = Inventory!Listed(reads, r, value)
    BY <1>3 DEF Inventory!ScanRepository, UnreadOf
  <2>3. DOMAIN reads' = DOMAIN reads \cup {r} /\ \A x \in DOMAIN reads' : reads'[x] = IF x = r THEN value ELSE reads[x]
    BY <2>2 DEF Inventory!Listed
  <2>4. \A x \in DOMAIN reads' : reads'[x] \in {Inventory!ReadOf(x, facts[x].dashboard), Inventory!ReadOf(x, Inventory!DashboardUnread), UnreadOf(x)}
    BY <2>2, <2>3 DEF ReadInv
  <2>5. \A x \in DOMAIN reads' : reads'[x] \in {Inventory!ReadOf(x, facts[x].dashboard)', Inventory!ReadOf(x, Inventory!DashboardUnread)', UnreadOf(x)'}
    BY <2>1, <2>4 DEF Inventory!ReadOf, UnreadOf, Inventory!DashboardUnread
  <2> QED
    BY <2>1, <2>3, <2>5 DEF ReadInv, Inventory!TrueUpdate
<1>4. CASE Inventory!Scan
  <2>1. CASE \E r \in active : Inventory!ScanRepository(r)
    BY <2>1, <1>3
  <2>2. CASE /\ step = "scan" /\ active \subseteq DOMAIN reads /\ step' = "updates"
             /\ UNCHANGED <<Inventory!World, active, latest, reads, updates, board, inventoryTroubles>>
    BY <2>2 DEF ReadInv, Inventory!World, Inventory!ReadOf, UnreadOf, Inventory!TrueUpdate, Inventory!DashboardUnread
  <2> QED
    BY <1>4, <2>1, <2>2 DEF Inventory!Scan
<1>9. ASSUME NEW r \in active, Inventory!ReadUpdate(r)
      PROVE  ReadInv'
  <2>1. /\ facts' = facts /\ step' = step /\ active' = active /\ reads' = reads
        /\ step = "updates" /\ r \in Inventory!HasUpdates
    BY <1>9 DEF Inventory!ReadUpdate, Inventory!World
  <2>2. r \in DOMAIN reads /\ reads[r].dashboard # Inventory!Unread
    BY <2>1 DEF ReadInv, Inventory!HasUpdates
  <2>3. reads[r].dashboard = facts[r].dashboard
    <3>1. UnreadOf(r).dashboard = Inventory!Unread /\ Inventory!ReadOf(r, Inventory!DashboardUnread).dashboard = Inventory!Unread
          /\ Inventory!ReadOf(r, facts[r].dashboard).dashboard = facts[r].dashboard
      BY DEF UnreadOf, Inventory!ReadOf, Inventory!DashboardUnread
    <3> QED
      BY <2>2, <3>1 DEF ReadInv
  <2>4. PICK value \in {Inventory!Unread, Inventory!TrueUpdate(r)} : updates' = Inventory!Listed(updates, r, value)
    BY <1>9, <2>3 DEF Inventory!ReadUpdate, Inventory!TrueUpdate
  <2>5. \A x \in DOMAIN updates' : updates'[x] \in {Inventory!Unread, Inventory!TrueUpdate(x)}
    BY <2>4 DEF ReadInv, Inventory!Listed
  <2> QED
    BY <2>1, <2>5 DEF ReadInv, Inventory!TrueUpdate, Inventory!ReadOf, UnreadOf, Inventory!DashboardUnread
<1>10. CASE Inventory!ReadUpdateStatuses
  <2>1. CASE \E r \in active : Inventory!ReadUpdate(r)
    BY <2>1, <1>9
  <2>2. CASE /\ step = "updates" /\ Inventory!HasUpdates \subseteq DOMAIN updates /\ step' = "push"
             /\ UNCHANGED <<Inventory!World, active, latest, reads, updates, board, inventoryTroubles>>
    BY <2>2 DEF ReadInv, Inventory!World, Inventory!ReadOf, UnreadOf, Inventory!TrueUpdate, Inventory!DashboardUnread
  <2> QED
    BY <1>10, <2>1, <2>2 DEF Inventory!ReadUpdateStatuses
<1>5. CASE Inventory!Push
  BY <1>5 DEF Inventory!Push, Inventory!Ends, ReadInv, Inventory!Unlisted
<1>6. CASE Inventory!RunFails
  BY <1>6 DEF Inventory!RunFails, Inventory!Ends, ReadInv, Inventory!Unlisted
<1>7. CASE Inventory!Change
  BY <1>7 DEF Inventory!Change, ReadInv
<1>8. CASE UNCHANGED Inventory!inventoryVars
  BY <1>8 DEF Inventory!inventoryVars, ReadInv, Inventory!ReadOf, UnreadOf, Inventory!TrueUpdate
<1> QED
  BY <1>1, <1>2, <1>4, <1>5, <1>6, <1>7, <1>8, <1>10 DEF Inventory!Next, Inventory!RunStep

\* A repository whose files were read has the verdict that its files ask for.
LEMMA VerdictTrue ==
  ASSUME Inventory!InventoryAssumption, Inventory!TypeOK, ReadInv, step = "push", latest = Packages, NEW r \in active
  PROVE  Inventory!ControlState(r) \in {Inventory!Unread, Inventory!TrueVerdict(r)}
<1>1. reads[r] \in {Inventory!ReadOf(r, facts[r].dashboard), Inventory!ReadOf(r, Inventory!DashboardUnread), UnreadOf(r)}
  BY DEF ReadInv
<1>2. CASE ~Inventory!Scanned(r)
  BY <1>2 DEF Inventory!ControlState
<1>3. CASE Inventory!Scanned(r)
  <2>1. \E p \in Packages : TRUE
    BY DEF Inventory!InventoryAssumption
  <2>2. reads[r] # UnreadOf(r)
    BY <1>3, <2>1 DEF Inventory!Scanned, UnreadOf, Inventory!ReadOf
  <2>3. /\ reads[r].gate = facts[r].gate /\ reads[r].pins = facts[r].pins
        /\ reads[r].dashboard \in {facts[r].dashboard, Inventory!Unread}
    BY <1>1, <2>2 DEF Inventory!ReadOf, Inventory!DashboardUnread
  <2>4. (\E p \in Inventory!BehindPackages(r) : reads[r].pins[p] = "old") <=> \E p \in Packages : facts[r].pins[p] = "old"
    BY <1>3, <2>3 DEF Inventory!BehindPackages, Inventory!Behind
  <2> QED
    BY <1>3, <2>3, <2>4 DEF Inventory!ControlState, Inventory!TrueVerdict, Inventory!Verdict
<1> QED
  BY <1>2, <1>3

\* Only a push changes the board, and it pushes what the repositories hold.
LEMMA BoardHolds ==
  ASSUME Inventory!InventoryAssumption
  PROVE  Inventory!Spec => Inventory!BoardIsRight
<1>1. ASSUME Inventory!TypeOK, ReadInv, [Inventory!Next]_Inventory!inventoryVars, board' # board
      PROVE  /\ DOMAIN board'.verdicts = Repositories
             /\ board'.releases = Packages =>
                  /\ \A r \in Repositories : board'.verdicts[r] \in {Inventory!Unread, Inventory!TrueVerdict(r)}
                  /\ \A r \in DOMAIN board'.updates : board'.updates[r] \in {Inventory!Unread, Inventory!TrueUpdate(r)}
  <2>1. Inventory!Push
    BY <1>1 DEF Inventory!Next, Inventory!RunStep, Inventory!ListOrgRepositories, Inventory!LatestReleases, Inventory!Scan,
       Inventory!ScanRepository, Inventory!ReadUpdateStatuses, Inventory!ReadUpdate, Inventory!RunFails, Inventory!Change, Inventory!inventoryVars
  <2>2. /\ active = Repositories /\ step = "push"
        /\ board' = [verdicts |-> [r \in active |-> Inventory!ControlState(r)], updates |-> updates, releases |-> latest]
    BY <1>1, <2>1 DEF Inventory!Push, ReadInv
  <2>3. latest = Packages => \A r \in active : Inventory!ControlState(r) \in {Inventory!Unread, Inventory!TrueVerdict(r)}
    BY <1>1, <2>2, VerdictTrue
  <2> QED
    BY <1>1, <2>2, <2>3 DEF ReadInv
<1>2. Inventory!Spec => [](Inventory!TypeOK /\ ReadInv)
  BY InitTyped, StepTyped, InitRead, StepRead, PTL DEF Inventory!Spec
<1>3. Inventory!TypeOK /\ ReadInv /\ [Inventory!Next]_Inventory!inventoryVars =>
        [board' # board =>
           /\ DOMAIN board'.verdicts = Repositories
           /\ board'.releases = Packages =>
                /\ \A r \in Repositories : board'.verdicts[r] \in {Inventory!Unread, Inventory!TrueVerdict(r)}
                /\ \A r \in DOMAIN board'.updates : board'.updates[r] \in {Inventory!Unread, Inventory!TrueUpdate(r)}]_board
  BY <1>1
<1> QED
  BY <1>2, <1>3, PTL DEF Inventory!Spec, Inventory!BoardIsRight

-----------------------------------------------------------------------------
(* The theorems. *)

\* A step of one reader leaves the variables of the others alone: a behaviour of all is
\* one of each.
LEMMA EachRuns == PagesSpec => Spec /\ Panel!Spec /\ Inventory!Spec
<1>1. PagesInit => Init /\ Panel!Init /\ Inventory!Init
  BY DEF PagesInit, Starts
<1>2. ASSUME [PagesNext]_allVars
      PROVE  [Next]_tokenVars /\ [Panel!Next]_Panel!panelVars /\ [Inventory!Next]_Inventory!inventoryVars
  <2>1. UNCHANGED tokenVars => [Next]_tokenVars
    OBVIOUS
  <2>2. UNCHANGED panelVars => [Panel!Next]_Panel!panelVars
    BY DEF panelVars, Panel!panelVars
  <2>3. UNCHANGED inventoryVars => [Inventory!Next]_Inventory!inventoryVars
    BY DEF inventoryVars, Inventory!inventoryVars
  <2>4. CASE PagesNext
    BY <2>1, <2>2, <2>3, <2>4 DEF PagesNext, Others
  <2>5. CASE UNCHANGED allVars
    BY <2>1, <2>2, <2>3, <2>5 DEF allVars
  <2> QED
    BY <1>2, <2>4, <2>5
<1> QED
  BY <1>1, <1>2, PTL DEF PagesSpec, Spec, Panel!Spec, Inventory!Spec

\* Every variable of the page's sign-in, its tabs and the grant holds values of its kind.
THEOREM TokensTyped ==
  ASSUME TokensAssumption
  PROVE  Spec => []TypeOK
BY InvHolds, PTL DEF Inv

\* No tab presents a refresh token again, unless the answer to its first use never
\* came: for any number of tabs, sign-ins and lost answers.
THEOREM SpentOnce ==
  ASSUME TokensAssumption
  PROVE  PagesSpec => []TokenOnce
BY InvHolds, EachRuns, PTL DEF Inv

\* No Stop is sent for a click that was aimed at Re-run, nor the other way round: a button
\* that has just changed takes no click, and the two clicks of a Stop are of one button.
THEOREM ClicksLand == PagesSpec => [](reader = "actions" => Actions!ClickLands)
<1>1. PagesInit => Actions!ClickLands
  BY DEF PagesInit, Starts, Actions!Init, Actions!ClickLands
<1>2. ASSUME Actions!ClickLands, [PagesNext]_allVars
      PROVE  Actions!ClickLands'
  <2>1. CASE UNCHANGED actionVars
    BY <1>2, <2>1 DEF actionVars, Actions!ClickLands
  <2>2. CASE Actions!Next
    <3>1. CASE Actions!Click
      <4>1. PICK aim \in Actions!Aims : missed' = missed \/ (~fresh /\ missed' = (missed \/ button # aim))
        BY <3>1 DEF Actions!Click, Actions!Perform, Actions!JustFlipped
      <4> QED
        BY <1>2, <4>1 DEF Actions!Aims, Actions!ClickLands
    <3>2. CASE ~Actions!Click
      <4>1. missed' = missed
        BY <2>2, <3>2 DEF Actions!Next, Actions!PageStep, Actions!Progress, Actions!Learn, Actions!OtherChange, Actions!Poll,
           Actions!PollEnds, Actions!Render, Actions!Take, Actions!Answered, Actions!PollFails, Actions!HoldEnds,
           Actions!GuardEnds, Actions!ConfirmTime
      <4> QED
        BY <1>2, <4>1 DEF Actions!ClickLands
    <3> QED
      BY <3>1, <3>2
  <2> QED
    BY <1>2, <2>1, <2>2 DEF PagesNext, Others, allVars
<1> QED
  BY <1>1, <1>2, PTL DEF PagesSpec

\* A row is never that of a task which was already an old attempt when the poll began: for
\* any page size, any number of tasks and of polls at a time, while jobs start and are run
\* again between the pages.
THEOREM RowsAreNewest ==
  ASSUME Panel!PanelAssumption
  PROVE  PagesSpec => []RowsNewest
BY PanelHolds, EachRuns, PTL DEF RowsNewest

\* What is pushed to the board has a verdict for every repository, and no verdict or update
\* state is untrue of its repository, whichever reads failed; unless the releases of a
\* package are among them.
THEOREM BoardTrue ==
  ASSUME Inventory!InventoryAssumption
  PROVE  PagesSpec => BoardIsRight
BY BoardHolds, EachRuns, PTL DEF BoardIsRight
=============================================================================
