---------------------------- MODULE ConsoleTokens ----------------------------
(***************************************************************************)
(* The tokens of the CI console's page                                     *)
(* (src/kubernetes/apps/forgejo/forgejo/app/custom/wg-ci.js).  Every tab   *)
(* reads them from localStorage; whoever needs a new access token refreshes *)
(* them under a Web Lock, and a tab that comes back from Forgejo's         *)
(* authorize screen exchanges its code for new ones, without that lock.    *)
(*                                                                         *)
(* Tokens come in pairs, numbered; 0 is none.  Forgejo is external: it     *)
(* honours the newest refresh token of the grant only, once, and an access *)
(* token until it is withdrawn.  A request, what Forgejo makes of it, and  *)
(* its answer are three steps.                                             *)
(***************************************************************************)
EXTENDS Naturals, FiniteSets

CONSTANTS
  Tabs, NoTab,
  MaxGrants,     \* bound: tokens Forgejo issues
  MaxTroubles    \* bound: answers lost, tabs closed, tokens withdrawn, refusals

TokensAssumption == MaxGrants \in Nat \ {0} /\ MaxTroubles \in Nat /\ NoTab \notin Tabs

VARIABLES
  auth,       \* localStorage: the tokens, and that they are not about to expire
  newest,     \* Forgejo: the newest tokens of the grant
  withdrawn,  \* access tokens that Forgejo refuses
  lock,       \* the tab that holds wg-ci-token
  tabs,
  presented,  \* refresh tokens Forgejo has been sent
  twice,      \* and those it has been sent again
  unheard,    \* those whose answer never came
  tokenTroubles

tokenVars == <<auth, newest, withdrawn, lock, tabs, presented, twice, unheard, tokenTroubles>>

Numbers == 0..MaxGrants
NoAuth  == [n |-> 0, fresh |-> FALSE]

\* `token` is the access token in use or refused, `refresh` the one presented, `got`
\* what Forgejo answers: a number, or 0 for a refusal.
NewTab == [at |-> "idle", gated |-> FALSE, token |-> 0, retried |-> FALSE, refresh |-> 0, got |-> 0]

Init ==
  /\ auth \in {NoAuth, [n |-> 1, fresh |-> TRUE]}
  /\ newest = 1 /\ withdrawn = {} /\ lock = NoTab
  /\ tabs = [t \in Tabs |-> [NewTab EXCEPT !.gated = (auth = NoAuth)]]
  /\ presented = {} /\ twice = {} /\ unheard = {} /\ tokenTroubles = 0

Trouble == tokenTroubles < MaxTroubles /\ tokenTroubles' = tokenTroubles + 1

Forgejo == <<newest, withdrawn>>
Ghosts  == <<presented, twice, unheard>>

Tab(t, r)   == tabs' = [tabs EXCEPT ![t] = r]
Gated(t)    == [NewTab EXCEPT !.gated = TRUE]
Calls(t, n) == [tabs[t] EXCEPT !.at = "call", !.token = n, !.refresh = 0, !.got = 0]

-----------------------------------------------------------------------------
(* Calls: accessToken, then the request, and once more after a 401. *)

\* A tab polls unless it shows its gate.
Poll(t) ==
  /\ tabs[t].at = "idle" /\ ~tabs[t].gated
  /\ Tab(t, IF auth.n # 0 /\ auth.fresh THEN [Calls(t, auth.n) EXCEPT !.retried = FALSE]
            ELSE [tabs[t] EXCEPT !.at = "wait", !.token = auth.n, !.retried = FALSE])
  /\ UNCHANGED <<auth, Forgejo, lock, Ghosts, tokenTroubles>>

CallEnds(t) ==
  /\ tabs[t].at = "call"
  /\ Tab(t, IF tabs[t].token \notin withdrawn THEN NewTab
            ELSE IF tabs[t].retried THEN Gated(t)
            ELSE [tabs[t] EXCEPT !.at = "wait", !.retried = TRUE])
  /\ UNCHANGED <<auth, Forgejo, lock, Ghosts, tokenTroubles>>

-----------------------------------------------------------------------------
(* refreshToken. *)

\* Mutant: a browser without Web Locks.
NoLocks == TRUE

LockFree == lock = NoTab

\* Under the lock the tokens are read again: another tab may have renewed them.
RefreshToken(t) ==
  /\ tabs[t].at = "wait" /\ LockFree
  /\ IF auth.n # tabs[t].token /\ auth.fresh
     THEN Tab(t, Calls(t, auth.n)) /\ UNCHANGED <<lock, Ghosts>>
     ELSE IF auth.n = 0 THEN Tab(t, Gated(t)) /\ UNCHANGED <<lock, Ghosts>>
     ELSE /\ lock' = t
          /\ Tab(t, [tabs[t] EXCEPT !.at = "refresh", !.refresh = auth.n])
          /\ presented' = presented \cup {auth.n}
          /\ twice' = twice \cup (presented \cap {auth.n})
          /\ UNCHANGED unheard
  /\ UNCHANGED <<auth, Forgejo, tokenTroubles>>

\* Forgejo: the newest refresh token is spent for the next one.
Issue(t, to) ==
  /\ newest < MaxGrants /\ newest' = newest + 1
  /\ Tab(t, [tabs[t] EXCEPT !.at = to, !.got = newest'])

ForgejoRefreshes(t) ==
  /\ tabs[t].at = "refresh"
  /\ \/ tabs[t].refresh = newest /\ Issue(t, "renewed") /\ UNCHANGED tokenTroubles
     \/ /\ tabs[t].refresh # newest \/ newest = MaxGrants
        /\ Tab(t, [tabs[t] EXCEPT !.at = "renewed", !.got = 0]) /\ UNCHANGED <<newest, tokenTroubles>>
     \/ \* A restarting Forgejo answers 502.
        Trouble /\ Tab(t, [tabs[t] EXCEPT !.at = "renewed", !.got = 0]) /\ UNCHANGED newest
  /\ UNCHANGED <<auth, withdrawn, lock, Ghosts>>

\* tokenRequest: an answer that is not ok takes the tokens away, from every tab.
Stored(n) == IF n = 0 THEN NoAuth ELSE [n |-> n, fresh |-> TRUE]

Renewed(t) ==
  /\ tabs[t].at = "renewed"
  /\ auth' = Stored(tabs[t].got) /\ lock' = NoTab
  /\ Tab(t, IF tabs[t].got = 0 THEN Gated(t) ELSE Calls(t, tabs[t].got))
  /\ UNCHANGED <<Forgejo, Ghosts, tokenTroubles>>

\* The answer is lost, or the tab is closed (and opened again): the lock is free, the
\* tokens stay as they are.
AnswerLost(t) ==
  /\ tabs[t].at \in {"refresh", "renewed"} /\ Trouble
  /\ unheard' = unheard \cup {tabs[t].refresh} /\ lock' = NoTab
  /\ Tab(t, [NewTab EXCEPT !.gated = (auth.n = 0)])
  /\ UNCHANGED <<auth, Forgejo, presented, twice>>

-----------------------------------------------------------------------------
(* Signing in. *)

\* startSignIn: the tab goes to Forgejo; what it awaited is gone with its page.
StartSignIn(t) ==
  /\ tabs[t].at = "idle" /\ tabs[t].gated /\ newest < MaxGrants
  /\ Tab(t, [NewTab EXCEPT !.at = "away"])
  /\ UNCHANGED <<auth, Forgejo, lock, Ghosts, tokenTroubles>>

\* finishSignIn, up to its request; or the user says no, or the answer is an old one.
Return(t) ==
  /\ tabs[t].at = "away"
  /\ \/ Tab(t, [tabs[t] EXCEPT !.at = "exchange"]) /\ UNCHANGED tokenTroubles
     \/ Trouble /\ Tab(t, Gated(t))
  /\ UNCHANGED <<auth, Forgejo, lock, Ghosts>>

ForgejoSignsIn(t) ==
  /\ tabs[t].at = "exchange"
  /\ IF newest < MaxGrants THEN Issue(t, "signed")
     ELSE Tab(t, [tabs[t] EXCEPT !.at = "signed", !.got = 0]) /\ UNCHANGED newest
  /\ UNCHANGED <<auth, withdrawn, lock, Ghosts, tokenTroubles>>

\* The tokens are stored whatever another tab does with those that were there.
SignedIn(t) ==
  /\ tabs[t].at = "signed"
  /\ auth' = Stored(tabs[t].got)
  /\ Tab(t, IF tabs[t].got = 0 THEN Gated(t) ELSE NewTab)
  /\ UNCHANGED <<Forgejo, lock, Ghosts, tokenTroubles>>

-----------------------------------------------------------------------------
(* Time, and Forgejo. *)

\* The access token is about to expire.
Expire ==
  /\ auth.fresh /\ newest < MaxGrants
  /\ auth' = [auth EXCEPT !.fresh = FALSE]
  /\ UNCHANGED <<Forgejo, lock, tabs, Ghosts, tokenTroubles>>

\* Forgejo no longer accepts it.
Withdraw ==
  /\ auth.n # 0 /\ auth.n \notin withdrawn /\ Trouble
  /\ withdrawn' = withdrawn \cup {auth.n}
  /\ UNCHANGED <<auth, newest, lock, tabs, Ghosts>>

TabStep(t) ==
  \/ Poll(t) \/ CallEnds(t) \/ RefreshToken(t) \/ ForgejoRefreshes(t) \/ Renewed(t)
  \/ ForgejoSignsIn(t) \/ SignedIn(t)

Next ==
  \/ \E t \in Tabs : TabStep(t) \/ AnswerLost(t) \/ StartSignIn(t) \/ Return(t)
  \/ Expire \/ Withdraw

Works(t) == CallEnds(t) \/ ForgejoRefreshes(t) \/ Renewed(t)

Spec == Init /\ [][Next]_tokenVars

\* Requests are answered, and a lock that is free is given to a tab that waits.
FairSpec ==
  /\ Spec
  /\ \A t \in Tabs : WF_tokenVars(Works(t)) /\ SF_tokenVars(RefreshToken(t))

-----------------------------------------------------------------------------
(* Properties. *)

TypeOK ==
  /\ auth \in [n : Numbers, fresh : BOOLEAN] /\ newest \in Numbers
  /\ withdrawn \subseteq Numbers /\ lock \in Tabs \cup {NoTab}
  /\ tabs \in [Tabs -> [at : {"idle", "call", "wait", "refresh", "renewed", "away", "exchange", "signed"},
                        gated : BOOLEAN, token : Numbers, retried : BOOLEAN, refresh : Numbers, got : Numbers]]
  /\ twice \subseteq presented /\ presented \subseteq Numbers /\ unheard \subseteq presented
  /\ tokenTroubles \in 0..MaxTroubles

\* "Several open tabs never spend the same single-use refresh token twice": a token is
\* presented again only if the answer to its first use never came, although a sign-in
\* may put new tokens in its place at any moment.
TokenOnce == twice \subseteq unheard

\* Once no token expires any more, no tab is left waiting for the lock or for Forgejo.
Settled == \A t \in Tabs : tabs[t].at \notin {"wait", "refresh", "renewed"}

\* Nobody is signed out but by Forgejo: does not hold, because the exchange of a code
\* does not take the lock.  A refresh that Forgejo has answered before it may be stored
\* after it, and one that comes after it is refused and takes the new tokens away.
SignInStays ==
  [][auth'.n = 0 => tokenTroubles > 0 \/ newest = MaxGrants]_auth
=============================================================================
