---------------------------- MODULE ReleaseShelf ----------------------------
(***************************************************************************)
(* What the release copier promises to those who look at the GitHub        *)
(* mirror: releases appear one at a time, with all their assets, and stay  *)
(* as they are; "latest" only moves to a newer stable release.  A release  *)
(* may be taken back by the run that put it there, as long as that run     *)
(* does not know whether it did.                                           *)
(***************************************************************************)
EXTENDS Naturals

CONSTANTS Items, None

VARIABLES
  shelf,   \* what is shown: "none", "pre" or "stable"
  badge,   \* the release shown as latest
  doubt    \* the release whose publication was not confirmed

shelfVars == <<shelf, badge, doubt>>

Init == shelf = [r \in Items |-> "none"] /\ badge = None /\ doubt = None

\* A release appears; a prerelease, or one older than latest, does not get the badge.
Show ==
  \E r \in Items, kind \in {"pre", "stable"} :
    /\ shelf[r] = "none" /\ shelf' = [shelf EXCEPT ![r] = kind]
    /\ \/ UNCHANGED badge
       \/ kind = "stable" /\ (badge = None \/ badge < r) /\ badge' = r
    /\ doubt' \in {None, r}

\* The release in doubt goes, and the badge to the newest stable one that is left.
TakeBack ==
  \E r \in Items :
    /\ doubt = r /\ shelf' = [shelf EXCEPT ![r] = "none"]
    /\ IF badge # r THEN UNCHANGED badge
       ELSE LET rest == {s \in Items \ {r} : shelf[s] = "stable"}
            IN  IF rest = {} THEN badge' = None
                ELSE badge' \in rest /\ \A s \in rest : s <= badge'
    /\ doubt' = None

\* The run that was in doubt has ended.
Keep == doubt # None /\ doubt' = None /\ UNCHANGED <<shelf, badge>>

Next == Show \/ TakeBack \/ Keep

Spec == Init /\ [][Next]_shelfVars
=============================================================================
