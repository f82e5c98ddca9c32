------------------------- MODULE GithubMirrorsProofs -------------------------
(***************************************************************************)
(* Proofs about the programs that work between two forges.  GithubMirrors, *)
(* for every set of releases, assets, kinds and budgets: whatever fails    *)
(* and wherever a run dies, GitHub never shows an incomplete release, gets *)
(* no tag from a copy, and its latest release never moves back.            *)
(* SecretsBridge, for any number of pods, values and seconds: the bridge   *)
(* takes GitHub's secret for current only when it holds the value of the   *)
(* source, unless a write got lost within a second.  At the end, both and  *)
(* the forge importer side by side.                                        *)
(***************************************************************************)
EXTENDS Forges, TLAPS, WellFoundedInduction

(* The oldest missing release. *)

Less == {p \in Nat \X Nat : p[1] < p[2]}

LEMMA LessWellFounded == IsWellFoundedOn(Less, Nat)
BY NatLessThanWellFounded, Zenon DEF OpToRel, Less

\* sorted() of the missing releases has a first one.
LEMMA Oldest ==
  ASSUME NEW S \in SUBSET Releases, S # {}
  PROVE  \E r \in S : \A s \in S : r <= s
<1>1. S \subseteq Nat
  BY MirrorAssumption DEF Releases
<1>2. PICK r \in S : \A s \in S : <<s, r>> \notin Less
  BY <1>1, LessWellFounded, WFMin, Zenon
<1>3. ASSUME NEW s \in S PROVE r <= s
  <2>1. s \in Nat /\ r \in Nat
    BY <1>1
  <2>2. ~(s < r)
    BY <1>2, <2>1 DEF Less
  <2> QED
    BY <2>1, <2>2
<1> QED
  BY <1>3

LEMMA CurrentMissing ==
  ASSUME missing \in SUBSET Releases, missing # {}
  PROVE  Current \in missing
<1>1. \E r \in missing : \A s \in missing : r <= s
  BY Oldest
<1> QED
  BY <1>1, Zenon DEF Current

-----------------------------------------------------------------------------
(* The invariant. *)

Copying == phase \in {"upload", "discard"}
Listed  == Copying \/ phase = "next"

\* The release a run copies is one it listed, with a tag on GitHub, and nobody
\* else has created it.
CopyInv ==
  /\ Copying => missing # {} /\ Current \in listedTags /\ WithinBudget
  /\ phase = "upload" => github[Current] = "draft"
  /\ \A r \in missing : /\ source[r] # "absent"
                        /\ github[r] = "none" \/ (Copying /\ r = Current)
  /\ listedTags \subseteq tags

\* A release that is stable on GitHub is stable in every listing taken since, and
\* latest is such a release.
StableInv ==
  /\ \A r \in Releases : github[r] = "stable" => forgejo[r] = "stable"
  /\ \A r \in Releases : Listed /\ github[r] = "stable" => source[r] = "stable"
  /\ \A r \in Releases : source[r] = "stable" => forgejo[r] = "stable"
  /\ latest # None => github[latest] = "stable"
  /\ phase = "discard" /\ latest = Current => leaks > 0

Inv == TypeOK /\ CopyInv /\ StableInv /\ PublicComplete /\ NeverCreatesTag

LEMMA InitInv == Init => Inv
BY MirrorAssumption DEF Init, Inv, TypeOK, CopyInv, StableInv, PublicComplete, NeverCreatesTag, NoneListed,
     Copying, Listed, Public, WithinBudget

\* A run goes on with the release it is copying.
LEMMA CurrentInv ==
  ASSUME Inv, Copying \/ missing # {}
  PROVE  Current \in missing /\ Current \in Releases /\ Current # None
BY CurrentMissing, MirrorAssumption DEF Inv, TypeOK, CopyInv

\* Every step of a run, GitHub and Forgejo keeps the invariant.
LEMMA StepInv == Inv /\ [Next]_vars => Inv'
<1> SUFFICES ASSUME Inv, [Next]_vars PROVE Inv'
  OBVIOUS
<1>0. Copying \/ missing # {} => Current \in missing /\ Current \in Releases /\ Current # None
  BY CurrentInv
<1> USE MirrorAssumption DEF Inv
<1>1. CASE ListTags
  BY <1>0, <1>1 DEF ListTags, hubVars, runVars, TypeOK, CopyInv, StableInv,
     PublicComplete, NeverCreatesTag, Copying, Listed, WithinBudget
<1>2. CASE ListReleases
  BY <1>0, <1>2 DEF ListReleases, hubVars, runVars, TypeOK, CopyInv, StableInv,
     PublicComplete, NeverCreatesTag, Copying, Listed, WithinBudget
<1>3. CASE SkipUntagged
  BY <1>0, <1>3 DEF SkipUntagged, Tagged, hubVars, runVars, TypeOK, CopyInv, StableInv,
     PublicComplete, NeverCreatesTag, Copying, Listed, WithinBudget
<1>4. CASE CreateDraft
  <2>1. Current \in missing /\ Current \in Releases /\ Current # None
    BY <1>4, <1>0 DEF CreateDraft, Copying
  <2>2. Current' = Current
    BY <1>4 DEF CreateDraft, runVars, Current
  <2>3. TypeOK'
    BY <1>4, <2>1, <2>2 DEF CreateDraft, hubVars, runVars, Tagged, TypeOK, CopyInv,
       Copying, WithinBudget
  <2>4. CopyInv'
    BY <1>4, <2>1, <2>2 DEF CreateDraft, hubVars, runVars, Tagged, TypeOK, CopyInv,
       Copying, WithinBudget
  <2>5. StableInv'
    BY <1>4, <2>1, <2>2 DEF CreateDraft, hubVars, runVars, Tagged, TypeOK, CopyInv,
       StableInv, Copying, Listed, WithinBudget
  <2>6. PublicComplete'
    BY <1>4, <2>1, <2>2 DEF CreateDraft, hubVars, runVars, Tagged, TypeOK,
       PublicComplete, Public, WithinBudget
  <2>7. NeverCreatesTag'
    BY <1>4, <2>1, <2>2 DEF CreateDraft, hubVars, runVars, Tagged, TypeOK, CopyInv,
       Copying, NeverCreatesTag, WithinBudget
  <2> QED
    BY <2>3, <2>4, <2>5, <2>6, <2>7
<1>5. CASE CreateFails
  <2>1. TypeOK'
    BY <1>0, <1>5 DEF CreateFails, TypeOK
  <2>2. CopyInv' /\ StableInv'
    BY <1>0, <1>5 DEF CreateFails, TypeOK, CopyInv, StableInv, Copying, Listed, WithinBudget
  <2>3. PublicComplete' /\ NeverCreatesTag'
    BY <1>0, <1>5 DEF CreateFails, Tagged, TypeOK, CopyInv, PublicComplete, NeverCreatesTag, Public
  <2> QED
    BY <2>1, <2>2, <2>3
<1>6. CASE UploadAsset
  <2>1. Current \in missing /\ Current \in Releases /\ Current # None
    BY <1>6, <1>0 DEF UploadAsset, Copying
  <2>2. Current' = Current
    BY <1>6 DEF UploadAsset, runVars, Current
  <2>3. TypeOK'
    BY <1>6, <2>1, <2>2 DEF UploadAsset, hubVars, runVars, TypeOK, CopyInv, Copying,
       WithinBudget
  <2>4. CopyInv'
    BY <1>6, <2>1, <2>2 DEF UploadAsset, hubVars, runVars, TypeOK, CopyInv, Copying,
       WithinBudget
  <2>5. StableInv'
    BY <1>6, <2>1, <2>2 DEF UploadAsset, hubVars, runVars, TypeOK, CopyInv, StableInv,
       Copying, Listed, WithinBudget
  <2>6. PublicComplete'
    BY <1>6, <2>1, <2>2 DEF UploadAsset, hubVars, runVars, TypeOK, PublicComplete,
       Public, WithinBudget
  <2>7. NeverCreatesTag'
    BY <1>6, <2>1, <2>2 DEF UploadAsset, hubVars, runVars, TypeOK, CopyInv, Copying,
       NeverCreatesTag, WithinBudget
  <2> QED
    BY <2>3, <2>4, <2>5, <2>6, <2>7
<1>7. CASE UploadFails
  <2>1. Current' = Current
    BY <1>7 DEF UploadFails, runVars, Current
  <2> QED
    BY <1>0, <1>7, <2>1 DEF UploadFails, hubVars, runVars, TypeOK, CopyInv, StableInv, PublicComplete, NeverCreatesTag, Copying, Listed, WithinBudget
<1>8. CASE Publish
  <2>1. Current \in missing /\ Current \in Releases /\ Current # None
    BY <1>8, <1>0 DEF Publish, Copying
  <2>3. TypeOK'
    <3>1. source[Current] # "draft" => source[Current] \in Public
      BY <2>1 DEF TypeOK, CopyInv, Public
    <3>2. github' \in [Releases -> {"none", "draft"} \cup Public] /\ latest' \in Releases \cup {None}
      BY <1>8, <2>1, <3>1 DEF Publish, Published, TypeOK
    <3> QED
      BY <1>8, <3>2 DEF Publish, Published, Done, TypeOK, CopyInv, Copying, WithinBudget
  <2>4. CopyInv'
    BY <1>8, <2>1 DEF Publish, hubVars, runVars, Published, Ready, Done, NewestStable,
       Public, TypeOK, CopyInv, Copying, WithinBudget
  <2>5. StableInv'
    BY <1>8, <2>1 DEF Publish, hubVars, runVars, Published, Ready, Done, NewestStable,
       Public, TypeOK, CopyInv, StableInv, Copying, Listed, WithinBudget
  <2>6. PublicComplete'
    BY <1>8, <2>1 DEF Publish, hubVars, runVars, Published, Ready, Done, NewestStable,
       Public, TypeOK, PublicComplete, WithinBudget
  <2>7. NeverCreatesTag'
    BY <1>8, <2>1 DEF Publish, hubVars, runVars, Published, Ready, Done, NewestStable,
       Public, TypeOK, CopyInv, Copying, NeverCreatesTag, WithinBudget
  <2> QED
    BY <2>3, <2>4, <2>5, <2>6, <2>7
<1>9. CASE PublishFails
  <2>1. Current \in missing /\ Current \in Releases /\ Current # None
    BY <1>9, <1>0 DEF PublishFails, Copying
  <2>2. Current' = Current
    BY <1>9 DEF PublishFails, runVars, Current
  <2>3. TypeOK'
    <3>1. source[Current] # "draft" => source[Current] \in Public
      BY <2>1 DEF TypeOK, CopyInv, Public
    <3>2. github' \in [Releases -> {"none", "draft"} \cup Public] /\ latest' \in Releases \cup {None}
      BY <1>9, <2>1, <3>1 DEF PublishFails, Published, TypeOK
    <3> QED
      BY <1>9, <3>2 DEF PublishFails, Published, TypeOK, CopyInv, Copying, WithinBudget
  <2>4. CopyInv'
    BY <1>9, <2>1, <2>2 DEF PublishFails, hubVars, runVars, Published, Ready,
       NewestStable, Public, TypeOK, CopyInv, Copying, WithinBudget
  <2>5. StableInv'
    BY <1>9, <2>1, <2>2 DEF PublishFails, hubVars, runVars, Published, Ready,
       NewestStable, Public, TypeOK, CopyInv, StableInv, Copying, Listed, WithinBudget
  <2>6. PublicComplete'
    BY <1>9, <2>1, <2>2 DEF PublishFails, hubVars, runVars, Published, Ready,
       NewestStable, Public, TypeOK, PublicComplete, WithinBudget
  <2>7. NeverCreatesTag'
    BY <1>9, <2>1, <2>2 DEF PublishFails, hubVars, runVars, Published, Ready,
       NewestStable, Public, TypeOK, CopyInv, Copying, NeverCreatesTag, WithinBudget
  <2> QED
    BY <2>3, <2>4, <2>5, <2>6, <2>7
<1>10. CASE Discard
  <2>1. Current \in missing /\ Current \in Releases /\ Current # None
    BY <1>10, <1>0 DEF Discard, Copying
  <2>3. TypeOK'
    BY <1>10, <2>1 DEF Discard, hubVars, runVars, Fallback, Done, CountFailure, TypeOK,
       CopyInv, Copying, WithinBudget
  <2>4. CopyInv'
    BY <1>10, <2>1 DEF Discard, hubVars, runVars, Fallback, Done, CountFailure, TypeOK,
       CopyInv, Copying, WithinBudget
  <2>5. StableInv'
    BY <1>10, <2>1 DEF Discard, hubVars, runVars, Fallback, Done, CountFailure, TypeOK,
       CopyInv, StableInv, Copying, Listed, WithinBudget
  <2>6. PublicComplete'
    BY <1>10, <2>1 DEF Discard, hubVars, runVars, Fallback, Done, CountFailure, TypeOK,
       PublicComplete, Public, WithinBudget
  <2>7. NeverCreatesTag'
    BY <1>10, <2>1 DEF Discard, hubVars, runVars, Fallback, Done, CountFailure, TypeOK,
       CopyInv, Copying, NeverCreatesTag, WithinBudget
  <2> QED
    BY <2>3, <2>4, <2>5, <2>6, <2>7
<1>11. CASE DiscardRefused
  BY <1>0, <1>11 DEF DiscardRefused, Done, CountFailure, hubVars, runVars, TypeOK,
     CopyInv, StableInv, PublicComplete, NeverCreatesTag, Copying, Listed, WithinBudget
<1>12. CASE EndRun
  BY <1>0, <1>12 DEF EndRun, NoneListed, hubVars, runVars, TypeOK, CopyInv, StableInv,
     PublicComplete, NeverCreatesTag, Copying, Listed, WithinBudget
<1>13. CASE Crash
  BY <1>0, <1>13 DEF Crash, NoneListed, hubVars, runVars, TypeOK, CopyInv, StableInv,
     PublicComplete, NeverCreatesTag, Copying, Listed, WithinBudget
<1>14. CASE Release
  <2>1. Current' = Current
    BY <1>14 DEF Release, runVars, Current
  <2> QED
    BY <1>0, <1>14, <2>1 DEF Release, hubVars, runVars, TypeOK, CopyInv, StableInv, PublicComplete, NeverCreatesTag, Copying, Listed, WithinBudget
<1>15. CASE MirrorTag
  <2>1. Current' = Current
    BY <1>15 DEF MirrorTag, runVars, Current
  <2> QED
    BY <1>0, <1>15, <2>1 DEF MirrorTag, hubVars, runVars, TypeOK, CopyInv, StableInv, PublicComplete, NeverCreatesTag, Copying, Listed, WithinBudget
<1>16. CASE UNCHANGED vars
  BY <1>16 DEF vars, hubVars, runVars, TypeOK, CopyInv, StableInv, PublicComplete,
     NeverCreatesTag, Copying, Listed, WithinBudget, Current
<1> QED
  BY <1>1, <1>2, <1>3, <1>4, <1>5, <1>6, <1>7, <1>8, <1>9, <1>10, <1>11, <1>12, <1>13,
     <1>14, <1>15, <1>16 DEF Next, RunStep

-----------------------------------------------------------------------------
(* What a reader of the mirrors relies on. *)

LEMMA InvHolds == Spec => []Inv
BY InitInv, StepInv, PTL DEF Spec

\* The types hold in every state; no run copies more than its budget.
THEOREM TypeCorrect == Spec => []TypeOK
<1>1. Inv => TypeOK
  BY DEF Inv
<1> QED
  BY InvHolds, <1>1, PTL

\* A release is public on GitHub only with all its assets, whatever failed and
\* wherever a run died: copy_release publishes last.
THEOREM OnlyComplete == Spec => []PublicComplete
<1>1. Inv => PublicComplete
  BY DEF Inv
<1> QED
  BY InvHolds, <1>1, PTL

\* No release is created for a tag that the push mirror has not brought, although
\* tags are listed before the releases.
THEOREM TagsFirst == Spec => []NeverCreatesTag
<1>1. Inv => NeverCreatesTag
  BY DEF Inv
<1> QED
  BY InvHolds, <1>1, PTL

\* Steps other than the publication and the deletion of a copy leave latest alone.
LEMMA LatestStep ==
  ASSUME Inv, Next, latest' # latest
  PROVE  \/ phase = "discard" /\ leaks > 0 /\ latest = Current
         \/ /\ latest' # None /\ forgejo[latest'] = "stable"
            /\ latest # None => latest < latest'
<1>1. CASE Discard
  BY <1>1 DEF Discard, Inv, StableInv
<1>2. CASE Publish \/ PublishFails
  <2>1. Copying /\ phase = "upload"
    BY <1>2 DEF Publish, PublishFails, Copying
  <2>2. Current \in Releases /\ Current # None
    BY <2>1, CurrentInv
  <2>3. latest' = Current /\ NewestStable(Current)
    BY <1>2 DEF Publish, PublishFails, Published
  <2>4. forgejo[Current] = "stable"
    BY <2>2, <2>3 DEF NewestStable, Inv, StableInv
  <2>5. ASSUME latest # None PROVE latest < Current
    <3>1. latest \in Releases /\ source[latest] = "stable"
      BY <2>1, <2>5 DEF Inv, TypeOK, StableInv, Listed
    <3>2. latest <= Current
      BY <2>3, <3>1 DEF NewestStable
    <3>3. latest \in Nat /\ Current \in Nat /\ latest # Current
      BY <2>2, <2>3, <3>1, MirrorAssumption DEF Releases
    <3> QED
      BY <3>2, <3>3
  <2> QED
    BY <2>2, <2>3, <2>4, <2>5
<1>3. CASE ~(Discard \/ Publish \/ PublishFails)
  BY <1>3 DEF Next, RunStep, ListTags, ListReleases, SkipUntagged, CreateDraft, CreateFails,
     UploadAsset, UploadFails, DiscardRefused, EndRun, Crash, Release, MirrorTag, hubVars
<1> QED
  BY <1>1, <1>2, <1>3

\* Latest never goes back to an older release or to a prerelease, except where a
\* run deletes what it has just published.
THEOREM LatestForward == Spec => LatestMovesForward
<1>1. Inv /\ [Next]_vars => [latest' # latest =>
          \/ phase = "discard" /\ leaks > 0 /\ latest = Current
          \/ /\ latest' # None /\ forgejo[latest'] = "stable"
             /\ latest # None => latest < latest']_vars
  BY LatestStep
<1> QED
  BY InvHolds, <1>1, PTL DEF Spec, LatestMovesForward

-----------------------------------------------------------------------------
(* The refinement. *)

LEMMA ShelfInit == Init => Shelf!Init
BY MirrorAssumption DEF Init, Shelf!Init, Shown, InDoubt, Public

\* Nothing a visitor sees changes: the step is a stutter, or the end of a doubt.
LEMMA UnseenStep ==
  ASSUME Shown' = Shown, latest' = latest, InDoubt' \in {InDoubt, None}
  PROVE  Shelf!Next \/ UNCHANGED Shelf!shelfVars
BY DEF Shelf!Next, Shelf!Keep, Shelf!shelfVars

\* A publication shows the current release, as the copy of a listed one.
LEMMA PublishShows ==
  ASSUME Inv, Publish \/ PublishFails, source[Current] # "draft", Published
  PROVE  Shelf!Show
<1>1. Copying /\ phase = "upload" /\ Ready /\ Current \in missing
  BY CurrentInv DEF Publish, PublishFails, Copying
<1>2. Current \in Releases /\ Current # None /\ github[Current] = "draft"
  BY <1>1, CurrentInv DEF Inv, CopyInv
<1>3. source[Current] \in {"pre", "stable"} /\ github' = [github EXCEPT ![Current] = source[Current]]
  BY <1>1, <1>2, MirrorAssumption DEF Published, Inv, TypeOK, CopyInv
<1>4. Shown[Current] = "none" /\ Shown' = [Shown EXCEPT ![Current] = source[Current]]
  <2>1. Shown[Current] = "none"
    BY <1>2 DEF Shown, Public
  <2>2. uploaded' = uploaded /\ uploaded[Current] = AssetsOf[Current]
    BY <1>1 DEF Publish, PublishFails, Ready
  <2> QED
    BY <1>2, <1>3, <2>1, <2>2 DEF Shown, Public, Inv, TypeOK
<1>5. \/ UNCHANGED latest
      \/ source[Current] = "stable" /\ (latest = None \/ latest < Current) /\ latest' = Current
  <2>1. CASE ~NewestStable(Current)
    BY <2>1 DEF Published
  <2>2. CASE NewestStable(Current)
    <3>1. latest' = Current /\ source[Current] = "stable"
      BY <2>2 DEF Published, NewestStable
    <3>2. ASSUME latest # None PROVE latest < Current
      <4>1. latest \in Releases /\ source[latest] = "stable" /\ github[latest] = "stable"
        BY <1>1, <3>2 DEF Inv, TypeOK, StableInv, Listed
      <4>2. latest <= Current /\ latest # Current
        BY <1>2, <2>2, <4>1 DEF NewestStable
      <4> QED
        BY <1>2, <4>1, <4>2, MirrorAssumption DEF Releases
    <3> QED
      BY <3>1, <3>2
  <2> QED
    BY <2>1, <2>2
<1>6. InDoubt' \in {None, Current}
  <2>1. CASE Publish
    BY <2>1 DEF Publish, Done, InDoubt
  <2>2. CASE PublishFails
    BY <2>2 DEF PublishFails, InDoubt, Current
  <2> QED
    BY <2>1, <2>2
<1> QED
  BY <1>2, <1>3, <1>4, <1>5, <1>6 DEF Shelf!Show

\* Discarding takes back the release in doubt; a draft was never seen.
LEMMA DiscardTakesBack ==
  ASSUME Inv, Discard
  PROVE  Shelf!Next \/ UNCHANGED Shelf!shelfVars
<1>1. Current \in Releases /\ Current # None /\ phase = "discard"
  BY CurrentInv DEF Discard, Copying
<1>2. /\ github' = [github EXCEPT ![Current] = "none"]
      /\ uploaded' = [uploaded EXCEPT ![Current] = 0]
      /\ IF latest = Current THEN latest' \in Fallback ELSE UNCHANGED latest
  BY DEF Discard
<1>3. InDoubt' = None
  BY DEF Discard, Done, InDoubt
<1>4. Shown' = [Shown EXCEPT ![Current] = "none"]
  BY <1>1, <1>2 DEF Shown, Public, Inv, TypeOK
<1>5. CASE github[Current] \in Public
  <2>1. InDoubt = Current
    BY <1>1, <1>5 DEF InDoubt
  <2>2. ASSUME latest = Current
        PROVE  LET rest == {s \in Releases \ {Current} : Shown[s] = "stable"}
               IN  IF rest = {} THEN latest' = None
                   ELSE latest' \in rest /\ \A s \in rest : s <= latest'
    <3>1. {s \in Releases \ {Current} : Shown[s] = "stable"}
            = {s \in Releases \ {Current} : github[s] = "stable"}
      BY DEF Shown, Public, Inv, PublicComplete
    <3>2. latest' \in Fallback
      BY <1>2, <2>2
    <3> QED
      BY <3>1, <3>2 DEF Fallback
  <2> QED
    BY <1>1, <1>2, <1>3, <1>4, <2>1, <2>2 DEF Shelf!Next, Shelf!TakeBack
<1>6. CASE github[Current] \notin Public
  <2>1. Shown' = Shown
    BY <1>1, <1>4, <1>6 DEF Shown
  <2>2. latest # Current
    BY <1>1, <1>6 DEF Inv, StableInv, Public
  <2> QED
    BY <1>2, <1>3, <2>1, <2>2, UnseenStep
<1> QED
  BY <1>5, <1>6

\* Steps that leave GitHub's public releases alone.
LEMMA OtherSteps ==
  ASSUME Inv, [Next]_vars, ~Discard, ~(Publish /\ source[Current] # "draft"),
         ~(PublishFails /\ Published)
  PROVE  Shelf!Next \/ UNCHANGED Shelf!shelfVars
<1>0. Copying \/ missing # {} => Current \in missing /\ Current \in Releases /\ Current # None
  BY CurrentInv
<1>1. CASE CreateDraft
  <2>1. Current \in Releases /\ github[Current] = "none" /\ phase = "next"
    BY <1>0, <1>1 DEF CreateDraft, Inv, CopyInv, Copying
  <2>2. Shown' = Shown
    BY <1>1, <2>1 DEF CreateDraft, Shown, Public, Inv, TypeOK
  <2>3. latest' = latest /\ InDoubt' = None
    BY <1>1 DEF CreateDraft, InDoubt
  <2> QED
    BY <2>2, <2>3, UnseenStep
<1>2. CASE CreateFails
  <2>1. Current \in Releases /\ github[Current] = "none" /\ phase = "next"
    BY <1>0, <1>2 DEF CreateFails, Inv, CopyInv, Copying
  <2>2. Shown' = Shown
    BY <1>2, <2>1 DEF CreateFails, Shown, Public, Inv, TypeOK
  <2>3. latest' = latest /\ InDoubt' = None
    BY <1>2, <2>1 DEF CreateFails, InDoubt
  <2> QED
    BY <2>2, <2>3, UnseenStep
<1>3. CASE UploadAsset
  <2>1. Current \in Releases /\ github[Current] = "draft" /\ phase = "upload"
    BY <1>0, <1>3 DEF UploadAsset, Inv, CopyInv, Copying
  <2>2. Shown' = Shown
    BY <1>3, <2>1 DEF UploadAsset, Shown, Public, Inv, TypeOK
  <2>3. latest' = latest /\ InDoubt' = None
    BY <1>3, <2>1 DEF UploadAsset, runVars, InDoubt
  <2> QED
    BY <2>2, <2>3, UnseenStep
<1>4. CASE UploadFails \/ PublishFails
  <2>1. Current \in Releases /\ github[Current] = "draft" /\ Current' = Current
    BY <1>0, <1>4 DEF UploadFails, PublishFails, Inv, CopyInv, Copying, Current
  <2>2. github' = github /\ uploaded' = uploaded /\ latest' = latest
    BY <1>4 DEF UploadFails, PublishFails, hubVars
  <2>3. Shown' = Shown /\ InDoubt' = None
    BY <2>1, <2>2 DEF Shown, InDoubt, Public
  <2> QED
    BY <2>2, <2>3, UnseenStep
<1>5. CASE Publish \/ DiscardRefused \/ EndRun \/ Crash \/ ListTags \/ ListReleases \/ SkipUntagged
  <2>1. github' = github /\ uploaded' = uploaded /\ latest' = latest
    BY <1>5 DEF Publish, DiscardRefused, EndRun, Crash, ListTags, ListReleases, SkipUntagged, hubVars
  <2>2. InDoubt' = None
    BY <1>5 DEF Publish, DiscardRefused, EndRun, Crash, ListTags, ListReleases, SkipUntagged, Done, InDoubt
  <2> QED
    BY <2>1, <2>2, UnseenStep DEF Shown
<1>6. CASE Release \/ MirrorTag \/ UNCHANGED vars
  <2>1. github' = github /\ uploaded' = uploaded /\ latest' = latest /\ phase' = phase /\ missing' = missing
    BY <1>6 DEF Release, MirrorTag, vars, hubVars, runVars
  <2>2. Shown' = Shown /\ InDoubt' = InDoubt
    BY <2>1 DEF Shown, InDoubt, Current
  <2> QED
    BY <2>1, <2>2, UnseenStep
<1> QED
  BY <1>1, <1>2, <1>3, <1>4, <1>5, <1>6 DEF Next, RunStep

\* The copier implements the shelf of releases that a visitor relies on, for all
\* releases, assets and budgets and whatever fails (copy_release, discard).
THEOREM ShelfRefined == Spec => ImplementsShelf
<1>1. Inv /\ [Next]_vars => [Shelf!Next]_Shelf!shelfVars
  <2> SUFFICES ASSUME Inv, [Next]_vars PROVE Shelf!Next \/ UNCHANGED Shelf!shelfVars
    OBVIOUS
  <2>1. CASE Discard
    BY <2>1, DiscardTakesBack
  <2>2. CASE Publish /\ source[Current] # "draft"
    BY <2>2, PublishShows DEF Publish, Shelf!Next
  <2>3. CASE PublishFails /\ Published
    BY <2>3, PublishShows DEF PublishFails, Shelf!Next
  <2> QED
    BY <2>1, <2>2, <2>3, OtherSteps
<1> QED
  BY ShelfInit, InvHolds, <1>1, PTL DEF Spec, ImplementsShelf, Shelf!Spec

-----------------------------------------------------------------------------
(* The secret of the bridge. *)

PodType == [at : Bridge!Steps, value : Bridge!Values, known : Bridge!Records, key : Bridge!Keys, seen : Bridge!Seconds]

\* What GitHub's secret is worth to a pod that has written it.
PodInv(pod, sec, mix) ==
  /\ pod.seen <= sec.at
  /\ ~mix /\ sec.value # 0 => /\ pod.at = "confirm" => pod.value = sec.value
                              /\ pod.at = "write" /\ pod.seen = sec.at => pod.value = sec.value

\* The second of the ConfigMap stands for its value.
StateInv(st, sec, mix) ==
  /\ st.at <= sec.at
  /\ ~mix /\ sec.value # 0 /\ st.value # 0 /\ st.at = sec.at => st.value = sec.value

BridgeInv ==
  /\ Bridge!TypeOK /\ key <= bridgeTroubles /\ secret.at <= second
  /\ StateInv(state, secret, mixed)
  /\ \A p \in Pods : PodInv(bridges[p], secret, mixed)

USE DEF Bridge!Trouble, Bridge!Unchanging

LEMMA BridgeNumbers ==
  ASSUME Bridge!BridgeAssumption
  PROVE  /\ Bridge!Values \subseteq Nat /\ Bridge!Seconds \subseteq Nat /\ Bridge!Keys \subseteq Nat
         /\ 0 \in Bridge!Values /\ 0 \in Bridge!Seconds /\ 1 \in Bridge!Seconds /\ 0 \in Bridge!Keys
         /\ \A r \in Bridge!Records : r.at \in Nat /\ r.value \in Nat
         /\ \A v \in Bridge!Values, t \in Bridge!Seconds : [value |-> v, at |-> t] \in Bridge!Records
BY DEF Bridge!BridgeAssumption, Bridge!Values, Bridge!Seconds, Bridge!Keys, Bridge!Records

LEMMA BridgeTypes ==
  ASSUME BridgeInv
  PROVE  /\ bridges \in [Pods -> PodType] /\ secret \in Bridge!Records /\ state \in Bridge!Records
         /\ \A p \in Pods : bridges[p] \in PodType
BY DEF BridgeInv, Bridge!TypeOK, PodType

LEMMA BridgeStarts ==
  ASSUME Bridge!BridgeAssumption
  PROVE  Bridge!Init => BridgeInv
<1> SUFFICES ASSUME Bridge!Init PROVE BridgeInv
  OBVIOUS
<1>1. Bridge!NoPod \in PodType /\ Bridge!NoPod.seen = 0 /\ Bridge!NoPod.at = "idle"
  BY BridgeNumbers DEF Bridge!NoPod, PodType, Bridge!Steps
<1>2. PICK v \in Bridge!Values : secret = [value |-> v, at |-> 0]
  BY DEF Bridge!Init
<1>3. secret \in Bridge!Records /\ secret.at = 0
  BY <1>2, BridgeNumbers
<1>4. state \in Bridge!Records /\ state.at = 0 /\ state.value = 0
  BY BridgeNumbers DEF Bridge!Init
<1>5. Bridge!TypeOK
  <2>1. bridges \in [Pods -> PodType]
    BY <1>1 DEF Bridge!Init
  <2>2. origin \in Bridge!Values /\ app \in BOOLEAN /\ key \in Bridge!Keys /\ mixed \in BOOLEAN /\ second \in Bridge!Seconds
    BY BridgeNumbers DEF Bridge!Init
  <2>3. bridgeTroubles \in 0..MaxBridgeTroubles
    BY DEF Bridge!Init, Bridge!BridgeAssumption
  <2> QED
    BY <1>3, <1>4, <2>1, <2>2, <2>3 DEF Bridge!TypeOK, PodType
<1>6. StateInv(state, secret, mixed) /\ PodInv(Bridge!NoPod, secret, mixed)
  BY <1>1, <1>3, <1>4 DEF Bridge!Init, StateInv, PodInv
<1> QED
  BY <1>3, <1>5, <1>6 DEF Bridge!Init, BridgeInv

\* A step by which one pod becomes `pod`, and GitHub's secret stays.
LEMMA PodMoves ==
  ASSUME Bridge!BridgeAssumption, BridgeInv, NEW p \in Pods, NEW pod \in PodType,
         bridges' = [bridges EXCEPT ![p] = pod], PodInv(pod, secret, mixed),
         UNCHANGED <<origin, app, secret, key, second, mixed>>,
         state' \in Bridge!Records, StateInv(state', secret, mixed),
         bridgeTroubles' \in 0..MaxBridgeTroubles, bridgeTroubles <= bridgeTroubles'
  PROVE  BridgeInv'
<1>1. bridges' \in [Pods -> PodType]
  BY BridgeTypes
<1>2. Bridge!TypeOK'
  BY <1>1 DEF BridgeInv, Bridge!TypeOK, PodType, Bridge!Values, Bridge!Seconds, Bridge!Keys, Bridge!Records, Bridge!Steps
<1>3. ASSUME NEW q \in Pods PROVE PodInv(bridges'[q], secret, mixed)
  BY BridgeTypes DEF BridgeInv
<1>4. key' <= bridgeTroubles'
  BY BridgeNumbers DEF BridgeInv, Bridge!TypeOK, Bridge!BridgeAssumption
<1> QED
  BY <1>2, <1>3, <1>4 DEF BridgeInv

\* A step that takes a pod to another one of its steps, with what it knows.
LEMMA PodGoes ==
  ASSUME Bridge!BridgeAssumption, BridgeInv, NEW p \in Pods, NEW to \in Bridge!Steps \ {"confirm", "write"}, Bridge!Goes(p, to),
         UNCHANGED <<origin, app, secret, key, second, mixed, state>>,
         bridgeTroubles' \in 0..MaxBridgeTroubles, bridgeTroubles <= bridgeTroubles'
  PROVE  BridgeInv'
<1> DEFINE pod == [bridges[p] EXCEPT !.at = to]
<1>1. /\ pod \in PodType /\ pod.at = to /\ pod.seen = bridges[p].seen
      /\ bridges' = [bridges EXCEPT ![p] = pod]
  BY BridgeTypes DEF PodType, Bridge!Goes
<1> HIDE DEF pod
<1>2. PodInv(pod, secret, mixed)
  BY <1>1 DEF BridgeInv, PodInv
<1>3. state' \in Bridge!Records /\ StateInv(state', secret, mixed)
  BY BridgeTypes DEF BridgeInv
<1> QED
  BY <1>1, <1>2, <1>3, PodMoves

\* A pod that ends, or starts again.
LEMMA PodRestarts ==
  ASSUME Bridge!BridgeAssumption, BridgeInv, NEW p \in Pods, NEW pod \in PodType, pod.seen = 0,
         pod.at \notin {"confirm", "write"}, bridges' = [bridges EXCEPT ![p] = pod],
         UNCHANGED <<origin, app, secret, key, second, mixed, state>>,
         bridgeTroubles' \in 0..MaxBridgeTroubles, bridgeTroubles <= bridgeTroubles'
  PROVE  BridgeInv'
<1>1. PodInv(pod, secret, mixed)
  BY BridgeNumbers, BridgeTypes DEF PodInv
<1>2. state' \in Bridge!Records /\ StateInv(state', secret, mixed)
  BY BridgeTypes DEF BridgeInv
<1> QED
  BY <1>1, <1>2, PodMoves

\* A write that is not lost in the second of another one outdates all that is recorded,
\* and no other pod takes its second for that of its own write.
LEMMA WriteInv ==
  ASSUME Bridge!BridgeAssumption, BridgeInv, NEW v \in Bridge!Values, NEW writer, secret' = [value |-> v, at |-> second],
         ~mixed' => ~Bridge!Loses(writer), UNCHANGED <<state, second>>,
         NEW q \in Pods, q # writer
  PROVE  PodInv(bridges[q], secret', mixed')
<1>1. /\ secret'.at = second /\ secret'.value = v /\ secret.at <= second
      /\ secret.at \in Nat /\ second \in Nat /\ bridges[q].seen \in Nat /\ bridges[q].seen <= secret.at
  BY BridgeNumbers, BridgeTypes DEF BridgeInv, Bridge!TypeOK, PodInv, PodType
<1>2. ~mixed' => bridges[q].at # "confirm" /\ secret.at # second
  BY DEF Bridge!Loses
<1> QED
  BY <1>1, <1>2 DEF PodInv

LEMMA StampInv ==
  ASSUME Bridge!BridgeAssumption, BridgeInv, NEW v \in Bridge!Values, NEW writer, secret' = [value |-> v, at |-> second],
         ~mixed' => ~Bridge!Loses(writer), UNCHANGED <<state, second>>
  PROVE  /\ StateInv(state', secret', mixed') /\ secret' \in Bridge!Records /\ secret'.at <= second'
<1>1. /\ secret'.at = second /\ secret'.value = v /\ secret.at <= second /\ secret' \in Bridge!Records
      /\ secret.at \in Nat /\ second \in Nat /\ state.at \in Nat /\ state.at <= secret.at
  BY BridgeNumbers, BridgeTypes DEF BridgeInv, Bridge!TypeOK, StateInv
<1>2. ~mixed' => secret.at # second
  BY DEF Bridge!Loses
<1> QED
  BY <1>1, <1>2 DEF StateInv


LEMMA PutSecretInv ==
  ASSUME Bridge!BridgeAssumption, BridgeInv, NEW p \in Pods, Bridge!PutSecret(p)
  PROVE  BridgeInv'
<1>1. /\ bridges[p] \in PodType /\ bridges[p].value \in Bridge!Values /\ bridges[p].at = "put"
      /\ UNCHANGED <<origin, app, key, second, bridgeTroubles, state>>
  BY BridgeTypes DEF Bridge!PutSecret, PodType
<1>2. CASE bridges[p].key = key
  <2> DEFINE pod == [bridges[p] EXCEPT !.at = "confirm"]
  <2>1. /\ secret' = [value |-> bridges[p].value, at |-> second] /\ mixed' = Bridge!Loses(p)
        /\ bridges' = [bridges EXCEPT ![p] = pod]
    BY <1>2, BridgeTypes DEF Bridge!PutSecret, Bridge!SealedBox, Bridge!Opens, Bridge!Goes
  <2>0. mixed' \in BOOLEAN /\ (~mixed' => ~Bridge!Loses(p))
    BY <2>1, Zenon DEF Bridge!Loses
  <2>2. pod \in PodType /\ pod.at = "confirm" /\ pod.seen = bridges[p].seen /\ pod.value = bridges[p].value
    BY <1>1 DEF PodType, Bridge!Steps
  <2> HIDE DEF pod
  <2>3. /\ StateInv(state', secret', mixed') /\ secret' \in Bridge!Records /\ secret'.at <= second'
        /\ mixed' \in BOOLEAN
    BY <1>1, <2>0, <2>1, StampInv
  <2>4. PodInv(pod, secret', mixed')
    <3>1. bridges[p].seen \in Nat /\ secret.at \in Nat /\ second \in Nat /\ bridges[p].seen <= second
      BY <1>1, BridgeNumbers, BridgeTypes DEF BridgeInv, Bridge!TypeOK, PodInv, PodType
    <3> QED
      BY <2>1, <2>2, <3>1 DEF PodInv
  <2>5. ASSUME NEW q \in Pods PROVE PodInv(bridges'[q], secret', mixed')
    <3>1. CASE q = p
      BY <2>1, <2>4, <3>1, BridgeTypes
    <3>2. CASE q # p
      <4>1. bridges'[q] = bridges[q]
        BY <2>1, <3>2, BridgeTypes
      <4>2. PodInv(bridges[q], secret', mixed')
        BY <1>1, <2>0, <2>1, <3>2, WriteInv
      <4> QED
        BY <4>1, <4>2
    <3> QED
      BY <3>1, <3>2
  <2>6. bridges' \in [Pods -> PodType]
    BY <2>1, <2>2, BridgeTypes
  <2>7. Bridge!TypeOK'
    BY <1>1, <2>3, <2>6 DEF BridgeInv, Bridge!TypeOK, PodType, Bridge!Values, Bridge!Seconds, Bridge!Keys, Bridge!Records, Bridge!Steps
  <2> QED
    BY <1>1, <2>3, <2>5, <2>7 DEF BridgeInv
<1>3. CASE bridges[p].key # key
  BY <1>1, <1>3, PodGoes, BridgeNumbers DEF Bridge!PutSecret, Bridge!SealedBox, Bridge!Opens, Bridge!Steps, BridgeInv, Bridge!TypeOK, Bridge!BridgeAssumption
<1> QED
  BY <1>2, <1>3

\* A deletion leaves nothing that could be taken for current.
LEMMA ForeignWriteInv ==
  ASSUME Bridge!BridgeAssumption, BridgeInv, Bridge!ForeignWrite
  PROVE  BridgeInv'
<1>1. /\ UNCHANGED <<origin, app, key, state, bridges, second>>
      /\ bridgeTroubles' \in 0..MaxBridgeTroubles /\ bridgeTroubles \in Nat /\ bridgeTroubles' = bridgeTroubles + 1
      /\ key \in Nat /\ key <= bridgeTroubles
  BY BridgeNumbers DEF Bridge!ForeignWrite, BridgeInv, Bridge!TypeOK, Bridge!BridgeAssumption
<1>2. PICK v \in Bridge!Values :
        /\ secret' = [value |-> v, at |-> IF v = 0 THEN secret.at ELSE second]
        /\ mixed' = (v # 0 /\ Bridge!Loses("someone"))
  BY DEF Bridge!ForeignWrite
<1>3. /\ secret' \in Bridge!Records /\ secret'.at <= second' /\ mixed' \in BOOLEAN
      /\ StateInv(state', secret', mixed') /\ \A q \in Pods : PodInv(bridges'[q], secret', mixed')
  <2>1. CASE v = 0
    <3>1. secret' = [value |-> 0, at |-> secret.at]
      BY <1>2, <2>1
    <3>2. secret' \in Bridge!Records /\ secret'.at = secret.at /\ secret'.value = 0
      BY <3>1, BridgeNumbers, BridgeTypes DEF Bridge!Records
    <3>3. mixed' \in BOOLEAN
      BY <1>2, <2>1
    <3> QED
      BY <1>1, <3>2, <3>3 DEF BridgeInv, StateInv, PodInv
  <2>2. CASE v # 0
    <3>0. mixed' \in BOOLEAN
      BY <1>2, Zenon
    <3>1. secret' = [value |-> v, at |-> second] /\ (~mixed' => ~Bridge!Loses("someone"))
      BY <1>2, <2>2
    <3>2. /\ StateInv(state', secret', mixed') /\ secret' \in Bridge!Records /\ secret'.at <= second'
          /\ mixed' \in BOOLEAN
      BY <1>1, <3>0, <3>1, StampInv
    <3>3. ASSUME NEW q \in Pods PROVE PodInv(bridges'[q], secret', mixed')
      <4>1. q # "someone"
        BY DEF Bridge!BridgeAssumption
      <4>2. PodInv(bridges[q], secret', mixed')
        BY <1>1, <3>1, <4>1, WriteInv
      <4> QED
        BY <1>1, <4>2
    <3> QED
      BY <3>2, <3>3
  <2> QED
    BY <2>1, <2>2
<1>4. Bridge!TypeOK'
  BY <1>1, <1>3 DEF BridgeInv, Bridge!TypeOK, Bridge!Values, Bridge!Seconds, Bridge!Keys, Bridge!Records, Bridge!Steps
<1> QED
  BY <1>1, <1>3, <1>4 DEF BridgeInv

\* A pod reads the second of its write, or of one that has overtaken it.
LEMMA ConfirmInv ==
  ASSUME Bridge!BridgeAssumption, BridgeInv, NEW p \in Pods, Bridge!Confirm(p)
  PROVE  BridgeInv'
<1> DEFINE pod == [bridges[p] EXCEPT !.seen = secret.at,
                                  !.at = IF secret.value = 0 THEN "revoke" ELSE "write"]
<1>1. /\ bridges' = [bridges EXCEPT ![p] = pod] /\ bridges[p].at = "confirm" /\ bridges[p] \in PodType
      /\ UNCHANGED <<origin, app, key, second, bridgeTroubles, secret, state, mixed>>
  BY BridgeTypes DEF Bridge!Confirm, Bridge!SecondAfter
<1>2. /\ pod \in PodType /\ pod.seen = secret.at /\ pod.value = bridges[p].value
      /\ pod.at = (IF secret.value = 0 THEN "revoke" ELSE "write")
  BY <1>1, BridgeTypes DEF PodType, Bridge!Steps, Bridge!Records
<1> HIDE DEF pod
<1>3. PodInv(pod, secret, mixed)
  BY <1>1, <1>2, BridgeNumbers, BridgeTypes DEF BridgeInv, PodInv
<1>4. state' \in Bridge!Records /\ StateInv(state', secret, mixed) /\ bridgeTroubles' \in 0..MaxBridgeTroubles /\ bridgeTroubles <= bridgeTroubles'
  BY <1>1, BridgeTypes DEF BridgeInv, Bridge!TypeOK, Bridge!BridgeAssumption
<1> QED
  BY <1>1, <1>2, <1>3, <1>4, PodMoves

LEMMA WriteStateInv ==
  ASSUME Bridge!BridgeAssumption, BridgeInv, NEW p \in Pods, Bridge!WriteState(p)
  PROVE  BridgeInv'
<1> DEFINE pod == [bridges[p] EXCEPT !.at = "revoke"]
<1>1. /\ bridges' = [bridges EXCEPT ![p] = pod] /\ bridges[p].at = "write" /\ bridges[p] \in PodType
      /\ state' = [value |-> bridges[p].value, at |-> bridges[p].seen]
      /\ UNCHANGED <<origin, app, key, second, bridgeTroubles, secret, mixed>>
  BY BridgeTypes DEF Bridge!WriteState, Bridge!Goes
<1>2. pod \in PodType /\ pod.at = "revoke" /\ pod.seen = bridges[p].seen
  BY <1>1 DEF PodType, Bridge!Steps
<1> HIDE DEF pod
<1>3. PodInv(pod, secret, mixed)
  BY <1>2 DEF BridgeInv, PodInv
<1>4. state' \in Bridge!Records /\ state'.value = bridges[p].value /\ state'.at = bridges[p].seen
  BY <1>1, BridgeNumbers DEF PodType
<1>5. StateInv(state', secret, mixed)
  BY <1>1, <1>4 DEF BridgeInv, PodInv, StateInv
<1>6. bridgeTroubles' \in 0..MaxBridgeTroubles /\ bridgeTroubles <= bridgeTroubles'
  BY <1>1 DEF BridgeInv, Bridge!TypeOK, Bridge!BridgeAssumption
<1> QED
  BY <1>1, <1>2, <1>3, <1>4, <1>5, <1>6, PodMoves

\* The steps by which a pod only learns something.
LEMMA LearnInv ==
  ASSUME Bridge!BridgeAssumption, BridgeInv, NEW p \in Pods, NEW pod \in PodType, pod.seen = bridges[p].seen,
         pod.at \notin {"confirm", "write"}, bridges' = [bridges EXCEPT ![p] = pod],
         UNCHANGED <<origin, app, secret, key, second, mixed, state, bridgeTroubles>>
  PROVE  BridgeInv'
<1>1. PodInv(pod, secret, mixed)
  BY DEF BridgeInv, PodInv
<1>2. state' \in Bridge!Records /\ StateInv(state', secret, mixed) /\ bridgeTroubles' \in 0..MaxBridgeTroubles /\ bridgeTroubles <= bridgeTroubles'
  BY BridgeTypes DEF BridgeInv, Bridge!TypeOK, Bridge!BridgeAssumption
<1> QED
  BY <1>1, <1>2, PodMoves

LEMMA ReadsInv ==
  ASSUME Bridge!BridgeAssumption, BridgeInv, NEW p \in Pods,
         Bridge!ReadSource(p) \/ Bridge!ReadCredentials(p) \/ Bridge!MintToken(p) \/ Bridge!ReadState(p) \/ Bridge!ReadMetadata(p)
           \/ Bridge!ReadKey(p) \/ Bridge!Revoke(p)
  PROVE  BridgeInv'
<1>1. /\ UNCHANGED <<app, secret, key, second, mixed, state, bridgeTroubles, origin>> /\ bridges[p] \in PodType
      /\ bridgeTroubles' \in 0..MaxBridgeTroubles /\ bridgeTroubles <= bridgeTroubles'
  BY BridgeTypes DEF Bridge!ReadSource, Bridge!ReadCredentials, Bridge!MintToken, Bridge!ReadState, Bridge!ReadMetadata, Bridge!ReadKey, Bridge!Revoke,
                  BridgeInv, Bridge!TypeOK, Bridge!BridgeAssumption
<1>2. Bridge!NoPod \in PodType /\ Bridge!NoPod.seen = 0 /\ Bridge!NoPod.at = "idle"
  BY BridgeNumbers DEF Bridge!NoPod, PodType, Bridge!Steps
<1>3. CASE Bridge!ReadSource(p)
  <2> DEFINE pod == [Bridge!NoPod EXCEPT !.at = "login", !.value = origin]
  <2>1. pod \in PodType /\ pod.seen = 0 /\ pod.at = "login"
    BY <1>2 DEF PodType, Bridge!Steps, BridgeInv, Bridge!TypeOK
  <2>2. bridges' = [bridges EXCEPT ![p] = pod]
    BY <1>3 DEF Bridge!ReadSource
  <2> HIDE DEF pod
  <2> QED
    BY <1>1, <2>1, <2>2, PodRestarts
<1>4. CASE bridges' = [bridges EXCEPT ![p] = Bridge!NoPod]
  BY <1>1, <1>2, <1>4, PodRestarts
<1>5. CASE \E to \in {"mint", "state", "revoke", "key"} : Bridge!Goes(p, to)
  BY <1>1, <1>5, PodGoes DEF Bridge!Steps
<1>6. CASE Bridge!ReadState(p)
  <2> DEFINE pod == [bridges[p] EXCEPT !.known = state, !.at = "metadata"]
  <2>1. pod \in PodType /\ pod.seen = bridges[p].seen /\ pod.at = "metadata"
    BY <1>1, BridgeTypes DEF PodType, Bridge!Steps
  <2>2. bridges' = [bridges EXCEPT ![p] = pod]
    BY <1>6, BridgeTypes DEF Bridge!ReadState
  <2> HIDE DEF pod
  <2> QED
    BY <1>1, <2>1, <2>2, LearnInv
<1>7. CASE Bridge!ReadKey(p)
  <2> DEFINE pod == [bridges[p] EXCEPT !.key = key, !.at = "put"]
  <2>1. pod \in PodType /\ pod.seen = bridges[p].seen /\ pod.at = "put"
    BY <1>1, BridgeTypes DEF PodType, Bridge!Steps, BridgeInv, Bridge!TypeOK
  <2>2. bridges' = [bridges EXCEPT ![p] = pod]
    BY <1>7, BridgeTypes DEF Bridge!ReadKey
  <2> HIDE DEF pod
  <2> QED
    BY <1>1, <2>1, <2>2, LearnInv
<1> QED
  BY <1>3, <1>4, <1>5, <1>6, <1>7 DEF Bridge!ReadCredentials, Bridge!MintToken, Bridge!ReadMetadata, Bridge!Revoke

LEMMA PodFailsInv ==
  ASSUME Bridge!BridgeAssumption, BridgeInv, NEW p \in Pods, Bridge!PodFails(p)
  PROVE  BridgeInv'
<1>1. /\ UNCHANGED <<origin, app, secret, key, state, second, mixed>>
      /\ bridgeTroubles' \in 0..MaxBridgeTroubles /\ bridgeTroubles <= bridgeTroubles'
  BY DEF Bridge!PodFails, BridgeInv, Bridge!TypeOK, Bridge!BridgeAssumption
<1>2. Bridge!NoPod \in PodType /\ Bridge!NoPod.seen = 0 /\ Bridge!NoPod.at = "idle"
  BY BridgeNumbers DEF Bridge!NoPod, PodType, Bridge!Steps
<1>3. CASE bridges' = [bridges EXCEPT ![p] = Bridge!NoPod]
  BY <1>1, <1>2, <1>3, PodRestarts
<1>4. CASE Bridge!Goes(p, "revoke")
  BY <1>1, <1>4, PodGoes DEF Bridge!Steps
<1> QED
  BY <1>3, <1>4 DEF Bridge!PodFails

LEMMA OthersInv ==
  ASSUME Bridge!BridgeAssumption, BridgeInv, Bridge!Provided \/ Bridge!RotateKey \/ Bridge!Tick \/ UNCHANGED Bridge!bridgeVars
  PROVE  BridgeInv'
<1>1. /\ UNCHANGED <<secret, state, bridges, mixed>>
      /\ origin' \in Bridge!Values /\ app' \in BOOLEAN /\ key' \in Bridge!Keys /\ key' <= bridgeTroubles'
      /\ second' \in Bridge!Seconds /\ second <= second' /\ bridgeTroubles' \in 0..MaxBridgeTroubles
  <2>1. /\ origin \in Bridge!Values /\ app \in BOOLEAN /\ key \in Bridge!Keys /\ key <= bridgeTroubles
        /\ second \in Bridge!Seconds /\ bridgeTroubles \in 0..MaxBridgeTroubles
    BY DEF BridgeInv, Bridge!TypeOK
  <2>2. CASE Bridge!Provided
    <3>1. app' \in BOOLEAN /\ origin' \in Bridge!Values
      <4>1. CASE app' = TRUE /\ origin' = origin
        BY <2>1, <4>1
      <4>2. CASE origin < LastValue /\ origin' = origin + 1 /\ app' = app
        BY <2>1, <4>2 DEF Bridge!Values, Bridge!BridgeAssumption
      <4> QED
        BY <2>2, <4>1, <4>2 DEF Bridge!Provided
    <3> QED
      BY <2>1, <2>2, <3>1 DEF Bridge!Provided, Bridge!Seconds, Bridge!BridgeAssumption
  <2>3. CASE Bridge!RotateKey
    BY <2>1, <2>3 DEF Bridge!RotateKey, Bridge!Keys, Bridge!Seconds, Bridge!BridgeAssumption
  <2>4. CASE Bridge!Tick
    BY <2>1, <2>4 DEF Bridge!Tick, Bridge!Seconds, Bridge!BridgeAssumption
  <2>5. CASE UNCHANGED Bridge!bridgeVars
    BY <2>1, <2>5 DEF Bridge!bridgeVars, Bridge!Seconds, Bridge!BridgeAssumption
  <2> QED
    BY <2>2, <2>3, <2>4, <2>5
<1>2. secret'.at <= second'
  BY <1>1, BridgeNumbers, BridgeTypes DEF BridgeInv, Bridge!TypeOK
<1>3. Bridge!TypeOK'
  BY <1>1 DEF BridgeInv, Bridge!TypeOK, Bridge!Values, Bridge!Seconds, Bridge!Keys, Bridge!Records, Bridge!Steps
<1> QED
  BY <1>1, <1>2, <1>3 DEF BridgeInv, StateInv, PodInv

LEMMA BridgeMoves ==
  ASSUME Bridge!BridgeAssumption, BridgeInv, [Bridge!Next]_Bridge!bridgeVars
  PROVE  BridgeInv'
BY ReadsInv, PutSecretInv, ConfirmInv, WriteStateInv, PodFailsInv, ForeignWriteInv, OthersInv
DEF Bridge!Next, Bridge!PodStep


LEMMA BridgeHolds ==
  ASSUME Bridge!BridgeAssumption
  PROVE  Bridge!Spec => []BridgeInv
BY BridgeStarts, BridgeMoves, PTL DEF Bridge!Spec

\* The bridge, GitHub and the ConfigMap hold values of their kind.
THEOREM BridgeTypeCorrect ==
  ASSUME Bridge!BridgeAssumption
  PROVE  Bridge!Spec => []Bridge!TypeOK
BY BridgeHolds, PTL DEF BridgeInv

\* Whatever others write, and however bridges overtake each other, a secret that the
\* bridge takes for current has the value of the origin, unless a write got lost in the
\* second of another one or between a PUT and the read of its second.
THEOREM CurrentHasTheValue ==
  ASSUME Bridge!BridgeAssumption
  PROVE  Bridge!Spec => []Bridge!CurrentIsRight
<1>1. BridgeInv => Bridge!CurrentIsRight
  BY DEF BridgeInv, StateInv, Bridge!CurrentIsRight, Bridge!SyncIsCurrent
<1> QED
  BY <1>1, BridgeHolds, PTL

-----------------------------------------------------------------------------
(* The programs beside each other. *)

\* A step of one program leaves the variables of the others alone: a behaviour of all is
\* one of each.
LEMMA EachRuns == ForgesSpec => Spec /\ Forge!Spec /\ Bridge!Spec
<1>1. ForgesInit => Init /\ Forge!Init /\ Bridge!Init
  BY DEF ForgesInit
<1>2. ASSUME [ForgesNext]_allVars
      PROVE  [Next]_vars /\ [Forge!Next]_Forge!vars /\ [Bridge!Next]_Bridge!bridgeVars
  <2>1. UNCHANGED vars => [Next]_vars
    OBVIOUS
  <2>2. UNCHANGED forgeVars => [Forge!Next]_Forge!vars
    BY DEF forgeVars, Forge!vars, Forge!podVars
  <2>3. UNCHANGED bridgeVars => [Bridge!Next]_Bridge!bridgeVars
    BY DEF bridgeVars, Bridge!bridgeVars
  <2> QED
    BY <1>2, <2>1, <2>2, <2>3 DEF ForgesNext, allVars
<1> QED
  BY <1>1, <1>2, PTL DEF ForgesSpec, Spec, Forge!Spec, Bridge!Spec

\* Every variable of the copier, the importer and the bridge holds values of its kind,
\* whichever of them moves.
THEOREM AllTyped ==
  ASSUME Forge!ForgeAssumption, Bridge!BridgeAssumption
  PROVE  ForgesSpec => []TypesOK
<1>1. Spec => []TypeOK
  BY TypeCorrect
<1>2. Forge!Spec => []Forge!TypeOK
  BY Forge!TypeCorrect
<1>3. Bridge!Spec => []Bridge!TypeOK
  BY BridgeTypeCorrect
<1> QED
  BY <1>1, <1>2, <1>3, EachRuns, PTL DEF TypesOK

\* Beside the others as well, the bridge takes GitHub's secret for current only when it
\* holds the value of the source.
THEOREM BridgeIsRight ==
  ASSUME Bridge!BridgeAssumption
  PROVE  ForgesSpec => []CurrentIsRight
BY CurrentHasTheValue, EachRuns, PTL DEF CurrentIsRight

\* A run of the forge importer that applied its files leaves the graph as the forge is, and
\* neither its files nor its heals do harm.
THEOREM ImporterIsRight ==
  ASSUME Forge!ForgeAssumption
  PROVE  ForgesSpec => []ForgeRight
<1>1. Forge!Spec => []Forge!ForgeRight
  BY Forge!RunIsRight
<1> QED
  BY <1>1, EachRuns, PTL DEF ForgeRight

\* A plan of the forge importer deletes only artifacts that the forge it read has not.
THEOREM ImporterDeletesGone ==
  ASSUME Forge!ForgeAssumption
  PROVE  ForgesSpec => DeletesOnlyGone
<1>1. Forge!Spec => Forge!DeletesOnlyGone
  BY Forge!OnlyGoneDeleted
<1> QED
  BY <1>1, EachRuns, PTL DEF DeletesOnlyGone
=============================================================================
