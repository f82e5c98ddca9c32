---------------------------- MODULE GithubMirrors ----------------------------
(***************************************************************************)
(* The release copier of the GitHub mirrors                                *)
(* (src/kubernetes/apps/github-config/github-mirrors/app).                 *)
(*                                                                         *)
(* A CronJob run lists the releases of a Forgejo repository and of its     *)
(* GitHub mirror and copies the missing ones, oldest first: it creates a   *)
(* draft, uploads every asset, publishes.  When a step fails it deletes    *)
(* the draft.  The run keeps nothing: whatever it leaves on GitHub is all  *)
(* the next run knows.                                                     *)
(*                                                                         *)
(* One repository is modelled; a run goes through the others one by one.   *)
(* A release is a number, the order of created_at.  GitHub is external.    *)
(***************************************************************************)
EXTENDS Naturals, FiniteSets

CONSTANTS
  LastRelease,  \* releases are 1..LastRelease
  AssetsOf,     \* number of assets of a release
  Broken,       \* releases with an asset over MAX_ASSET_BYTES
  Kinds,        \* flags Forgejo gives a release
  CopyBudget,   \* MAX_RELEASE_COPIES_PER_RUN
  None,
  MaxEdits,     \* bound: releases and tags that appear
  MaxFailures,  \* bound: calls that fail while deletes work
  MaxLeaks      \* bound: runs that die, answers that are lost, deletes refused

Releases == 1..LastRelease

ASSUME MirrorAssumption ==
  /\ LastRelease \in Nat /\ None \notin Releases
  /\ AssetsOf \in [Releases -> Nat \ {0}]
  /\ Broken \subseteq Releases
  /\ Kinds \subseteq {"draft", "pre", "stable"}
  /\ CopyBudget \in Nat \ {0}
  /\ MaxEdits \in Nat /\ MaxFailures \in Nat /\ MaxLeaks \in Nat

VARIABLES
  forgejo,    \* the releases of the Forgejo repository: a kind or "absent"
  tags,       \* the tags the push mirror brought to GitHub
  github,     \* the releases on GitHub: "none", "draft", or a public kind
  uploaded,   \* assets of a GitHub release
  latest,     \* the release GitHub shows as latest
  phase,      \* where the run is
  listedTags, \* target_tags
  source,     \* source_releases, as listed
  missing,    \* releases still to copy
  copied,     \* copies that count against the budget
  edits, failures, leaks

hubVars == <<github, uploaded, latest>>
runVars == <<phase, listedTags, source, missing, copied>>
vars    == <<forgejo, tags, hubVars, runVars, edits, failures, leaks>>

Public == {"pre", "stable"}

NoneListed == [r \in Releases |-> "absent"]

\* sorted(...): the oldest missing release is next.
Current == CHOOSE r \in missing : \A s \in missing : r <= s

\* newest_stable_tag
NewestStable(r) == source[r] = "stable" /\ \A s \in Releases : source[s] = "stable" => s <= r

Init ==
  /\ forgejo = NoneListed /\ tags = {}
  /\ github = [r \in Releases |-> "none"] /\ uploaded = [r \in Releases |-> 0] /\ latest = None
  /\ phase = "idle" /\ listedTags = {} /\ source = NoneListed /\ missing = {} /\ copied = 0
  /\ edits = 0 /\ failures = 0 /\ leaks = 0

ListTags ==
  /\ phase = "idle"
  /\ phase' = "tags" /\ listedTags' = tags
  /\ UNCHANGED <<forgejo, tags, hubVars, source, missing, copied, edits, failures, leaks>>

\* A draft on GitHub has a tag name as well: it is not missing.
ListReleases ==
  /\ phase = "tags"
  /\ phase' = "next" /\ source' = forgejo
  /\ missing' = {r \in Releases : forgejo[r] # "absent" /\ github[r] = "none"}
  /\ copied' = 0
  /\ UNCHANGED <<forgejo, tags, hubVars, listedTags, edits, failures, leaks>>

\* Mutant: a run may copy one release more.
BudgetOverrun == copied <= CopyBudget

WithinBudget == copied < CopyBudget

\* Mutant: GitHub makes the tag a release lacks.
TaggedAlways == TRUE

Tagged == Current \in listedTags

\* The reconciler never creates a tag.
SkipUntagged ==
  /\ phase = "next" /\ missing # {} /\ WithinBudget
  /\ ~Tagged
  /\ missing' = missing \ {Current}
  /\ UNCHANGED <<forgejo, tags, hubVars, phase, listedTags, source, copied, edits, failures, leaks>>

CreateDraft ==
  /\ phase = "next" /\ missing # {} /\ WithinBudget
  /\ Tagged
  /\ github' = [github EXCEPT ![Current] = "draft"]
  /\ uploaded' = [uploaded EXCEPT ![Current] = 0]
  /\ phase' = "upload"
  /\ UNCHANGED <<forgejo, tags, latest, listedTags, source, missing, copied, edits, failures, leaks>>

\* GitHub refuses the draft, or its answer is lost and nothing knows the draft.
CreateFails ==
  /\ phase = "next" /\ missing # {} /\ WithinBudget
  /\ Tagged
  /\ \/ failures < MaxFailures /\ failures' = failures + 1 /\ UNCHANGED <<github, leaks>>
     \/ /\ leaks < MaxLeaks /\ leaks' = leaks + 1
        /\ github' = [github EXCEPT ![Current] = "draft"]
        /\ UNCHANGED failures
  /\ missing' = missing \ {Current}
  /\ UNCHANGED <<forgejo, tags, uploaded, latest, phase, listedTags, source, copied, edits>>

UploadAsset ==
  /\ phase = "upload" /\ uploaded[Current] < AssetsOf[Current]
  /\ Current \notin Broken
  /\ uploaded' = [uploaded EXCEPT ![Current] = @ + 1]
  /\ UNCHANGED <<forgejo, tags, github, latest, runVars, edits, failures, leaks>>

\* An asset that is too large fails in every run; any other may fail once.
UploadFails ==
  /\ phase = "upload" /\ uploaded[Current] < AssetsOf[Current]
  /\ \/ Current \in Broken /\ UNCHANGED failures
     \/ failures < MaxFailures /\ failures' = failures + 1
  /\ phase' = "discard"
  /\ UNCHANGED <<forgejo, tags, hubVars, listedTags, source, missing, copied, edits, leaks>>

\* Mutant: a release is public once it has its first asset.
ReadyWithFirst == uploaded[Current] > 0

Ready == uploaded[Current] = AssetsOf[Current]

Done == missing' = missing \ {Current} /\ phase' = "next"

Published ==
  /\ github' = [github EXCEPT ![Current] = source[Current]]
  /\ latest' = IF NewestStable(Current) THEN Current ELSE latest

\* A release that is a draft on Forgejo stays one.
Publish ==
  /\ phase = "upload" /\ Ready
  /\ IF source[Current] = "draft" THEN UNCHANGED <<github, latest>> ELSE Published
  /\ copied' = copied + 1
  /\ Done
  /\ UNCHANGED <<forgejo, tags, uploaded, listedTags, source, edits, failures, leaks>>

\* GitHub refuses, or publishes and its answer is lost.
PublishFails ==
  /\ phase = "upload" /\ Ready /\ source[Current] # "draft"
  /\ \/ failures < MaxFailures /\ failures' = failures + 1 /\ UNCHANGED <<github, latest, leaks>>
     \/ leaks < MaxLeaks /\ leaks' = leaks + 1 /\ Published /\ UNCHANGED failures
  /\ phase' = "discard"
  /\ UNCHANGED <<forgejo, tags, uploaded, listedTags, source, missing, copied, edits>>

\* Mutant: a copy that failed uses up the budget.
CountFailed == copied' = copied + 1

CountFailure == UNCHANGED copied

\* GitHub's latest once the current release has gone.
Fallback ==
  LET rest == {r \in Releases \ {Current} : github[r] = "stable"}
  IN  {r \in rest : \A s \in rest : s <= r} \cup (IF rest = {} THEN {None} ELSE {})

\* discard, then the next release: a failed copy does not count.
Discard ==
  /\ phase = "discard"
  /\ github' = [github EXCEPT ![Current] = "none"]
  /\ uploaded' = [uploaded EXCEPT ![Current] = 0]
  /\ IF latest = Current THEN latest' \in Fallback ELSE UNCHANGED latest
  /\ CountFailure
  /\ Done
  /\ UNCHANGED <<forgejo, tags, listedTags, source, edits, failures, leaks>>

\* The status of the delete is not looked at.
DiscardRefused ==
  /\ phase = "discard"
  /\ leaks < MaxLeaks /\ leaks' = leaks + 1
  /\ CountFailure
  /\ Done
  /\ UNCHANGED <<forgejo, tags, hubVars, listedTags, source, edits, failures>>

EndRun ==
  /\ phase = "next" /\ (missing = {} \/ ~WithinBudget)
  /\ phase' = "idle" /\ listedTags' = {} /\ source' = NoneListed /\ missing' = {} /\ copied' = 0
  /\ UNCHANGED <<forgejo, tags, hubVars, edits, failures, leaks>>

\* The pod passes its deadline of 840 s or its node goes.
Crash ==
  /\ phase # "idle" /\ leaks < MaxLeaks
  /\ leaks' = leaks + 1
  /\ phase' = "idle" /\ listedTags' = {} /\ source' = NoneListed /\ missing' = {} /\ copied' = 0
  /\ UNCHANGED <<forgejo, tags, hubVars, edits, failures>>

\* A release appears on Forgejo, or a draft or prerelease becomes more.
Release ==
  /\ edits < MaxEdits
  /\ \E r \in Releases, k \in Kinds :
       /\ \/ forgejo[r] = "absent"
          \/ forgejo[r] = "draft" /\ k # "draft"
          \/ forgejo[r] = "pre" /\ k = "stable"
       /\ forgejo' = [forgejo EXCEPT ![r] = k]
  /\ edits' = edits + 1
  /\ UNCHANGED <<tags, hubVars, runVars, failures, leaks>>

\* The push mirror brings a tag to GitHub.
MirrorTag ==
  /\ \E r \in Releases \ tags : forgejo[r] # "absent" /\ tags' = tags \cup {r}
  /\ UNCHANGED <<forgejo, hubVars, runVars, edits, failures, leaks>>

RunStep ==
  \/ ListTags \/ ListReleases \/ SkipUntagged \/ CreateDraft \/ UploadAsset
  \/ Publish \/ Discard \/ EndRun \/ (UNCHANGED failures /\ UploadFails)

Next == RunStep \/ CreateFails \/ UploadFails \/ PublishFails \/ DiscardRefused \/ Crash
          \/ Release \/ MirrorTag

Spec == Init /\ [][Next]_vars

\* The CronJob starts a run every 15 minutes, a run that lives takes its next
\* step, and the push mirror brings every tag.
FairSpec == Spec /\ WF_vars(RunStep) /\ WF_vars(MirrorTag)

-----------------------------------------------------------------------------
(* Properties. *)

\* Types of all variables.
TypeOK ==
  /\ forgejo \in [Releases -> Kinds \cup {"absent"}] /\ source \in [Releases -> Kinds \cup {"absent"}]
  /\ tags \in SUBSET Releases /\ listedTags \in SUBSET Releases /\ missing \in SUBSET Releases
  /\ github \in [Releases -> {"none", "draft"} \cup Public]
  /\ uploaded \in [Releases -> Nat] /\ \A r \in Releases : uploaded[r] <= AssetsOf[r]
  /\ latest \in Releases \cup {None}
  /\ phase \in {"idle", "tags", "next", "upload", "discard"}
  /\ missing = {} => phase \in {"idle", "tags", "next"}
  /\ copied \in 0..CopyBudget
  /\ edits \in 0..MaxEdits /\ failures \in 0..MaxFailures /\ leaks \in 0..MaxLeaks

\* Nobody ever sees a release on GitHub that lacks an asset, wherever a run dies.
PublicComplete == \A r \in Releases : github[r] \in Public => uploaded[r] = AssetsOf[r]

\* GitHub has a release only for a tag it has: no copy makes a tag.
NeverCreatesTag == \A r \in Releases : github[r] # "none" => r \in tags

\* Copying an older release, or a prerelease, never takes "latest" from a newer
\* one.  Only a run that deletes the release it has just published, because the
\* answer was lost, gives it back.
LatestMovesForward ==
  [][latest' # latest =>
       \/ phase = "discard" /\ leaks > 0 /\ latest = Current
       \/ /\ latest' # None /\ forgejo[latest'] = "stable"
          /\ latest # None => latest < latest']_vars

\* What a visitor of the mirror sees: the public releases.
Shown == [r \in Releases |-> IF github[r] \notin Public THEN "none"
                             ELSE IF uploaded[r] = AssetsOf[r] THEN github[r] ELSE "incomplete"]

\* The release that is public and that the run is about to discard.
InDoubt == IF phase = "discard" /\ github[Current] \in Public THEN Current ELSE None

Shelf == INSTANCE ReleaseShelf WITH
  Items <- Releases, shelf <- Shown, badge <- latest, doubt <- InDoubt

\* The copier implements the shelf: whatever fails and wherever a run dies, a release
\* appears at once with all its assets, is never edited, and is taken back only by the
\* run that had no answer to its publication; latest moves to newer stable releases.
ImplementsShelf == Shelf!Spec

Wanted(r) == forgejo[r] \in Public

\* Once Forgejo rests, every release that can be copied is on GitHub: a failed call, a
\* spent budget or a release that fails in every run holds none of the others back.
Copied == \A r \in Releases \ Broken : leaks = 0 /\ Wanted(r) => github[r] # "none"

\* The same without the exception for a draft left behind, where Forgejo has no drafts: "It copies each
\* release that is on Forgejo and not on GitHub".
AllCopied == \A r \in Releases \ Broken : <>[](Wanted(r) => github[r] \in Public)
=============================================================================
