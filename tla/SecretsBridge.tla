---------------------------- MODULE SecretsBridge ----------------------------
(***************************************************************************)
(* The GitHub secrets bridge                                               *)
(* (src/kubernetes/apps/github-secrets-bridge).                            *)
(*                                                                         *)
(* Every hour a pod copies one value into one Actions secret of a GitHub   *)
(* repository.  GitHub never shows a secret's value, only the second of    *)
(* its last write; the bridge therefore keeps in a ConfigMap the           *)
(* fingerprint of what it wrote and that second, and writes again when     *)
(* either differs.  A second pod may run beside the first: a Job made by   *)
(* hand from the CronJob, as the runbook of the App tells the owner to.    *)
(*                                                                         *)
(* Values are numbers, 0 is none; seconds are numbers.                     *)
(***************************************************************************)
EXTENDS Naturals, FiniteSets

CONSTANTS
  Pods,
  LastValue,                                   \* bound: values of the source
  LastSecond,                                  \* bound: GitHub's clock
  MaxTroubles                                  \* bound: faults, foreign writes and new keys

BridgeAssumption ==
  /\ LastValue \in Nat /\ LastSecond \in Nat \ {0} /\ MaxTroubles \in Nat
  /\ "someone" \notin Pods

VARIABLES
  source,    \* the value the provisioner publishes
  app,       \* OpenBao has the credentials of the GitHub App
  secret,    \* GitHub's secret: its value, or 0, and updated_at
  key,       \* the generation of the repository's public key
  state,     \* the ConfigMap: source_fingerprint and github_updated_at
  pods,      \* the pods' local variables and their next step
  second,    \* GitHub's clock
  mixed,     \* a write has got lost between a PUT and the read of its second
  troubles

bridgeVars == <<source, app, secret, key, state, pods, second, mixed, troubles>>

Values  == 0..LastValue
Seconds == 0..LastSecond
Keys    == 0..MaxTroubles

Steps == {"idle", "login", "mint", "state", "metadata", "key", "put", "confirm", "write", "revoke"}

NoPod == [at |-> "idle", value |-> 0, known |-> [value |-> 0, at |-> 0], key |-> 0, seen |-> 0]

Init ==
  /\ source \in Values /\ app \in BOOLEAN
  /\ secret \in {[value |-> v, at |-> 0] : v \in Values}
  /\ key = 0 /\ state = [value |-> 0, at |-> 0]
  /\ pods = [p \in Pods |-> NoPod]
  /\ second = 1 /\ mixed = FALSE /\ troubles = 0

Unchanging == UNCHANGED <<source, app, key, second, troubles>>
Goes(p, to) == pods' = [pods EXCEPT ![p].at = to]

Trouble == troubles < MaxTroubles /\ troubles' = troubles + 1

-----------------------------------------------------------------------------
(* A run. *)

\* read_source: a missing or empty value fails the run.
ReadSource(p) ==
  /\ pods[p].at = "idle" /\ source # 0
  /\ pods' = [pods EXCEPT ![p] = [NoPod EXCEPT !.at = "login", !.value = source]]
  /\ Unchanging /\ UNCHANGED <<secret, state, mixed>>

\* OpenBao: login and read_kv.  Absent credentials end the run with success.
ReadCredentials(p) ==
  /\ pods[p].at = "login"
  /\ IF app THEN Goes(p, "mint") ELSE pods' = [pods EXCEPT ![p] = NoPod]
  /\ Unchanging /\ UNCHANGED <<secret, state, mixed>>

\* github_app_jwt and mint_installation_token
MintToken(p) ==
  /\ pods[p].at = "mint" /\ Goes(p, "state")
  /\ Unchanging /\ UNCHANGED <<secret, state, mixed>>

ReadState(p) ==
  /\ pods[p].at = "state"
  /\ pods' = [pods EXCEPT ![p].known = state, ![p].at = "metadata"]
  /\ Unchanging /\ UNCHANGED <<secret, state, mixed>>

\* Mutant: what others change on GitHub is not looked at.
FingerprintCurrent(known, value, metadata) == metadata.value # 0 /\ known.value = value

\* sync_is_current: the secret exists, and fingerprint and second are the recorded ones.
SyncIsCurrent(known, value, metadata) ==
  metadata.value # 0 /\ known.value = value /\ known.at = metadata.at

ReadMetadata(p) ==
  /\ pods[p].at = "metadata"
  /\ Goes(p, IF SyncIsCurrent(pods[p].known, pods[p].value, secret) THEN "revoke" ELSE "key")
  /\ Unchanging /\ UNCHANGED <<secret, state, mixed>>

ReadKey(p) ==
  /\ pods[p].at = "key"
  /\ pods' = [pods EXCEPT ![p].key = key, ![p].at = "put"]
  /\ Unchanging /\ UNCHANGED <<secret, state, mixed>>

\* What GitHub opens a box with: it refuses one that is sealed for another key.
SealedBox(value, k) == [value |-> value, key |-> k]
Opens(box)          == box.key = key

\* A write gets lost when a pod is between its PUT and its read of the second, or
\* when another write happens in the same second.
Loses(writer) ==
  \/ \E p \in Pods \ {writer} : pods[p].at = "confirm"
  \/ secret.at = second

PutSecret(p) ==
  /\ pods[p].at = "put"
  /\ LET box == SealedBox(pods[p].value, pods[p].key)
     IN  IF Opens(box)
         THEN /\ secret' = [value |-> box.value, at |-> second]
              /\ mixed' = Loses(p) /\ Goes(p, "confirm")
         ELSE Goes(p, "revoke") /\ UNCHANGED <<secret, mixed>>
  /\ Unchanging /\ UNCHANGED state

SecondAfter(p) == secret.at

\* secret_metadata after the write; a secret that is absent again fails the run.
Confirm(p) ==
  /\ pods[p].at = "confirm"
  /\ pods' = [pods EXCEPT ![p].seen = SecondAfter(p),
                          ![p].at = IF secret.value = 0 THEN "revoke" ELSE "write"]
  /\ Unchanging /\ UNCHANGED <<secret, state, mixed>>

\* StateConfigMap.write replaces the whole map.
WriteState(p) ==
  /\ pods[p].at = "write"
  /\ state' = [value |-> pods[p].value, at |-> pods[p].seen]
  /\ Goes(p, "revoke")
  /\ Unchanging /\ UNCHANGED <<secret, mixed>>

\* finally: github.revoke()
Revoke(p) ==
  /\ pods[p].at = "revoke" /\ pods' = [pods EXCEPT ![p] = NoPod]
  /\ Unchanging /\ UNCHANGED <<secret, state, mixed>>

\* A call fails or its answer is lost, which ends in the revocation once there is a
\* token, or the pod is killed at its deadline.
PodFails(p) ==
  /\ pods[p].at # "idle" /\ Trouble
  /\ \/ pods' = [pods EXCEPT ![p] = NoPod]
     \/ pods[p].at \in Steps \ {"login", "mint", "revoke"} /\ Goes(p, "revoke")
  /\ UNCHANGED <<source, app, secret, key, state, second, mixed>>

-----------------------------------------------------------------------------
(* The others. *)

\* The owner creates the App, or the provisioner mints a new value.
Provided ==
  /\ \/ ~app /\ app' = TRUE /\ UNCHANGED source
     \/ source < LastValue /\ source' = source + 1 /\ UNCHANGED app
  /\ UNCHANGED <<secret, key, state, pods, second, mixed, troubles>>

RotateKey ==
  /\ Trouble /\ key' = key + 1
  /\ UNCHANGED <<source, app, secret, state, pods, second, mixed>>

\* Someone writes or deletes the secret outside the bridge.
ForeignWrite ==
  /\ Trouble
  /\ \E v \in Values :
       /\ v = 0 => secret.value # 0
       /\ secret' = [value |-> v, at |-> IF v = 0 THEN secret.at ELSE second]
       /\ mixed' = (v # 0 /\ Loses("someone"))
  /\ UNCHANGED <<source, app, key, state, pods, second>>

Tick ==
  /\ second < LastSecond /\ second' = second + 1
  /\ UNCHANGED <<source, app, secret, key, state, pods, mixed, troubles>>

PodStep(p) ==
  \/ ReadSource(p) \/ ReadCredentials(p) \/ MintToken(p) \/ ReadState(p) \/ ReadMetadata(p)
  \/ ReadKey(p) \/ PutSecret(p) \/ Confirm(p) \/ WriteState(p) \/ Revoke(p)

Next ==
  \/ \E p \in Pods : PodStep(p) \/ PodFails(p)
  \/ Provided \/ RotateKey \/ ForeignWrite \/ Tick

Spec == Init /\ [][Next]_bridgeVars

\* The CronJob starts a pod every hour, and a pod that lives goes on.
FairSpec == Spec /\ \A p \in Pods : WF_bridgeVars(PodStep(p))

-----------------------------------------------------------------------------
(* Properties. *)

Records == [value : Values, at : Seconds]

\* Every variable holds values of its kind.
TypeOK ==
  /\ source \in Values /\ app \in BOOLEAN /\ secret \in Records /\ key \in Keys
  /\ state \in Records /\ second \in Seconds /\ mixed \in BOOLEAN
  /\ pods \in [Pods -> [at : Steps, value : Values, known : Records, key : Keys, seen : Seconds]]
  /\ troubles \in 0..MaxTroubles

\* The bridge only takes the secret for current, and stops writing it, when GitHub has
\* the value of the source: whatever others wrote, and whichever of two pods was
\* overtaken, unless a write got lost in the second of another one or between a PUT
\* and the read of its second.
CurrentIsRight ==
  source # 0 /\ SyncIsCurrent(state, source, secret) => mixed \/ secret.value = source

Settled == app /\ source # 0 => SyncIsCurrent(state, source, secret)

=============================================================================
