------------------------------ MODULE MCForges ------------------------------
EXTENDS Forges

MCAssetsOf == [r \in Releases |-> IF r = 2 THEN 2 ELSE 1]

\* The forge has one decision record, and one issue of one author.
MCForgeChunksOf == [v \in ForgeVersions |-> IF v = "two" THEN <<"a", "b">> ELSE <<"c">>]

ASSUME ForgesAssumption == Forge!ForgeAssumption /\ Bridge!BridgeAssumption

MCInit ==
  /\ ForgesInit
  /\ actor # "importer" => forge = Forge!NoForge
  /\ actor # "bridge" => origin = 1 /\ app /\ secret.value = 0

Importing == actor = "importer" /\ Forge!PodStep /\ UNCHANGED <<actor, vars, bridgeVars>>
Bridging(p) ==
  actor = "bridge" /\ Bridge!PodStep(p) /\ UNCHANGED <<actor, vars, forgeVars>>
Copying == actor = "mirror" /\ RunStep /\ UNCHANGED <<actor, forgeVars, bridgeVars>>
Mirroring ==
  actor = "mirror" /\ MirrorTag /\ UNCHANGED <<actor, forgeVars, bridgeVars>>

\* The CronJobs start their pods over and over, a pod that lives goes on, and the push
\* mirror brings every tag.
MCFairSpec ==
  /\ MCInit /\ [][ForgesNext]_allVars
  /\ WF_allVars(Importing \/ Copying) /\ WF_allVars(Mirroring)
  /\ \A p \in Pods : WF_allVars(Bridging(p))

\* Once the others rest and faults cease, GitHub has every release that can be copied
\* and was not left behind, the importer's graph settles on the forge, and the bridge
\* finds the secret current for good.
AllSettle ==
  <>[](CASE actor = "mirror" -> Copied
         [] actor = "importer" -> Forge!Settled
         [] OTHER -> Bridge!Settled)

-----------------------------------------------------------------------------
(* The copier alone, and the importer alone. *)

MirrorSpec   == actor = "mirror" /\ MCFairSpec
ImporterSpec == actor = "importer" /\ MCFairSpec

\* What the importer's documentation says: once the forge rests, the text of every document
\* in the graph is that of the forge, with the passages of that text.
TextsConverge == Forge!TextsConverge
=============================================================================
