------------------------------- MODULE Forges -------------------------------
(***************************************************************************)
(* Programs that carry what one place holds to another, again and again:   *)
(* the release copier of the GitHub mirrors, the GitHub secrets bridge and *)
(* the forge importer of the brain graph.  They share nothing but the      *)
(* forges, which each model lets others change as they can; so one of them *)
(* moves in a behaviour, `actor`, and the others stand at their start.     *)
(***************************************************************************)
EXTENDS GithubMirrors, ForgeRun

CONSTANTS Pods, LastValue, LastSecond, MaxBridgeTroubles

VARIABLES actor, origin, app, secret, key, state, bridges, second, mixed, bridgeTroubles

Bridge == INSTANCE SecretsBridge WITH
  MaxTroubles <- MaxBridgeTroubles, source <- origin, pods <- bridges, troubles <- bridgeTroubles

bridgeVars == <<origin, app, secret, key, state, bridges, second, mixed, bridgeTroubles>>
allVars    == <<actor, vars, forgeVars, bridgeVars>>

-----------------------------------------------------------------------------
ForgesInit ==
  /\ actor \in {"mirror", "importer", "bridge"}
  /\ Init /\ Forge!Init /\ Bridge!Init

ForgesNext ==
  \/ actor = "mirror" /\ Next /\ UNCHANGED <<actor, forgeVars, bridgeVars>>
  \/ actor = "importer" /\ Forge!Next /\ UNCHANGED <<actor, vars, bridgeVars>>
  \/ actor = "bridge" /\ Bridge!Next /\ UNCHANGED <<actor, vars, forgeVars>>

ForgesSpec == ForgesInit /\ [][ForgesNext]_allVars

-----------------------------------------------------------------------------
(* Properties: those of the copier keep their names, and ForgeRun has the importer's. *)

\* Every variable of the three holds values of its kind.
TypesOK == TypeOK /\ Forge!TypeOK /\ Bridge!TypeOK

\* The bridge stops writing only when GitHub has the value of the source.
CurrentIsRight == Bridge!CurrentIsRight
=============================================================================
