------------------------------ MODULE MCPages ------------------------------
EXTENDS Pages

(* One run that changes twice, and two actions at a time; two jobs, the second of which needs *)
(* the first, one of which is run again, in pages of one task; jobs whose labels are made of  *)
(* two words, and one workflow file that cannot be read.                                      *)

MCNeeds == [j \in PanelJobs |-> IF j = "b" THEN {"a"} ELSE {}]

\* A private and a public repository with two shared packages.
Fact(gate, topic, absent, dashboard, pin, pull) ==
  [gate |-> gate, topic |-> topic, absent |-> absent, dashboard |-> dashboard,
   pins |-> [p \in Packages |-> IF p = "workflows" THEN pin ELSE "newest"], pull |-> pull]
Read(dashboard, pin, pull) == Fact(TRUE, TRUE, FALSE, dashboard, pin, pull)
PublicFacts ==
  {Read(dashboard, pin, pull) : dashboard \in {"none", "clean", "errors", "approve", "queued", "rebase"},
     pin \in {"none", "unversioned", "old", "late", "newest"}, pull \in {"none", "success", "error", "pending"}}
  \cup {Fact(gate, topic, absent, "none", "old", "none") : gate \in BOOLEAN, topic \in BOOLEAN, absent \in BOOLEAN}
MCFacts == {[r \in {"priv", "pub"} |-> IF r = "priv" THEN Read("clean", "newest", "none") ELSE f] : f \in PublicFacts}
MCLater == {Read("clean", "late", "none"), Read("errors", "old", "success")}

ASSUME PagesAssumption == TokensAssumption /\ Panel!PanelAssumption /\ Inventory!InventoryAssumption

-----------------------------------------------------------------------------
MCInit ==
  /\ Starts
  /\ reader # "tokens" => auth = NoAuth
  /\ reader # "actions" => run.status = "done"
  /\ reader # "panel" => view = "run"
  /\ reader # "inventory" => token = "full" /\ facts["pub"] = Read("clean", "newest", "none")
  /\ GraphStarts

\* The fairness of each, for the one that moves.
TokensFair ==
  \A t \in Tabs : /\ WF_tokenVars(reader = "tokens" /\ Works(t))
                    /\ SF_tokenVars(reader = "tokens" /\ RefreshToken(t))

ActionsFair ==
  /\ WF_actionVars(reader = "actions" /\ (Actions!Poll \/ Actions!PollEnds))
  /\ WF_actionVars(reader = "actions" /\ Actions!Render)
  /\ WF_actionVars(reader = "actions" /\ Actions!Learn)
  /\ WF_actionVars(reader = "actions" /\ \E p \in posts : Actions!Take(p) \/ Actions!Answered(p))

PanelFair ==
  /\ WF_panelVars(reader = "panel" /\ (Panel!StartTask \/ Panel!EndTask))
  /\ WF_panelVars(reader = "panel" /\ Panel!Attempt)
  /\ WF_panelVars(reader = "panel" /\ Panel!Poll(1))
  /\ WF_panelVars(reader = "panel" /\ Panel!ScanStep(1))

GovernorFair ==
  /\ WF_governorVars(reader = "governor" /\ Governor!Tick)
  /\ WF_governorVars(reader = "governor" /\ Governor!Load)
  /\ WF_governorVars(reader = "governor" /\ Governor!Answer)
  /\ WF_governorVars(reader = "governor" /\ hidden /\ Governor!Visibility)
  /\ WF_governorVars(reader = "governor" /\ Governor!Deleted)

MCFairSpec ==
  /\ MCInit /\ [][PagesNext]_allVars
  /\ TokensFair /\ ActionsFair /\ PanelFair /\ GovernorFair
  /\ WF_inventoryVars(reader = "inventory" /\ Inventory!RunStep)

\* Once the others rest and troubles cease, a row with its button, the run view and the
\* board show what Forgejo has, the pipeline panel stops asking and no tab is left waiting
\* for a token.
AllSettle ==
  <>[](CASE reader = "tokens"    -> Settled
         [] reader = "actions"   -> Actions!Settled
         [] reader = "panel"     -> Panel!Settled
         [] reader = "governor"  -> Governor!Settled
         [] reader = "inventory" -> Inventory!Settled
         [] OTHER                -> TRUE)
=============================================================================
