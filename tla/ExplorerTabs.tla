---------------------------- MODULE ExplorerTabs ----------------------------
(***************************************************************************)
(* blockchain-explorer.html opened at one of its tabs: the forms that mint *)
(* with the log panel, the table of transactions, or the rewards.  The     *)
(* three share nothing that their modules have, so that whatever one of    *)
(* them can do it does while the others rest.                              *)
(***************************************************************************)
EXTENDS MintForm, TxTable, RewardsList

VARIABLE activeTab

vars == <<activeTab, formVars, tableVars, rewardsVars>>

(* The tab of the last visit is opened.                                    *)
Init ==
  /\ activeTab \in {"token", "wallet", "validator"}
  /\ FormInit
  /\ TableInit
  /\ RewardsInit

TokenTab ==
  /\ activeTab = "token"
  /\ FormNext
  /\ UNCHANGED <<activeTab, tableVars, rewardsVars>>

WalletTab ==
  /\ activeTab = "wallet"
  /\ TableNext
  /\ UNCHANGED <<activeTab, formVars, rewardsVars>>

ValidatorTab ==
  /\ activeTab = "validator"
  /\ RewardsNext
  /\ UNCHANGED <<activeTab, formVars, tableVars>>

Next == TokenTab \/ WalletTab \/ ValidatorTab

Spec == Init /\ [][Next]_vars

FairSpec == Spec /\ FormFairness
=============================================================================
