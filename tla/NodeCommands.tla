---------------------------- MODULE NodeCommands ----------------------------
(***************************************************************************)
(* The commands of the feicoind binary that work on files while no node    *)
(* runs (cmd/feicoind/cmd/commands.go): an export, the directories of a    *)
(* new testnet, a testnet in the place of a mainnet.  Whoever runs the     *)
(* binary chooses one; the files of the others are not there.              *)
(***************************************************************************)
EXTENDS ZeroHeightExport, TestnetInit, InPlaceTestnet

VARIABLE command

Init ==
  /\ command \in {"export", "multi-node", "in-place-testnet"}
  /\ ExportInit
  /\ MultiNodeInit
  /\ InPlaceInit

Export ==
  /\ command = "export"
  /\ ExportNext
  /\ UNCHANGED <<command, multiNodeVars, inPlaceVars>>

MultiNode ==
  /\ command = "multi-node"
  /\ MultiNodeNext
  /\ UNCHANGED <<command, exportVars, inPlaceVars>>

InPlace ==
  /\ command = "in-place-testnet"
  /\ InPlaceNext
  /\ UNCHANGED <<command, exportVars, multiNodeVars>>

Next == Export \/ MultiNode \/ InPlace

Spec == Init /\ [][Next]_<<command, exportVars, multiNodeVars, inPlaceVars>>
=============================================================================
