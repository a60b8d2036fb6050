---------------------------- MODULE TestnetInit ----------------------------
(***************************************************************************)
(* feicoind multi-node (testnet_multi_node.go), run again and again on one *)
(* output directory: a run makes a directory for each node, with a key and *)
(* a genesis transaction (gentx); writes a first genesis file to each;     *)
(* copies the gentxs of all nodes to each; and collects them into the      *)
(* final genesis files.  Any step may fail, or be interrupted while it     *)
(* writes.  Some failures remove the output directory (if they can), most  *)
(* leave it for the next run.                                              *)
(*                                                                         *)
(* What is left is used again: a node keeps its identity and with it the   *)
(* name of its gentx file, while its account gets a new key in each run.   *)
(***************************************************************************)
EXTENDS Integers, FiniteSets

CONSTANTS
  MaxNodes, \* bound: nodes of a run (--v)
  MaxRuns,  \* bound: runs
  NoFile    \* no directory; no genesis file, or a torn one

Node == 0..MaxNodes - 1

(* A gentx is a record of the node its file is named after and of the run  *)
(* whose account it pays from, 0 if the file is torn.  A genesis is one of *)
(* the run whose accounts it has and of its gentxs, none at first; and it  *)
(* has no time at first, then one of its own node, which no other has, or  *)
(* the one that the run gives to all.                                      *)
Gentx == [node : Node, run : 0..MaxRuns]
GenesisFile ==
  [run : 0..MaxRuns, txs : SUBSET Gentx, time : {"none", "node", "run"}]
Directory ==
  [key : 0..MaxRuns, gentxs : SUBSET Gentx, genesis : GenesisFile \cup {NoFile}]

ASSUME TestnetAssumption ==
  /\ MaxNodes \in Nat \ {0} /\ MaxRuns \in Nat
  /\ NoFile \notin GenesisFile \cup Directory

VARIABLES
  dir,     \* per node: NoFile, or its directory: the run that made the key,
           \* the gentxs, the genesis (or NoFile)
  run,     \* the runs so far
  nodes,   \* nodes of this run
  stage,   \* "init", "genesis", "copy", "collect", or how the run has
           \* ended: "ok", "failed", "stale" (of a gentx from before)
  at,      \* the node the stage's loop is at
  state,   \* appState, the gentxs collected for the first node
  largest  \* history: the most nodes of the earlier runs on this directory

multiNodeVars == <<dir, run, nodes, stage, at, state, largest>>

MultiNodeInit ==
  /\ dir = [i \in Node |-> NoFile]
  /\ run = 0
  /\ nodes = 0
  /\ stage = "ok"
  /\ at = 0
  /\ state = {}
  /\ largest = 0

-----------------------------------------------------------------------------
Ended == stage \in {"ok", "failed", "stale"}

Start(n) ==
  /\ Ended
  /\ run < MaxRuns
  /\ run' = run + 1
  /\ nodes' = n
  /\ stage' = "init"
  /\ at' = 0
  /\ state' = {}
  /\ largest' = IF nodes > largest THEN nodes ELSE largest
  /\ UNCHANGED dir

(* The loop goes on, or the next stage begins.                             *)
NextNode(next) ==
  IF at + 1 < nodes THEN at' = at + 1 /\ stage' = stage
                    ELSE at' = 0 /\ stage' = next

Stop(how) == stage' = how /\ at' = 0

Unchanged == UNCHANGED <<run, nodes, largest>>

NewDirectory == [key |-> 0, gentxs |-> {}, genesis |-> NoFile]

(* A directory that is there is used as it is.                             *)
Made(i) == IF dir[i] = NoFile THEN NewDirectory ELSE dir[i]

(* Mutant of FileOf: the file is named after the account.                  *)
FileOfAccount(f) == f

FileOf(f) == f.node

(* Write files of a gentx directory, over those of the same name.          *)
Written(files, new) ==
  {f \in files : \A g \in new : FileOf(f) # FileOf(g)} \cup new

Own(i) == [node |-> i, run |-> run]

Torn(f) == [f EXCEPT !.run = 0]

(* One node's directory, keys and gentx; if the keyring cannot be opened   *)
(* or the gentx not be made, the directory stays as it is by then.         *)
InitNode ==
  /\ stage = "init"
  /\ LET keyed == [Made(at) EXCEPT !.key = run]
         with(f) == [keyed EXCEPT !.gentxs = Written(@, {f})]
         d == with(Own(at))
     IN  \/ dir' = [dir EXCEPT ![at] = d] /\ NextNode("genesis")
         \/ \E left \in {dir[at], Made(at), keyed, with(Torn(Own(at))), d} :
              dir' = [dir EXCEPT ![at] = left] /\ Stop("failed")
  /\ Unchanged /\ UNCHANGED state

(* The directory, the node's files or the key cannot be made: everything   *)
(* in the output directory is removed, whichever run made it.              *)
RemoveAll ==
  /\ stage = "init"
  /\ dir' = [i \in Node |-> NoFile]
  /\ nodes' = 0
  /\ largest' = 0
  /\ Stop("failed")
  /\ UNCHANGED <<run, state>>

(* initGenFiles: a genesis file without gentxs for each node.              *)
SaveGenesis ==
  /\ stage = "genesis"
  /\ \/ /\ dir' = [dir EXCEPT ![at].genesis = [run |-> run, txs |-> {}, time |-> "none"]]
        /\ NextNode("copy")
     \/ /\ \E left \in {dir[at].genesis, NoFile} :
             dir' = [dir EXCEPT ![at].genesis = left]
        /\ Stop("failed")
  /\ Unchanged /\ UNCHANGED state

(* Mutant of Gentxs: the gentxs of the node before only.                   *)
GentxsOfPrevious(i) == {Own(j) : j \in {i - 1} \cap 0..nodes - 1}

(* The gentx files that node i does not have itself.                       *)
Gentxs(i) == {Own(j) : j \in (0..nodes - 1) \ {i}}

(* A copy that fails leaves the files before, and perhaps a torn one.      *)
CopyGentxs ==
  /\ stage = "copy"
  /\ \/ /\ dir' = [dir EXCEPT ![at].gentxs = Written(@, Gentxs(at))]
        /\ NextNode("collect")
     \/ /\ \E some \in SUBSET Gentxs(at) :
             \E torn \in {{}} \cup {{Torn(f)} : f \in Gentxs(at) \ some} :
               dir' = [dir EXCEPT ![at].gentxs = Written(@, some \cup torn)]
        /\ Stop("failed")
  /\ Unchanged /\ UNCHANGED state

(* Collecting gentxs fails for one that is broken, or pays from an account *)
(* that the genesis file does not have.                                    *)
Stale(i) == \E f \in dir[i].gentxs : f.run # dir[i].genesis.run

(* collectGenFiles: the state of the first node is written for all.        *)
Canonical == IF at = 0 THEN dir[at].gentxs ELSE state

(* Collecting writes the node's own state with a time of its own, which is *)
(* overwritten by the canonical state and the time of the run.             *)
OwnGenesis == [run |-> run, txs |-> dir[at].gentxs, time |-> "node"]

CanonicalGenesis == [run |-> run, txs |-> Canonical, time |-> "run"]

Collect ==
  /\ stage = "collect"
  /\ \/ /\ ~Stale(at)
        /\ state' = Canonical
        /\ dir' = [dir EXCEPT ![at].genesis = CanonicalGenesis]
        /\ NextNode("ok")
     \/ /\ Stale(at)
        /\ UNCHANGED <<dir, state>>
        /\ Stop("stale")
     \/ /\ ~Stale(at)
        /\ \E left \in {dir[at].genesis, OwnGenesis, NoFile} :
             dir' = [dir EXCEPT ![at].genesis = left]
        /\ UNCHANGED state
        /\ Stop("failed")
  /\ Unchanged

MultiNodeNext ==
  \/ \E n \in 1..MaxNodes : Start(n)
  \/ InitNode \/ RemoveAll \/ SaveGenesis \/ CopyGentxs \/ Collect

MultiNodeSpec == MultiNodeInit /\ [][MultiNodeNext]_multiNodeVars

-----------------------------------------------------------------------------
Final(i) == dir[i] # NoFile /\ dir[i].genesis # NoFile /\ dir[i].genesis.txs # {}

(* The same accounts and gentxs, if perhaps not the same time.             *)
Alike(g, h) == g.run = h.run /\ g.txs = h.txs

(* When a run says that it has initialised the directories, its nodes have *)
(* one genesis, with the gentxs of this run's nodes and no others and one  *)
(* time, and the keys of its accounts; whatever runs before it have left.  *)
(* And directories of different testnets never stand side by side: however *)
(* many runs have failed half-way, two final genesis files have the same   *)
(* accounts and gentxs, and their times differ only where one of them was  *)
(* left by a run that ended before it gave that node the common time.      *)
OneGenesis ==
  /\ stage = "ok" => \A i \in 0..nodes - 1 :
       /\ dir[i].genesis =
            [run |-> run, txs |-> {Own(j) : j \in 0..nodes - 1}, time |-> "run"]
       /\ dir[i].key = run
  /\ \A i, j \in Node : Final(i) /\ Final(j) =>
       /\ Alike(dir[i].genesis, dir[j].genesis)
       /\ dir[i].genesis.time = "node" /\ dir[j].genesis.time = "node" => i = j

(* A run that failed can be repeated with as many nodes: without a fault   *)
(* of its own a run fails only if it has fewer nodes than one before it,   *)
(* whose gentxs are still there.                                           *)
RetryWorks == stage = "stale" => nodes < largest
=============================================================================
