------------------------- MODULE NodeCommandsProofs -------------------------
(***************************************************************************)
(* Theorems about the commands of the binary that work on a stopped node's *)
(* files, for any sets of nodes, operators, validators and delegations.    *)
(* Their loops over sets are folds.                                        *)
(***************************************************************************)
EXTENDS NodeCommands, FoldTheorems, FiniteSetTheorems, WellFoundedInduction, TLAPS

-----------------------------------------------------------------------------
(* The multi-node command.                                                 *)

TestnetTypes ==
  /\ dir \in [Node -> Directory \cup {NoFile}]
  /\ run \in 0..MaxRuns
  /\ nodes \in 0..MaxNodes
  /\ stage \in {"init", "genesis", "copy", "collect", "ok", "failed", "stale"}
  /\ at \in Nat
  /\ state \in SUBSET Gentx
  /\ largest \in Nat
  /\ ~Ended => run >= 1 /\ at < nodes

(* A gentx file of a directory is of this run or of one before it, which   *)
(* had a node of its name; no two have one name.                           *)
Named(files) ==
  \A f \in files :
    /\ f.run <= run
    /\ f.run = run => f.node < nodes
    /\ f.node < nodes \/ f.node < largest
    /\ \A g \in files : f.node = g.node => f = g

GentxsNamed == \A i \in Node : dir[i] # NoFile => Named(dir[i].gentxs)

(* What this run has made by now of its gentxs.                            *)
AllOwn == {Own(j) : j \in 0..nodes - 1}

Keyed(i) == dir[i] # NoFile /\ dir[i].key = run /\ Own(i) \in dir[i].gentxs

TimeOf(txs) == IF txs = {} THEN "none" ELSE "run"

Has(i, txs) == dir[i].genesis = [run |-> run, txs |-> txs, time |-> TimeOf(txs)]

(* How far the directories of this run are.                                *)
Progress ==
  \A i \in 0..nodes - 1 :
    /\ (stage = "init" /\ i < at) \/ stage \in {"genesis", "copy", "collect"} =>
         Keyed(i)
    /\ (stage = "genesis" /\ i < at) \/ stage = "copy" \/ (stage = "collect" /\ i >= at) =>
         Has(i, {})
    /\ (stage = "copy" /\ i < at) \/ stage = "collect" =>
         AllOwn \subseteq dir[i].gentxs
    /\ (stage = "collect" /\ i < at) \/ stage = "ok" =>
         Has(i, AllOwn) /\ dir[i].key = run

(* Of the final genesis files, whichever run they are of: the gentxs of    *)
(* their nodes are in the first directory, they are alike, and one of them *)
(* at most has a time of its own.                                          *)
FinalsAgree ==
  /\ \A i \in Node :
       Final(i) => dir[0] # NoFile /\ \E f \in dir[0].gentxs : f.node = i
  /\ \A i, j \in Node : Final(i) /\ Final(j) =>
       /\ Alike(dir[i].genesis, dir[j].genesis)
       /\ dir[i].genesis.time = "node" /\ dir[j].genesis.time = "node" => i = j

(* When collecting has begun, those of earlier runs have gone.             *)
OldFinalsGone ==
  stage = "collect" /\ at > 0 =>
    state = AllOwn /\ \A i \in Node : Final(i) => i < at

TestnetInv ==
  /\ TestnetTypes
  /\ GentxsNamed
  /\ Progress
  /\ FinalsAgree
  /\ OldFinalsGone
  /\ RetryWorks

-----------------------------------------------------------------------------
LEMMA NodeFacts ==
  /\ Node \subseteq Nat /\ 0 \in Node
  /\ TestnetTypes => \A i \in 0..nodes - 1 : i \in Node
  BY TestnetAssumption DEF Node, TestnetTypes

(* Files that are written keep the names of those they replace.            *)
LEMMA WriteFiles ==
  ASSUME TestnetTypes, NEW files \in SUBSET Gentx, NEW new \in SUBSET Gentx,
         Named(files),
         \A f \in new : /\ f.node < nodes /\ f.run <= run
                        /\ \A g \in new : f.node = g.node => f = g
  PROVE  /\ Written(files, new) \in SUBSET Gentx
         /\ Named(Written(files, new))
         /\ new \subseteq Written(files, new)
         /\ \A f \in files : \E g \in Written(files, new) : g.node = f.node
         /\ \A f \in files : (\A g \in new : g.node # f.node) => f \in Written(files, new)
  BY DEF Written, FileOf, Named

(* A directory is changed, which keeps the names of its gentxs and gets no *)
(* new final genesis.                                                      *)
LEMMA ChangeDirectory ==
  ASSUME TestnetTypes, GentxsNamed, FinalsAgree,
         NEW i \in Node, NEW e \in Directory \cup {NoFile},
         dir' = [dir EXCEPT ![i] = e],
         UNCHANGED <<run, nodes, largest>>,
         e # NoFile => Named(e.gentxs),
         dir[i] # NoFile =>
           e # NoFile /\ \A f \in dir[i].gentxs : \E g \in e.gentxs : g.node = f.node,
         e # NoFile /\ e.genesis # NoFile /\ e.genesis.txs # {} =>
           Final(i) /\ e.genesis = dir[i].genesis
  PROVE  /\ dir' \in [Node -> Directory \cup {NoFile}]
         /\ GentxsNamed'
         /\ FinalsAgree'
         /\ \A j \in Node : Final(j)' => Final(j)
  <1>1. /\ dir' \in [Node -> Directory \cup {NoFile}]
        /\ dir'[i] = e
        /\ \A j \in Node \ {i} : dir'[j] = dir[j]
    BY DEF TestnetTypes
  <1>2. GentxsNamed'
    BY <1>1 DEF GentxsNamed, Named
  <1>3. \A j \in Node : Final(j)' => Final(j) /\ dir'[j].genesis = dir[j].genesis
    BY <1>1 DEF Final
  <1>4. \A f \in dir[0].gentxs : dir[0] # NoFile =>
           dir'[0] # NoFile /\ \E g \in dir'[0].gentxs : g.node = f.node
    BY <1>1, NodeFacts
  <1>5. FinalsAgree'
    BY <1>3, <1>4, NodeFacts DEF FinalsAgree
  <1>6. QED
    BY <1>1, <1>2, <1>3, <1>5

(* A step that ends the run in failure has only the directories to show.   *)
LEMMA FailedStep ==
  ASSUME TestnetInv, dir' \in [Node -> Directory \cup {NoFile}],
         GentxsNamed', FinalsAgree', Stop("failed"), Unchanged, UNCHANGED state
  PROVE  TestnetInv'
  <1>1. /\ stage' = "failed" /\ at' = 0
        /\ UNCHANGED <<run, nodes, largest, state>>
    BY DEF Stop, Unchanged
  <1>2. TestnetTypes'
    BY <1>1 DEF TestnetInv, TestnetTypes, Ended
  <1>3. Progress' /\ OldFinalsGone' /\ RetryWorks'
    BY <1>1 DEF Progress, OldFinalsGone, RetryWorks
  <1>4. QED
    BY <1>2, <1>3 DEF TestnetInv

(* The directory that the init stage works on, before and after its key.   *)
LEMMA MadeFacts ==
  ASSUME TestnetTypes, GentxsNamed, NEW i \in Node, NEW k \in 0..MaxRuns
  PROVE  /\ Made(i) \in Directory /\ [Made(i) EXCEPT !.key = k] \in Directory
         /\ Named(Made(i).gentxs)
         /\ dir[i] # NoFile => Made(i) = dir[i]
         /\ dir[i] = NoFile => Made(i).genesis = NoFile
  <1>1. NewDirectory \in Directory
    BY TestnetAssumption DEF NewDirectory, Directory
  <1>2. Made(i) \in Directory
    BY <1>1 DEF Made, TestnetTypes
  <1>3. QED
    BY <1>2 DEF Made, NewDirectory, Directory, GentxsNamed, Named

LEMMA InitNodeKeepsInv ==
  ASSUME TestnetInv, InitNode
  PROVE  TestnetInv'
  <1>1. PICK i \in Node, r \in 0..MaxRuns, n \in 0..MaxNodes :
          /\ i = at /\ r = run /\ n = nodes /\ i < n /\ r >= 1
          /\ stage = "init"
    BY NodeFacts DEF InitNode, TestnetInv, TestnetTypes, Ended
  <1>2. UNCHANGED <<run, nodes, largest, state>>
    BY DEF InitNode, Unchanged
  <1> DEFINE made == Made(i)
             own == [node |-> i, run |-> r]
             torn == [node |-> i, run |-> 0]
  <1>3. PICK m \in Directory : m = made
    BY MadeFacts DEF TestnetInv
  <1> DEFINE keyed == [m EXCEPT !.key = r]
             with(f) == [keyed EXCEPT !.gentxs = Written(m.gentxs, {f})]
  <1>4. own \in Gentx /\ torn \in Gentx /\ own = Own(at) /\ torn = Torn(Own(at))
    BY <1>1, TestnetAssumption DEF Gentx, Own, Torn
  <1>5. /\ keyed \in Directory /\ keyed.genesis = m.genesis /\ keyed.gentxs = m.gentxs
        /\ keyed.key = r
    BY DEF Directory
  <1>6. /\ Named(m.gentxs)
        /\ dir[i] # NoFile => m = dir[i]
        /\ dir[i] = NoFile => m.genesis = NoFile
    BY <1>3, MadeFacts DEF TestnetInv
  <1>7. ASSUME NEW f \in {own, torn}
        PROVE  /\ with(f) \in Directory /\ Named(with(f).gentxs)
               /\ with(f).genesis = m.genesis /\ with(f).key = r
               /\ f \in with(f).gentxs
               /\ \A g \in m.gentxs : \E h \in with(f).gentxs : h.node = g.node
    <2>1. /\ Written(m.gentxs, {f}) \in SUBSET Gentx
          /\ Named(Written(m.gentxs, {f}))
          /\ f \in Written(m.gentxs, {f})
          /\ \A g \in m.gentxs : \E h \in Written(m.gentxs, {f}) : h.node = g.node
      <3>1. f \in Gentx /\ f.node < nodes /\ f.run <= run /\ m.gentxs \in SUBSET Gentx
        BY <1>1, <1>4 DEF Directory
      <3>2. QED
        BY <3>1, <1>6, WriteFiles DEF TestnetInv
    <2>2. QED
      BY <2>1, <1>5 DEF Directory
  <1> HIDE DEF keyed, with, own, torn, made
  <1>8. ASSUME NEW e \in Directory \cup {NoFile}, dir' = [dir EXCEPT ![i] = e],
               e \in {dir[i], m, keyed, with(own), with(torn)}
        PROVE  /\ dir' \in [Node -> Directory \cup {NoFile}]
               /\ GentxsNamed' /\ FinalsAgree'
    <2>1. e # NoFile => Named(e.gentxs)
      BY <1>5, <1>6, <1>7, <1>8 DEF TestnetInv, GentxsNamed
    <2>2. dir[i] # NoFile =>
            e # NoFile /\ \A f \in dir[i].gentxs : \E g \in e.gentxs : g.node = f.node
      BY <1>5, <1>6, <1>7, <1>8, TestnetAssumption
    <2>3. e # NoFile => e = dir[i] \/ e.genesis = m.genesis
      BY <1>5, <1>7, <1>8
    <2>4. e # NoFile /\ e.genesis # NoFile /\ e.genesis.txs # {} =>
            Final(i) /\ e.genesis = dir[i].genesis
      BY <2>3, <1>6 DEF Final
    <2>5. QED
      BY <1>2, <1>8, <2>1, <2>2, <2>4, ChangeDirectory DEF TestnetInv
  <1>9. CASE dir' = [dir EXCEPT ![at] = with(own)] /\ NextNode("genesis")
    <2>1. dir' = [dir EXCEPT ![i] = with(own)] /\ with(own) \in Directory
      BY <1>1, <1>7, <1>9
    <2>2. dir' \in [Node -> Directory \cup {NoFile}] /\ GentxsNamed' /\ FinalsAgree'
      BY <2>1, <1>8
    <2>3. \/ i + 1 < n /\ at' = i + 1 /\ stage' = "init"
          \/ i + 1 >= n /\ at' = 0 /\ stage' = "genesis"
      BY <1>1, <1>9, NodeFacts DEF NextNode
    <2>4. TestnetTypes'
      BY <1>1, <1>2, <2>2, <2>3 DEF TestnetInv, TestnetTypes, Ended
    <2>5. ASSUME NEW j \in 0..n - 1, j <= i
          PROVE  Keyed(j)'
      <3>1. CASE j = i
        <4>1. dir'[j] = with(own) /\ with(own) # NoFile
          BY <3>1, <2>1, TestnetAssumption DEF TestnetInv, TestnetTypes
        <4>2. Own(j)' = own /\ run' = r
          BY <3>1, <1>1, <1>2 DEF Own, own
        <4>3. QED
          BY <4>1, <4>2, <1>7 DEF Keyed
      <3>2. CASE j # i
        <4>1. Keyed(j)
          BY <3>2, <2>5, <1>1, NodeFacts DEF TestnetInv, Progress
        <4>2. QED
          BY <4>1, <3>2, <2>1, <1>2, <1>1, NodeFacts DEF Keyed, Own, TestnetInv, TestnetTypes
      <3>3. QED
        BY <3>1, <3>2
    <2>6. Progress'
      <3>1. ASSUME NEW j \in 0..n - 1 PROVE j <= i \/ i + 1 < n
        BY NodeFacts, <1>1
      <3>2. stage' = "genesis" => \A j \in 0..n - 1 : j <= i
        BY <2>3, NodeFacts, <1>1
      <3>3. \A j \in 0..n - 1 : j < at' => j <= i
        BY <2>3, NodeFacts, <1>1
      <3>4. stage' \in {"init", "genesis"} /\ (stage' = "genesis" => at' = 0)
        BY <2>3
      <3>5. QED
        BY <2>5, <3>2, <3>3, <3>4, <1>1, <1>2 DEF Progress
    <2>7. OldFinalsGone' /\ RetryWorks'
      BY <2>3 DEF OldFinalsGone, RetryWorks
    <2>8. QED
      BY <2>2, <2>4, <2>6, <2>7 DEF TestnetInv
  <1>10. CASE \E left \in {dir[at], m, keyed, with(torn), with(own)} :
                dir' = [dir EXCEPT ![at] = left] /\ Stop("failed")
    <2>1. PICK e \in {dir[i], m, keyed, with(own), with(torn)} :
            dir' = [dir EXCEPT ![i] = e] /\ Stop("failed")
      BY <1>10, <1>1
    <2>2. e \in Directory \cup {NoFile}
      BY <1>5, <1>7 DEF TestnetInv, TestnetTypes
    <2>3. QED
      BY <2>1, <2>2, <1>8, <1>2, FailedStep DEF Unchanged
  <1>11. QED
    <2>1. /\ keyed = [Made(at) EXCEPT !.key = run]
          /\ m = Made(at)
          /\ with(own) = [keyed EXCEPT !.gentxs = Written(keyed.gentxs, {Own(at)})]
          /\ with(torn) = [keyed EXCEPT !.gentxs = Written(keyed.gentxs, {Torn(Own(at))})]
      BY <1>1, <1>3, <1>4, <1>5 DEF keyed, with, made
    <2>2. QED
      BY <1>9, <1>10, <2>1 DEF InitNode

LEMMA RemoveAllKeepsInv ==
  ASSUME TestnetInv, RemoveAll
  PROVE  TestnetInv'
  <1>1. /\ dir' = [i \in Node |-> NoFile] /\ nodes' = 0 /\ largest' = 0
        /\ stage' = "failed" /\ at' = 0 /\ UNCHANGED <<run, state>>
    BY DEF RemoveAll, Stop
  <1>2. TestnetTypes'
    BY <1>1, TestnetAssumption DEF TestnetInv, TestnetTypes, Ended
  <1>3. GentxsNamed' /\ FinalsAgree'
    BY <1>1 DEF GentxsNamed, FinalsAgree, Final
  <1>4. Progress' /\ OldFinalsGone' /\ RetryWorks'
    BY <1>1 DEF Progress, OldFinalsGone, RetryWorks
  <1>5. QED
    BY <1>2, <1>3, <1>4 DEF TestnetInv

LEMMA StartKeepsInv ==
  ASSUME TestnetInv, NEW n \in 1..MaxNodes, Start(n)
  PROVE  TestnetInv'
  <1>1. /\ run \in 0..MaxRuns /\ run < MaxRuns /\ run' = run + 1 /\ nodes' = n
        /\ stage' = "init" /\ at' = 0 /\ state' = {} /\ dir' = dir
        /\ largest' = IF nodes > largest THEN nodes ELSE largest
        /\ nodes \in Nat /\ largest \in Nat
    BY DEF Start, TestnetInv, TestnetTypes
  <1>2. TestnetTypes'
    BY <1>1, TestnetAssumption DEF TestnetInv, TestnetTypes, Ended
  <1>3. ASSUME NEW i \in Node, dir[i] # NoFile
        PROVE  Named(dir[i].gentxs)'
    <2>1. dir[i].gentxs \in SUBSET Gentx /\ Named(dir[i].gentxs)
      BY <1>3 DEF TestnetInv, TestnetTypes, GentxsNamed, Directory
    <2>2. \A f \in dir[i].gentxs : f.run \in 0..MaxRuns /\ f.node \in Nat
      BY <2>1, NodeFacts DEF Gentx
    <2>3. QED
      BY <1>1, <2>1, <2>2 DEF Named
  <1>4. GentxsNamed' /\ FinalsAgree'
    BY <1>1, <1>3 DEF TestnetInv, GentxsNamed, FinalsAgree, Final
  <1>5. Progress' /\ OldFinalsGone' /\ RetryWorks'
    BY <1>1 DEF Progress, OldFinalsGone, RetryWorks
  <1>6. QED
    BY <1>2, <1>4, <1>5 DEF TestnetInv

(* Where the loop of a stage goes on to.                                   *)
LEMMA NextNodeCases ==
  ASSUME TestnetTypes, NEW next, NextNode(next), at \in Node
  PROVE  \/ at + 1 < nodes /\ at' = at + 1 /\ stage' = stage
         \/ nodes <= at + 1 /\ at' = 0 /\ stage' = next
  BY NodeFacts DEF NextNode, TestnetTypes

LEMMA SaveGenesisKeepsInv ==
  ASSUME TestnetInv, SaveGenesis
  PROVE  TestnetInv'
  <1>1. PICK i \in Node, r \in 0..MaxRuns, n \in 0..MaxNodes :
          /\ i = at /\ r = run /\ n = nodes /\ i < n /\ r >= 1
          /\ stage = "genesis"
    BY NodeFacts DEF SaveGenesis, TestnetInv, TestnetTypes, Ended
  <1>2. UNCHANGED <<run, nodes, largest, state>>
    BY DEF SaveGenesis, Unchanged
  <1>3. Keyed(i)
    BY <1>1, NodeFacts DEF TestnetInv, Progress
  <1>4. PICK m \in Directory : m = dir[i]
    BY <1>3 DEF Keyed, TestnetInv, TestnetTypes
  <1> DEFINE with(g) == [m EXCEPT !.genesis = g]
             first == [run |-> r, txs |-> {}, time |-> "none"]
  <1>5. first \in GenesisFile
    BY DEF GenesisFile
  <1>6. ASSUME NEW g \in GenesisFile \cup {NoFile}
        PROVE  /\ with(g) \in Directory /\ with(g).gentxs = m.gentxs
               /\ with(g).genesis = g /\ with(g).key = m.key
    BY DEF Directory
  <1>7. m.genesis \in GenesisFile \cup {NoFile}
    BY DEF Directory
  <1> HIDE DEF with, first
  <1>8. ASSUME NEW g \in {first, m.genesis, NoFile}, dir' = [dir EXCEPT ![i] = with(g)]
        PROVE  /\ dir' \in [Node -> Directory \cup {NoFile}]
               /\ GentxsNamed' /\ FinalsAgree'
    <2>1. g \in GenesisFile \cup {NoFile}
      BY <1>5, <1>7
    <2>2. with(g) # NoFile => Named(with(g).gentxs)
      BY <1>4, <1>6, <2>1, TestnetAssumption DEF TestnetInv, GentxsNamed
    <2>3. dir[i] # NoFile =>
            with(g) # NoFile
            /\ \A f \in dir[i].gentxs : \E h \in with(g).gentxs : h.node = f.node
      BY <1>4, <1>6, <2>1, TestnetAssumption
    <2>4. with(g) # NoFile /\ with(g).genesis # NoFile /\ with(g).genesis.txs # {} =>
            Final(i) /\ with(g).genesis = dir[i].genesis
      BY <1>4, <1>6, <2>1, TestnetAssumption DEF Final, first
    <2>5. QED
      BY <1>2, <1>6, <1>8, <2>1, <2>2, <2>3, <2>4, ChangeDirectory DEF TestnetInv
  <1>9. CASE dir' = [dir EXCEPT ![at] = with(first)] /\ NextNode("copy")
    <2>1. dir' = [dir EXCEPT ![i] = with(first)]
      BY <1>1, <1>9
    <2>2. dir' \in [Node -> Directory \cup {NoFile}] /\ GentxsNamed' /\ FinalsAgree'
      BY <2>1, <1>8
    <2>3. \/ i + 1 < n /\ at' = i + 1 /\ stage' = "genesis"
          \/ n <= i + 1 /\ at' = 0 /\ stage' = "copy"
      BY <1>1, <1>9, NextNodeCases DEF TestnetInv
    <2>4. TestnetTypes'
      BY <1>1, <1>2, <2>2, <2>3, NodeFacts DEF TestnetInv, TestnetTypes, Ended
    <2>5. dir'[i] = with(first) /\ \A j \in Node : j # i => dir'[j] = dir[j]
      BY <2>1 DEF TestnetInv, TestnetTypes
    <2>6. ASSUME NEW j \in 0..n - 1
          PROVE  Keyed(j)' /\ (j <= i => Has(j, {})')
      <3>1. CASE j = i
        BY <3>1, <2>5, <1>1, <1>2, <1>3, <1>4, <1>5, <1>6, TestnetAssumption
        DEF Keyed, Own, Has, TimeOf, first
      <3>2. CASE j # i
        <4>1. Keyed(j) /\ (j < i => Has(j, {}))
          BY <1>1 DEF TestnetInv, Progress
        <4>2. j \in Node
          BY <1>1, NodeFacts DEF TestnetInv
        <4>3. QED
          BY <4>1, <4>2, <3>2, <2>5, <1>1, <1>2, NodeFacts DEF Keyed, Own, Has
      <3>3. QED
        BY <3>1, <3>2
    <2>7. Progress'
      <3>1. /\ stage' = "copy" => \A j \in 0..n - 1 : j <= i
            /\ \A j \in 0..n - 1 : j < at' => j <= i
            /\ stage' \in {"genesis", "copy"} /\ (stage' = "copy" => at' = 0)
        BY <2>3, NodeFacts, <1>1
      <3>2. QED
        BY <2>6, <3>1, <1>1, <1>2 DEF Progress
    <2>8. OldFinalsGone' /\ RetryWorks'
      BY <2>3 DEF OldFinalsGone, RetryWorks
    <2>9. QED
      BY <2>2, <2>4, <2>7, <2>8 DEF TestnetInv
  <1>10. CASE /\ \E left \in {m.genesis, NoFile} : dir' = [dir EXCEPT ![at] = with(left)]
              /\ Stop("failed")
    BY <1>1, <1>2, <1>8, <1>10, FailedStep DEF Unchanged
  <1>11. QED
    <2>1. \A g : [dir EXCEPT ![at].genesis = g] = [dir EXCEPT ![at] = with(g)]
      BY <1>1, <1>4 DEF with
    <2>2. QED
      BY <2>1, <1>1, <1>4, <1>9, <1>10 DEF SaveGenesis, first

(* The gentxs of the other nodes, whole or torn.                           *)
LEMMA GentxsFacts ==
  ASSUME TestnetTypes, NEW i \in Node, run >= 1
  PROVE  /\ Gentxs(i) \subseteq Gentx
         /\ \A f \in Gentxs(i) : /\ f.node < nodes /\ f.run = run /\ f.node # i
                                 /\ \A g \in Gentxs(i) : f.node = g.node => f = g
                                 /\ Torn(f) \in Gentx /\ Torn(f).node = f.node
                                 /\ Torn(f).run = 0
         /\ AllOwn \subseteq Gentxs(i) \cup {Own(i)}
  <1>1. \A j \in 0..nodes - 1 : j \in Node /\ j < nodes
    BY NodeFacts DEF TestnetTypes
  <1>2. \A j \in Node : Own(j) \in Gentx /\ Own(j).node = j /\ Own(j).run = run
    BY DEF Own, Gentx, TestnetTypes
  <1>3. \A f \in Gentx : Torn(f) \in Gentx /\ Torn(f).node = f.node /\ Torn(f).run = 0
    BY TestnetAssumption DEF Torn, Gentx
  <1>4. QED
    BY <1>1, <1>2, <1>3 DEF Gentxs, AllOwn

LEMMA CopyGentxsKeepsInv ==
  ASSUME TestnetInv, CopyGentxs
  PROVE  TestnetInv'
  <1>1. PICK i \in Node, r \in 0..MaxRuns, n \in 0..MaxNodes :
          /\ i = at /\ r = run /\ n = nodes /\ i < n /\ r >= 1
          /\ stage = "copy"
    BY NodeFacts DEF CopyGentxs, TestnetInv, TestnetTypes, Ended
  <1>2. UNCHANGED <<run, nodes, largest, state>>
    BY DEF CopyGentxs, Unchanged
  <1>3. Keyed(i)
    BY <1>1, NodeFacts DEF TestnetInv, Progress
  <1>4. PICK m \in Directory : m = dir[i]
    BY <1>3 DEF Keyed, TestnetInv, TestnetTypes
  <1>5. Named(m.gentxs) /\ m.gentxs \in SUBSET Gentx
    BY <1>3, <1>4 DEF Keyed, TestnetInv, GentxsNamed, Directory
  <1> DEFINE with(new) == [m EXCEPT !.gentxs = Written(m.gentxs, new)]
  <1>6. ASSUME NEW new \in SUBSET Gentx,
               \A f \in new : /\ f.node < nodes /\ f.run <= run
                              /\ \A g \in new : f.node = g.node => f = g
        PROVE  /\ with(new) \in Directory /\ Named(with(new).gentxs)
               /\ with(new).genesis = m.genesis /\ with(new).key = m.key
               /\ new \subseteq with(new).gentxs
               /\ \A f \in m.gentxs : \E g \in with(new).gentxs : g.node = f.node
               /\ \A f \in m.gentxs :
                    (\A g \in new : g.node # f.node) => f \in with(new).gentxs
    <2>1. /\ Written(m.gentxs, new) \in SUBSET Gentx
          /\ Named(Written(m.gentxs, new))
          /\ new \subseteq Written(m.gentxs, new)
          /\ \A f \in m.gentxs : \E g \in Written(m.gentxs, new) : g.node = f.node
          /\ \A f \in m.gentxs :
               (\A g \in new : g.node # f.node) => f \in Written(m.gentxs, new)
      BY <1>5, <1>6, WriteFiles DEF TestnetInv
    <2>2. QED
      BY <2>1 DEF Directory
  <1> HIDE DEF with
  <1>7. ASSUME NEW new \in SUBSET Gentx,
               \A f \in new : /\ f.node < nodes /\ f.run <= run
                              /\ \A g \in new : f.node = g.node => f = g,
               dir' = [dir EXCEPT ![i] = with(new)]
        PROVE  /\ dir' \in [Node -> Directory \cup {NoFile}]
               /\ GentxsNamed' /\ FinalsAgree'
    <2>1. with(new).genesis # NoFile /\ with(new).genesis.txs # {} =>
            Final(i) /\ with(new).genesis = dir[i].genesis
      BY <1>3, <1>4, <1>6, <1>7 DEF Final, Keyed
    <2>2. with(new) \in Directory /\ Named(with(new).gentxs)
      BY <1>6, <1>7
    <2>3. \A f \in dir[i].gentxs : \E g \in with(new).gentxs : g.node = f.node
      BY <1>4, <1>6, <1>7
    <2>4. with(new) # NoFile
      BY <2>2, TestnetAssumption
    <2>5. QED
      BY <1>2, <1>7, <2>1, <2>2, <2>3, <2>4, ChangeDirectory DEF TestnetInv
  <1>8. /\ Gentxs(i) \in SUBSET Gentx
        /\ \A f \in Gentxs(i) : /\ f.node < nodes /\ f.run <= run /\ f.node # i
                                /\ \A g \in Gentxs(i) : f.node = g.node => f = g
        /\ AllOwn \subseteq Gentxs(i) \cup {Own(i)}
    BY <1>1, GentxsFacts DEF TestnetInv
  <1>9. CASE dir' = [dir EXCEPT ![at] = with(Gentxs(at))] /\ NextNode("collect")
    <2>1. PICK new \in SUBSET Gentx : new = Gentxs(i)
      BY <1>8
    <2>2. dir' = [dir EXCEPT ![i] = with(new)]
      BY <1>1, <1>9, <2>1
    <2>3. dir' \in [Node -> Directory \cup {NoFile}] /\ GentxsNamed' /\ FinalsAgree'
      BY <2>1, <2>2, <1>7, <1>8
    <2>4. \/ i + 1 < n /\ at' = i + 1 /\ stage' = "copy"
          \/ n <= i + 1 /\ at' = 0 /\ stage' = "collect"
      BY <1>1, <1>9, NextNodeCases DEF TestnetInv
    <2>5. TestnetTypes'
      BY <1>1, <1>2, <2>3, <2>4, NodeFacts DEF TestnetInv, TestnetTypes, Ended
    <2>6. dir'[i] = with(new) /\ \A j \in Node : j # i => dir'[j] = dir[j]
      BY <2>2 DEF TestnetInv, TestnetTypes
    <2>7. /\ with(new) # NoFile /\ with(new).genesis = m.genesis /\ with(new).key = m.key
          /\ Own(i) \in with(new).gentxs /\ AllOwn \subseteq with(new).gentxs
      <3>1. /\ with(new) \in Directory /\ new \subseteq with(new).gentxs
            /\ with(new).genesis = m.genesis /\ with(new).key = m.key
            /\ \A f \in m.gentxs :
                 (\A g \in new : g.node # f.node) => f \in with(new).gentxs
        BY <1>6, <1>8, <2>1
      <3>2. Own(i) \in with(new).gentxs
        BY <3>1, <1>3, <1>4, <1>8, <2>1 DEF Keyed, Own
      <3>3. QED
        BY <3>1, <3>2, <1>8, <2>1, TestnetAssumption
    <2>8. AllOwn' = AllOwn
      BY <1>2 DEF AllOwn, Own
    <2>9. ASSUME NEW j \in 0..n - 1
          PROVE  Keyed(j)' /\ Has(j, {})' /\ (j <= i => AllOwn' \subseteq dir'[j].gentxs)
      <3>1. Keyed(j) /\ Has(j, {}) /\ (j < i => AllOwn \subseteq dir[j].gentxs)
        BY <1>1 DEF TestnetInv, Progress
      <3>2. j \in Node
        BY <1>1, NodeFacts DEF TestnetInv
      <3>3. CASE j = i
        BY <3>1, <3>3, <2>6, <2>7, <2>8, <1>2, <1>4 DEF Keyed, Own, Has
      <3>4. CASE j # i
        BY <3>1, <3>2, <3>4, <2>6, <2>8, <1>2, NodeFacts DEF Keyed, Own, Has
      <3>5. QED
        BY <3>3, <3>4
    <2>10. Progress'
      <3>1. /\ stage' = "collect" => \A j \in 0..n - 1 : j <= i
            /\ \A j \in 0..n - 1 : j < at' => j <= i
            /\ stage' \in {"copy", "collect"} /\ (stage' = "collect" => at' = 0)
        BY <2>4, NodeFacts, <1>1
      <3>2. QED
        BY <2>9, <3>1, <1>1, <1>2 DEF Progress
    <2>11. OldFinalsGone' /\ RetryWorks'
      BY <2>4 DEF OldFinalsGone, RetryWorks
    <2>12. QED
      BY <2>3, <2>5, <2>10, <2>11 DEF TestnetInv
  <1>10. ASSUME NEW some \in SUBSET Gentxs(at),
                NEW torn \in {{}} \cup {{Torn(f)} : f \in Gentxs(at) \ some},
                dir' = [dir EXCEPT ![at] = with(some \cup torn)], Stop("failed")
         PROVE  TestnetInv'
    <2>1. some \cup torn \in SUBSET Gentx
      BY <1>1, <1>8, GentxsFacts DEF TestnetInv
    <2>2. \A f \in some \cup torn :
            /\ f.node < nodes /\ f.run <= run
            /\ \A g \in some \cup torn : f.node = g.node => f = g
      <3>1. \A f \in Gentxs(i) : /\ f.node < nodes /\ f.run <= run /\ 0 <= run
                                 /\ \A g \in Gentxs(i) : f.node = g.node => f = g
                                 /\ Torn(f).node = f.node /\ Torn(f).run = 0
        BY <1>1, <1>8, GentxsFacts DEF TestnetInv
      <3>2. torn = {} \/ \E f \in Gentxs(i) \ some : torn = {Torn(f)}
        BY <1>1, <1>10
      <3>3. QED
        BY <1>1, <3>1, <3>2
    <2>3. dir' = [dir EXCEPT ![i] = with(some \cup torn)]
      BY <1>1, <1>10
    <2>4. PICK new \in SUBSET Gentx : new = some \cup torn
      BY <2>1
    <2>5. dir' \in [Node -> Directory \cup {NoFile}] /\ GentxsNamed' /\ FinalsAgree'
      BY <2>2, <2>3, <2>4, <1>7
    <2>6. QED
      BY <2>5, <1>2, <1>10, FailedStep DEF Unchanged
  <1>11. QED
    <2>1. \A new : [dir EXCEPT ![at].gentxs = Written(@, new)] = [dir EXCEPT ![at] = with(new)]
      BY <1>1, <1>4 DEF with
    <2>2. QED
      BY <2>1, <1>9, <1>10 DEF CopyGentxs

(* Gentxs that can be collected are those of this run's nodes.             *)
LEMMA CollectedFacts ==
  ASSUME TestnetInv, stage = "collect", NEW i \in 0..nodes - 1, i >= at
  PROVE  /\ ~Stale(i) => dir[i].gentxs = AllOwn
         /\ Stale(i) => nodes < largest
  <1>1. /\ i \in Node /\ run \in 0..MaxRuns /\ nodes \in Nat /\ largest \in Nat
        /\ Keyed(i) /\ Has(i, {}) /\ AllOwn \subseteq dir[i].gentxs
    BY NodeFacts DEF TestnetInv, TestnetTypes, Progress
  <1>2. Named(dir[i].gentxs) /\ dir[i].gentxs \in SUBSET Gentx
    BY <1>1 DEF Keyed, TestnetInv, TestnetTypes, GentxsNamed, Directory
  <1>3. \A f \in dir[i].gentxs : f.node \in Nat /\ f = [node |-> f.node, run |-> f.run]
    BY <1>2, NodeFacts DEF Gentx
  <1>4. \A f \in dir[i].gentxs : f.run = run => f \in AllOwn
    <2>1. ASSUME NEW f \in dir[i].gentxs, f.run = run
          PROVE  f \in AllOwn
      <3>1. f.node \in 0..nodes - 1 /\ f = Own(f.node)
        BY <1>1, <1>2, <1>3, <2>1 DEF Named, Own
      <3>2. QED
        BY <3>1 DEF AllOwn
    <2>2. QED
      BY <2>1
  <1>5. dir[i].genesis.run = run
    BY <1>1 DEF Has
  <1>6. ASSUME ~Stale(i) PROVE dir[i].gentxs = AllOwn
    BY <1>1, <1>4, <1>5, <1>6 DEF Stale
  <1>7. ASSUME Stale(i) PROVE nodes < largest
    <2>1. PICK f \in dir[i].gentxs : f.run # run
      BY <1>5, <1>7 DEF Stale
    <2>2. CASE f.node < nodes
      <3>1. Own(f.node) \in dir[i].gentxs /\ Own(f.node).node = f.node
        BY <1>1, <1>3, <2>2 DEF AllOwn, Own
      <3>2. f = Own(f.node)
        BY <3>1, <1>2 DEF Named
      <3>3. QED
        BY <3>2, <2>1 DEF Own
    <2>3. CASE ~(f.node < nodes)
      BY <2>3, <1>1, <1>2, <1>3 DEF Named
    <2>4. QED
      BY <2>2, <2>3
  <1>8. QED
    BY <1>6, <1>7

(* When the first genesis file is about to be made, none is final.         *)
LEMMA NoneFinalBefore ==
  ASSUME TestnetInv, stage = "collect", at = 0, ~Stale(0), NEW j \in Node
  PROVE  ~Final(j)
  <1>1. 0 < nodes /\ nodes \in Nat /\ j \in Nat
    BY NodeFacts DEF TestnetInv, TestnetTypes, Ended
  <1>2. dir[0].gentxs = AllOwn
    BY <1>1, CollectedFacts
  <1>3. SUFFICES ASSUME Final(j) PROVE FALSE
    OBVIOUS
  <1>4. PICK f \in dir[0].gentxs : f.node = j
    BY <1>3 DEF TestnetInv, FinalsAgree
  <1>5. j < nodes
    <2>1. PICK k \in 0..nodes - 1 : f = Own(k)
      BY <1>2, <1>4 DEF AllOwn
    <2>2. j = k
      BY <2>1, <1>4 DEF Own
    <2>3. QED
      BY <2>2, <1>1
  <1>6. Has(j, {})
    BY <1>1, <1>5 DEF TestnetInv, Progress
  <1>7. QED
    BY <1>3, <1>6 DEF Has, Final

LEMMA CollectKeepsInv ==
  ASSUME TestnetInv, Collect
  PROVE  TestnetInv'
  <1>1. PICK i \in Node, r \in 0..MaxRuns, n \in 0..MaxNodes :
          /\ i = at /\ r = run /\ n = nodes /\ i < n /\ r >= 1
          /\ stage = "collect"
    BY NodeFacts DEF Collect, TestnetInv, TestnetTypes, Ended
  <1>2. UNCHANGED <<run, nodes, largest>>
    BY DEF Collect, Unchanged
  <1>3. Keyed(i) /\ Has(i, {}) /\ i \in 0..nodes - 1
    BY <1>1, NodeFacts DEF TestnetInv, Progress
  <1>4. PICK m \in Directory : m = dir[i]
    BY <1>3 DEF Keyed, TestnetInv, TestnetTypes
  <1>5. PICK a \in SUBSET Gentx : a = AllOwn
    <2>1. AllOwn \subseteq dir[i].gentxs
      BY <1>1, <1>3 DEF TestnetInv, Progress
    <2>2. QED
      BY <2>1, <1>4 DEF Directory
  <1>6. AllOwn' = a
    BY <1>2, <1>5 DEF AllOwn, Own
  <1>7. CASE Stale(at)
    <2>1. nodes < largest
      BY <1>1, <1>3, <1>7, CollectedFacts
    <2>2. UNCHANGED <<dir, state, run, nodes, largest>> /\ stage' = "stale" /\ at' = 0
      BY <1>2, <1>7 DEF Collect, Stop
    <2>3. TestnetTypes'
      BY <2>2 DEF TestnetInv, TestnetTypes, Ended
    <2>4. GentxsNamed' /\ FinalsAgree'
      BY <2>2 DEF TestnetInv, GentxsNamed, Named, FinalsAgree, Final
    <2>5. Progress' /\ OldFinalsGone' /\ RetryWorks'
      BY <2>1, <2>2 DEF Progress, OldFinalsGone, RetryWorks
    <2>6. QED
      BY <2>3, <2>4, <2>5 DEF TestnetInv
  <1> DEFINE with(g) == [m EXCEPT !.genesis = g]
             final == [run |-> r, txs |-> a, time |-> "run"]
             own == [run |-> r, txs |-> a, time |-> "node"]
  <1>8. CASE ~Stale(at)
    <2>1. dir[i].gentxs = a /\ m.gentxs = a
      BY <1>1, <1>3, <1>4, <1>5, <1>8, CollectedFacts
    <2>2. Canonical = a /\ OwnGenesis = own
      BY <1>1, <1>5, <2>1 DEF Canonical, OwnGenesis, TestnetInv, OldFinalsGone, TestnetTypes
    <2>3. Own(i) \in a /\ a # {}
      BY <1>3, <1>5 DEF AllOwn
    <2>4. \A j \in Node : Final(j) => j < i /\ dir[j].genesis = final
      <3>1. ASSUME NEW j \in Node, Final(j) PROVE j < i /\ dir[j].genesis = final
        <4>1. i # 0
          BY <1>1, <1>8, <3>1, NoneFinalBefore
        <4>2. j < i
          BY <4>1, <1>1, <3>1, NodeFacts DEF TestnetInv, OldFinalsGone
        <4>3. Has(j, AllOwn)
          BY <4>2, <1>1, NodeFacts DEF TestnetInv, Progress
        <4>4. QED
          BY <4>2, <4>3, <1>1, <1>5, <2>3 DEF Has, TimeOf
      <3>2. QED
        BY <3>1
    <2>5. final \in GenesisFile /\ own \in GenesisFile /\ m.genesis \in GenesisFile \cup {NoFile}
      BY DEF GenesisFile, Directory
    <2>6. ASSUME NEW g \in GenesisFile \cup {NoFile}
          PROVE  /\ with(g) \in Directory /\ with(g).gentxs = m.gentxs /\ with(g) # NoFile
                 /\ with(g).genesis = g /\ with(g).key = m.key
      <3>1. /\ with(g) \in Directory /\ with(g).gentxs = m.gentxs
            /\ with(g).genesis = g /\ with(g).key = m.key
        BY <2>6 DEF Directory
      <3>2. QED
        BY <3>1, TestnetAssumption
    <2> HIDE DEF with
    <2>7. ASSUME NEW g \in {final, own, m.genesis, NoFile}, dir' = [dir EXCEPT ![i] = with(g)]
          PROVE  /\ dir' \in [Node -> Directory \cup {NoFile}]
                 /\ GentxsNamed' /\ FinalsAgree'
                 /\ dir'[i] = with(g) /\ \A j \in Node : j # i => dir'[j] = dir[j]
      <3>1. g \in GenesisFile \cup {NoFile}
        BY <2>5, <2>7
      <3>2. /\ with(g) \in Directory /\ with(g).gentxs = dir[i].gentxs /\ with(g) # NoFile
            /\ with(g).genesis = g
        BY <1>4, <2>6, <3>1
      <3>3. dir' \in [Node -> Directory \cup {NoFile}]
        BY <2>7, <3>2 DEF TestnetInv, TestnetTypes
      <3>4. dir'[i] = with(g) /\ \A j \in Node : j # i => dir'[j] = dir[j]
        BY <2>7 DEF TestnetInv, TestnetTypes
      <3>5. GentxsNamed'
        BY <1>2, <1>3, <3>2, <3>4 DEF TestnetInv, GentxsNamed, Named, Keyed
      <3>6. \A j \in Node : Final(j)' =>
              /\ j <= i /\ dir'[j].genesis \in {final, own}
              /\ j # i => dir'[j].genesis = final
        <4>1. m.genesis.txs = {}
          BY <1>3, <1>4 DEF Has
        <4> i \in Nat /\ i <= i
          BY <1>1, NodeFacts
        <4>2. ASSUME Final(i)' PROVE dir'[i].genesis \in {final, own}
          <5>1. g # NoFile /\ g.txs # {} /\ dir'[i].genesis = g
            BY <4>2, <3>2, <3>4 DEF Final
          <5>2. QED
            BY <5>1, <4>1, <2>7
        <4>3. \A j \in Node : j # i /\ Final(j)' => Final(j) /\ dir'[j].genesis = dir[j].genesis
          BY <3>4 DEF Final
        <4>4. ASSUME NEW j \in Node, Final(j)'
              PROVE  /\ j <= i /\ dir'[j].genesis \in {final, own}
                     /\ j # i => dir'[j].genesis = final
          <5>1. CASE j = i
            BY <5>1, <4>2, <4>4
          <5>2. CASE j # i
            <6>1. j < i /\ dir'[j].genesis = final
              BY <5>2, <4>3, <4>4, <2>4
            <6>2. QED
              BY <6>1, NodeFacts
          <5>3. QED
            BY <5>1, <5>2
        <4>5. QED
          BY <4>4
      <3>7. dir'[0] # NoFile /\ dir'[0].gentxs = dir[0].gentxs
        <4>1. Keyed(0)
          BY <1>1, NodeFacts DEF TestnetInv, Progress
        <4>2. QED
          BY <4>1, <3>2, <3>4, NodeFacts DEF Keyed
      <3>8. \A j \in 0..i : \E f \in dir[0].gentxs : f.node = j
        <4>1. AllOwn \subseteq dir[0].gentxs
          BY <1>1, NodeFacts DEF TestnetInv, Progress
        <4>2. \A j \in 0..i : Own(j) \in AllOwn /\ Own(j).node = j
          BY <1>1, NodeFacts DEF AllOwn, Own
        <4>3. QED
          BY <4>1, <4>2
      <3>9. FinalsAgree'
        <4>1. \A j \in Node : Final(j)' =>
                dir'[0] # NoFile /\ \E f \in dir'[0].gentxs : f.node = j
          BY <3>6, <3>7, <3>8, NodeFacts
        <4>2. /\ Alike(final, own) /\ Alike(own, final) /\ Alike(final, final) /\ Alike(own, own)
              /\ final.time # "node"
          BY DEF Alike
        <4> HIDE DEF final, own
        <4>3. \A j, k \in Node : Final(j)' /\ Final(k)' =>
                /\ Alike(dir'[j].genesis, dir'[k].genesis)
                /\ dir'[j].genesis.time = "node" /\ dir'[k].genesis.time = "node" => j = k
          BY <3>6, <4>2
        <4>4. QED
          BY <4>1, <4>3 DEF FinalsAgree, Alike
      <3>10. QED
        BY <3>3, <3>4, <3>5, <3>9
    <2>8. CASE /\ state' = a /\ dir' = [dir EXCEPT ![i] = with(final)]
               /\ NextNode("ok")
      <3>1. /\ dir' \in [Node -> Directory \cup {NoFile}]
            /\ GentxsNamed' /\ FinalsAgree'
            /\ dir'[i] = with(final) /\ \A j \in Node : j # i => dir'[j] = dir[j]
        BY <2>7, <2>8
      <3>2. \/ i + 1 < n /\ at' = i + 1 /\ stage' = "collect"
            \/ n <= i + 1 /\ at' = 0 /\ stage' = "ok"
        BY <1>1, <2>8, NextNodeCases DEF TestnetInv
      <3>3. TestnetTypes'
        BY <1>1, <1>2, <2>8, <3>1, <3>2, NodeFacts DEF TestnetInv, TestnetTypes, Ended
      <3>4. ASSUME NEW j \in 0..n - 1
            PROVE  /\ Keyed(j)' /\ AllOwn' \subseteq dir'[j].gentxs
                   /\ j <= i => Has(j, AllOwn)'
                   /\ j > i => Has(j, {})'
        <4>1. /\ Keyed(j) /\ AllOwn \subseteq dir[j].gentxs
              /\ j < i => Has(j, AllOwn)
              /\ j >= i => Has(j, {})
          BY <1>1 DEF TestnetInv, Progress
        <4>2. j \in Node
          BY <1>1, NodeFacts DEF TestnetInv
        <4>3. CASE j = i
          BY <4>1, <4>3, <3>1, <2>1, <2>3, <2>5, <2>6, <1>1, <1>2, <1>4, <1>5, <1>6, NodeFacts
          DEF Keyed, Own, Has, TimeOf
        <4>4. CASE j # i
          BY <4>1, <4>2, <4>4, <3>1, <1>2, <1>5, <1>6, NodeFacts DEF Keyed, Own, Has
        <4>5. QED
          BY <4>3, <4>4
      <3>5. Progress'
        <4>1. /\ stage' = "ok" => \A j \in 0..n - 1 : j <= i
              /\ \A j \in 0..n - 1 : j < at' => j <= i
              /\ \A j \in 0..n - 1 : stage' = "collect" /\ j >= at' => j > i
              /\ stage' \in {"collect", "ok"} /\ (stage' = "ok" => at' = 0)
          BY <3>2, NodeFacts, <1>1
        <4>2. QED
          BY <3>4, <4>1, <1>1, <1>2 DEF Progress, Keyed
      <3>6. OldFinalsGone'
        <4>1. ASSUME NEW j \in Node, Final(j)' PROVE j <= i
          <5>1. j # i => Final(j)
            BY <3>1, <4>1 DEF Final
          <5>2. i \in Nat /\ i <= i
            BY <1>1, NodeFacts
          <5>3. j # i => j < i
            BY <5>1, <2>4
          <5>4. QED
            BY <5>2, <5>3, NodeFacts
        <4>2. QED
          BY <4>1, <3>2, <2>8, <1>1, <1>6, NodeFacts DEF OldFinalsGone
      <3>7. RetryWorks'
        BY <3>2 DEF RetryWorks
      <3>8. QED
        BY <3>1, <3>3, <3>5, <3>6, <3>7 DEF TestnetInv
    <2>9. CASE /\ \E left \in {m.genesis, own, NoFile} : dir' = [dir EXCEPT ![i] = with(left)]
               /\ UNCHANGED state /\ Stop("failed")
      BY <2>7, <2>9, <1>2, FailedStep DEF Unchanged
    <2>10. QED
      <3>1. \A g : [dir EXCEPT ![at].genesis = g] = [dir EXCEPT ![i] = with(g)]
        BY <1>1, <1>4 DEF with
      <3>2. /\ CanonicalGenesis = final /\ OwnGenesis = own
            /\ Canonical = a /\ dir[at].genesis = m.genesis
        BY <2>2, <1>1, <1>4 DEF CanonicalGenesis
      <3>3. \/ /\ state' = Canonical /\ NextNode("ok")
               /\ dir' = [dir EXCEPT ![at].genesis = CanonicalGenesis]
            \/ /\ \E left \in {dir[at].genesis, OwnGenesis, NoFile} :
                    dir' = [dir EXCEPT ![at].genesis = left]
               /\ UNCHANGED state /\ Stop("failed")
        BY <1>8 DEF Collect
      <3> HIDE DEF final, own
      <3>4. ASSUME state' = Canonical, NextNode("ok"),
                   dir' = [dir EXCEPT ![at].genesis = CanonicalGenesis]
            PROVE  TestnetInv'
        <4>1. dir' = [dir EXCEPT ![i] = with(final)]
          BY <3>1, <3>2, <3>4
        <4>2. QED
          BY <4>1, <3>2, <3>4, <2>8
      <3>5. ASSUME NEW left \in {dir[at].genesis, OwnGenesis, NoFile},
                   dir' = [dir EXCEPT ![at].genesis = left],
                   UNCHANGED state, Stop("failed")
            PROVE  TestnetInv'
        <4>1. dir' = [dir EXCEPT ![i] = with(left)] /\ left \in {m.genesis, own, NoFile}
          BY <3>1, <3>2, <3>5
        <4>2. QED
          BY <4>1, <3>5, <2>9
      <3>6. QED
        BY <3>3, <3>4, <3>5
  <1>9. QED
    BY <1>7, <1>8

-----------------------------------------------------------------------------
LEMMA InitMakesTestnetInv ==
  ASSUME Init
  PROVE  TestnetInv
  <1>1. /\ dir = [i \in Node |-> NoFile] /\ run = 0 /\ nodes = 0 /\ stage = "ok"
        /\ at = 0 /\ state = {} /\ largest = 0
    BY DEF Init, MultiNodeInit
  <1>2. TestnetTypes
    BY <1>1, TestnetAssumption DEF TestnetTypes, Ended
  <1>3. GentxsNamed /\ FinalsAgree
    BY <1>1 DEF GentxsNamed, FinalsAgree, Final
  <1>4. Progress /\ OldFinalsGone /\ RetryWorks
    BY <1>1 DEF Progress, OldFinalsGone, RetryWorks
  <1>5. QED
    BY <1>2, <1>3, <1>4 DEF TestnetInv

LEMMA OtherStepKeepsTestnetInv ==
  ASSUME TestnetInv, UNCHANGED multiNodeVars
  PROVE  TestnetInv'
  <1>1. UNCHANGED <<dir, run, nodes, stage, at, state, largest>>
    BY DEF multiNodeVars
  <1>2. TestnetTypes'
    BY <1>1 DEF TestnetInv, TestnetTypes, Ended
  <1>3. GentxsNamed' /\ FinalsAgree'
    BY <1>1 DEF TestnetInv, GentxsNamed, Named, FinalsAgree, Final
  <1>4. Progress' /\ OldFinalsGone' /\ RetryWorks'
    <2>1. AllOwn' = AllOwn /\ \A i : Own(i)' = Own(i)
      BY <1>1 DEF AllOwn, Own
    <2>2. \A i : /\ Keyed(i)' <=> Keyed(i)
                 /\ Final(i)' <=> Final(i)
      BY <1>1, <2>1 DEF Keyed, Final
    <2>3. \A i, txs : Has(i, txs)' <=> Has(i, txs)
      BY <1>1 DEF Has
    <2>4. Progress'
      BY <1>1, <2>1, <2>2, <2>3 DEF TestnetInv, Progress
    <2>5. OldFinalsGone'
      BY <1>1, <2>1, <2>2 DEF TestnetInv, OldFinalsGone
    <2>6. RetryWorks'
      BY <1>1 DEF TestnetInv, RetryWorks
    <2>7. QED
      BY <2>4, <2>5, <2>6
  <1>5. QED
    BY <1>2, <1>3, <1>4 DEF TestnetInv

LEMMA NextKeepsTestnetInv ==
  ASSUME TestnetInv, [Next]_<<command, exportVars, multiNodeVars, inPlaceVars>>
  PROVE  TestnetInv'
  <1>1. CASE MultiNodeNext
    BY <1>1, StartKeepsInv, InitNodeKeepsInv, RemoveAllKeepsInv, SaveGenesisKeepsInv,
       CopyGentxsKeepsInv, CollectKeepsInv DEF MultiNodeNext
  <1>2. CASE UNCHANGED multiNodeVars
    BY <1>2, OtherStepKeepsTestnetInv
  <1>3. QED
    BY <1>1, <1>2 DEF Next, Export, MultiNode, InPlace

(* However many runs of the multi-node command have failed half-way on the *)
(* output directory, whichever files they have left: a run that reports    *)
(* success has made one genesis file for all its nodes, with its own       *)
(* accounts, the gentxs of its nodes alone and one time; and two final     *)
(* genesis files never differ but in the time, of which one at most has    *)
(* its own (initTestnetFiles, collectGenFiles).                            *)
THEOREM TestnetHasOneGenesis == Spec => []OneGenesis
  <1>1. Init => TestnetInv
    BY InitMakesTestnetInv
  <1>2. TestnetInv /\ [Next]_<<command, exportVars, multiNodeVars, inPlaceVars>> => TestnetInv'
    BY NextKeepsTestnetInv
  <1>3. TestnetInv => OneGenesis
    <2>1. ASSUME TestnetInv, stage = "ok", NEW i \in 0..nodes - 1
          PROVE  TimeOf(AllOwn) = "run"
      BY <2>1 DEF TimeOf, AllOwn
    <2>2. QED
      BY <2>1 DEF TestnetInv, Progress, Has, AllOwn, FinalsAgree, OneGenesis
  <1>4. QED
    BY <1>1, <1>2, <1>3, PTL DEF Spec

(* A run of the multi-node command that meets a gentx of an earlier run    *)
(* has fewer nodes than the largest run before it: repeating a failed run  *)
(* with as many nodes works (initTestnetFiles, collectGenFiles).           *)
THEOREM TestnetRetryWorks == Spec => []RetryWorks
  <1>1. Init => TestnetInv
    BY InitMakesTestnetInv
  <1>2. TestnetInv /\ [Next]_<<command, exportVars, multiNodeVars, inPlaceVars>> => TestnetInv'
    BY NextKeepsTestnetInv
  <1>3. TestnetInv => RetryWorks
    BY DEF TestnetInv
  <1>4. QED
    BY <1>1, <1>2, <1>3, PTL DEF Spec

-----------------------------------------------------------------------------
(* The in-place-testnet command.                                           *)

(* A finite set of numbers has a greatest.                                 *)
LEMMA MaxIn ==
  ASSUME NEW B, IsFiniteSet(B), B # {}, B \subseteq Nat
  PROVE  Max(B) \in B
  <1> DEFINE Bounded(A) == A = {} \/ \E m \in A : \A x \in A : m >= x
             D == {A \in SUBSET B : Bounded(A)}
  <1>1. ASSUME NEW A \in SUBSET B, \A x \in A : A \ {x} \in D
        PROVE  A \in D
    <2>1. CASE A = {}
      BY <2>1
    <2>2. ASSUME NEW x \in A
          PROVE  \E m \in A : \A y \in A : m >= y
      <3>1. Bounded(A \ {x})
        BY <1>1
      <3>2. CASE A \ {x} = {}
        BY <3>2
      <3>3. CASE A \ {x} # {}
        <4>1. PICK m \in A \ {x} : \A y \in A \ {x} : m >= y
          BY <3>1, <3>3
        <4>2. CASE m >= x
          BY <4>1, <4>2
        <4>3. CASE ~(m >= x)
          <5>1. \A y \in A : x >= y
            BY <4>1, <4>3
          <5>2. QED
            BY <5>1
        <4>4. QED
          BY <4>2, <4>3
      <3>4. QED
        BY <3>2, <3>3
    <2>3. QED
      BY <2>1, <2>2
  <1>2. D = SUBSET B
    <2> HIDE DEF D
    <2>1. D \in SUBSET SUBSET B
      BY DEF D
    <2>2. QED
      BY <1>1, <2>1, SubsetInduction
  <1>3. \E m \in B : \A x \in B : m >= x
    BY <1>2
  <1>4. QED
    BY <1>3 DEF Max

-----------------------------------------------------------------------------
AppState ==
  [status : [Operator -> {"none", "bonded", "unbonding", "unbonded"}],
   jailed : SUBSET Operator, key : [Operator -> Key],
   owner : [Key -> Operator \cup {Nobody}],
   power : SUBSET Operator, last : SUBSET Operator, queue : SUBSET Operator,
   infos : SUBSET Key,
   supply : Nat, balance : [Account -> Nat], asked : [Account -> Nat],
   exit : BOOLEAN]

(* Fund, one text after the other.                                         *)
LEMMA FundFold ==
  ASSUME NEW T, NEW s \in T, NEW Inv, NEW accounts, NEW X, accounts \in Seq(X),
         <<{}, s>> \in Inv,
         \A B \in SUBSET DOMAIN accounts : \A i \in B : \A t \in T :
           <<B \ {i}, t>> \in Inv =>
             Fund(t, accounts[i]) \in T /\ <<B, Fund(t, accounts[i])>> \in Inv
  PROVE  LET t == FoldLeft(Fund, s, accounts)
         IN  t \in T /\ <<DOMAIN accounts, t>> \in Inv
  <1> DEFINE S == DOMAIN accounts
             g == [i \in S |-> [t \in T |-> Fund(t, accounts[i])]]
             pick == [B \in SUBSET S |-> Max(B)]
  <1>1. \A i \in S : \A t \in T : g[i][t] = Fund(t, accounts[i])
    OBVIOUS
  <1>2. \A B \in SUBSET S : pick[B] = Max(B)
    OBVIOUS
  <1>3. S \subseteq Nat /\ IsFiniteSet(S)
    <2>1. S = 1..Len(accounts) /\ Len(accounts) \in Nat
      OBVIOUS
    <2>2. QED
      BY <2>1, FS_Interval
  <1> HIDE DEF g, pick, S
  <1>4. ASSUME NEW B \in SUBSET S, B # {}
        PROVE  Max(B) \in B
    <2>1. IsFiniteSet(B) /\ B \subseteq Nat
      BY <1>3, FS_Subset
    <2>2. QED
      BY <1>4, <2>1, MaxIn
  <1> DEFINE Step(f, B) == IF B = {} THEN s ELSE Fund(f[B \ {Max(B)}], accounts[Max(B)])
             IsIt(f) == f = [B \in SUBSET S |-> Step(f, B)]
             it == CHOOSE f : IsIt(f)
  <1>5. PICK f : IsFold(f, S, s, g, pick)
    BY <1>2, <1>3, <1>4, Unfolding
  <1>6. \A B \in SUBSET S : f[B] = Unfolded(f, B, s, g, pick)
    BY <1>5 DEF IsFold
  <1>7. ASSUME NEW B \in SUBSET S, B # {}
        PROVE  \E i \in B :
                 f[B \ {i}] \in T /\ <<B \ {i}, f[B \ {i}]>> \in Inv
                   => f[B] \in T /\ <<B, f[B]>> \in Inv
    <2> DEFINE i == Max(B)
               t == f[B \ {i}]
    <2>1. i \in B
      BY <1>4, <1>7
    <2>2. f[B] = g[i][t]
      BY <1>2, <1>6, <1>7 DEF Unfolded
    <2> HIDE DEF i, t
    <2>3. t \in T /\ <<B \ {i}, t>> \in Inv => f[B] \in T /\ <<B, f[B]>> \in Inv
      BY <1>1, <2>1, <2>2 DEF S
    <2>4. QED
      BY <2>1, <2>3 DEF i, t
  <1>8. \A B \in SUBSET S : f[B] \in T
    <2>1. f[{}] = s
      BY <1>6 DEF Unfolded
    <2>2. f[{}] \in T /\ <<{}, f[{}]>> \in Inv
      BY <2>1
    <2>3. QED
      BY <1>3, <1>7, <2>2, FoldInduction
  <1>9. ASSUME NEW B \in SUBSET S
        PROVE  f[B] = Step(f, B)
    <2>1. CASE B # {}
      BY <1>1, <1>2, <1>4, <1>6, <1>8, <2>1 DEF Unfolded
    <2>2. CASE B = {}
      BY <1>6, <2>2 DEF Unfolded
    <2>3. QED
      BY <2>1, <2>2
  <1>10. IsIt(f)
    BY <1>5, <1>9 DEF IsFold
  <1>11. FoldLeft(Fund, s, accounts) = it[S]
    BY DEF FoldLeft, MapThenFoldSet, S
  <1>12. IsIt(it)
    <2> HIDE DEF IsIt
    <2>1. QED
      BY <1>10
  <1> HIDE DEF it
  <1>13. \A B \in SUBSET S : it[B] = Step(it, B)
    BY <1>12
  <1>14. ASSUME NEW B \in SUBSET S, B # {}
        PROVE  \E i \in B :
                 it[B \ {i}] \in T /\ <<B \ {i}, it[B \ {i}]>> \in Inv
                   => it[B] \in T /\ <<B, it[B]>> \in Inv
    <2> DEFINE i == Max(B)
               t == it[B \ {i}]
    <2>1. i \in B
      BY <1>4, <1>14
    <2>2. it[B] = Fund(t, accounts[i])
      BY <1>13, <1>14
    <2> HIDE DEF i, t
    <2>3. t \in T /\ <<B \ {i}, t>> \in Inv => it[B] \in T /\ <<B, it[B]>> \in Inv
      BY <2>1, <2>2 DEF S
    <2>4. QED
      BY <2>1, <2>3 DEF i, t
  <1>15. it[{}] \in T /\ <<{}, it[{}]>> \in Inv
    BY <1>13
  <1>16. \A B \in SUBSET S : it[B] \in T /\ <<B, it[B]>> \in Inv
    BY <1>3, <1>14, <1>15, FoldInduction
  <1>17. QED
    BY <1>11, <1>16 DEF S

(* Fund changes the coins and the exit only.                               *)
SameRecords(t, s) ==
  /\ t.status = s.status /\ t.jailed = s.jailed /\ t.key = s.key /\ t.owner = s.owner
  /\ t.power = s.power /\ t.last = s.last /\ t.queue = s.queue /\ t.infos = s.infos
  /\ t.asked = s.asked

Times(accounts, B, a) == Cardinality({i \in B : accounts[i] = a})

(* Coins by the texts that are done: B.                                    *)
Funded(t, s, accounts, B) ==
  /\ \A a \in Account : t.balance[a] = s.balance[a] + Times(accounts, B, a)
  /\ t.supply = Sum(t.balance, Account)

LEMMA FundType ==
  ASSUME NEW t \in AppState, NEW text
  PROVE  Fund(t, text) \in AppState /\ SameRecords(Fund(t, text), t)
  <1> DEFINE minted == [t EXCEPT !.supply = @ + 1]
  <1>1. minted \in AppState /\ SameRecords(minted, t)
    BY DEF AppState, SameRecords
  <1>2. CASE t.exit
    BY <1>2 DEF Fund, SameRecords
  <1>3. CASE ~t.exit /\ text \in Account
    <2>1. Fund(t, text) = [minted EXCEPT !.balance[text] = @ + 1]
      BY <1>3 DEF Fund
    <2> HIDE DEF minted
    <2> DEFINE more == [minted.balance EXCEPT ![text] = @ + 1]
    <2>2. minted.balance \in [Account -> Nat]
      BY <1>1 DEF AppState
    <2>3. more \in [Account -> Nat]
      BY <1>3, <2>2
    <2>4. Fund(t, text) = [minted EXCEPT !.balance = more]
      BY <2>1
    <2> HIDE DEF more
    <2>5. QED
      BY <1>1, <2>3, <2>4 DEF AppState, SameRecords
  <1>4. CASE ~t.exit /\ text \notin Account
    <2>1. Fund(t, text) = [minted EXCEPT !.exit = TRUE]
      BY <1>4 DEF Fund
    <2> HIDE DEF minted
    <2>2. QED
      BY <1>1, <2>1 DEF AppState, SameRecords
  <1>5. QED
    BY <1>2, <1>3, <1>4

(* A text more, or less.                                                   *)
LEMMA TimesStep ==
  ASSUME NEW B, IsFiniteSet(B), NEW i \in B, NEW accounts, NEW a
  PROVE  /\ Times(accounts, B, a) \in Nat
         /\ Times(accounts, B, a) = Times(accounts, B \ {i}, a)
                                    + (IF accounts[i] = a THEN 1 ELSE 0)
  <1> DEFINE C == {j \in B : accounts[j] = a}
             D == {j \in B \ {i} : accounts[j] = a}
  <1>1. IsFiniteSet(C) /\ IsFiniteSet(D)
    BY FS_Subset
  <1>2. Cardinality(C) \in Nat /\ Cardinality(D) \in Nat
    BY <1>1, FS_CardinalityType
  <1>3. CASE accounts[i] = a
    <2>1. C = D \cup {i} /\ i \notin D
      BY <1>3
    <2>2. Cardinality(C) = Cardinality(D) + 1
      BY <1>1, <2>1, FS_AddElement
    <2>3. QED
      BY <1>2, <1>3, <2>2 DEF Times
  <1>4. CASE accounts[i] # a
    <2>1. C = D
      BY <1>4
    <2>2. QED
      BY <1>2, <1>4, <2>1 DEF Times
  <1>5. QED
    BY <1>3, <1>4

(* The loop over the texts mints a coin for each and leaves the records    *)
(* alone.                                                                  *)
LEMMA FundAll ==
  ASSUME NEW s \in AppState, s.supply = Sum(s.balance, Account),
         NEW X, NEW accounts \in Seq(X)
  PROVE  LET t == FoldLeft(Fund, s, accounts)
         IN  /\ t \in AppState
             /\ SameRecords(t, s)
             /\ t.exit \/ Funded(t, s, accounts, DOMAIN accounts)
  <1> DEFINE S == DOMAIN accounts
             Inv == {p \in (SUBSET S) \X AppState :
                       /\ SameRecords(p[2], s)
                       /\ p[2].exit \/ Funded(p[2], s, accounts, p[1])}
  <1>0. IsFiniteSet(S)
    <2>1. S = 1..Len(accounts) /\ Len(accounts) \in Nat
      OBVIOUS
    <2>2. QED
      BY <2>1, FS_Interval
  <1>1. <<{}, s>> \in Inv
    <2>1. SameRecords(s, s)
      BY DEF SameRecords
    <2>2. \A a \in Account : Times(accounts, {}, a) = 0 /\ s.balance[a] \in Nat
      BY FS_EmptySet DEF Times, AppState
    <2>3. Funded(s, s, accounts, {})
      BY <2>2 DEF Funded
    <2>4. QED
      BY <2>1, <2>3
  <1>2. ASSUME NEW B \in SUBSET S, NEW i \in B, NEW t \in AppState,
               <<B \ {i}, t>> \in Inv
        PROVE  Fund(t, accounts[i]) \in AppState /\ <<B, Fund(t, accounts[i])>> \in Inv
    <2> DEFINE u == Fund(t, accounts[i])
    <2>1. SameRecords(t, s) /\ (t.exit \/ Funded(t, s, accounts, B \ {i}))
      BY <1>2
    <2>2. u \in AppState /\ SameRecords(u, s)
      <3>1. u \in AppState /\ SameRecords(u, t)
        BY FundType
      <3>2. QED
        BY <2>1, <3>1 DEF SameRecords
    <2>3. ASSUME ~u.exit
          PROVE  Funded(u, s, accounts, B)
      <3>1. ~t.exit /\ accounts[i] \in Account
        BY <2>3 DEF Fund, AppState
      <3>2. /\ u.supply = t.supply + 1
            /\ u.balance = [t.balance EXCEPT ![accounts[i]] = @ + 1]
        BY <3>1 DEF Fund, AppState
      <3>3. /\ t.balance \in [Account -> Nat] /\ u.balance \in [Account -> Nat]
            /\ s.balance \in [Account -> Nat] /\ t.supply \in Nat
        BY <2>2 DEF AppState
      <3>4. IsFiniteSet(B)
        BY <1>0, FS_Subset
      <3>5. ASSUME NEW a \in Account
            PROVE  u.balance[a] = s.balance[a] + Times(accounts, B, a)
        <4>1. t.balance[a] = s.balance[a] + Times(accounts, B \ {i}, a)
          BY <2>1, <3>1 DEF Funded
        <4>2. /\ Times(accounts, B, a) \in Nat
              /\ Times(accounts, B, a) = Times(accounts, B \ {i}, a)
                                         + (IF accounts[i] = a THEN 1 ELSE 0)
          BY <3>4, TimesStep
        <4>3. Times(accounts, B \ {i}, a) \in Nat
          <5>1. IsFiniteSet({j \in B \ {i} : accounts[j] = a})
            BY <3>4, FS_Subset
          <5>2. QED
            BY <5>1, FS_CardinalityType DEF Times
        <4>4. PICK n \in Nat, m \in Nat :
                n = Times(accounts, B, a) /\ m = Times(accounts, B \ {i}, a)
          BY <4>2, <4>3
        <4>5. s.balance[a] \in Nat
          BY <3>3
        <4>6. CASE accounts[i] = a
          <5>1. u.balance[a] = t.balance[a] + 1
            BY <3>2, <3>3, <4>6
          <5>2. QED
            BY <4>1, <4>2, <4>4, <4>5, <4>6, <5>1
        <4>7. CASE accounts[i] # a
          <5>1. u.balance[a] = t.balance[a]
            BY <3>2, <3>3, <4>7
          <5>2. QED
            BY <4>1, <4>2, <4>4, <4>5, <4>7, <5>1
        <4>8. QED
          BY <4>6, <4>7
      <3>6. u.supply = Sum(u.balance, Account)
        <4>1. t.supply = Sum(t.balance, Account)
          BY <2>1, <3>1 DEF Funded
        <4>2. PICK f, g, x : f = t.balance /\ g = u.balance /\ x = accounts[i]
          OBVIOUS
        <4>3. /\ IsFiniteSet(Account) /\ x \in Account
              /\ \A y \in Account : f[y] \in Int /\ g[y] \in Int
              /\ \A y \in Account \ {x} : g[y] = f[y]
              /\ g[x] = f[x] + 1
          BY <3>1, <3>2, <3>3, <4>2, InPlaceAssumption
        <4>4. Sum(g, Account) = Sum(f, Account) - f[x] + g[x]
          <5>1. DifferAt(x, f, g, Account)
            BY <4>3 DEF DifferAt
          <5>2. IsFiniteSet(Account)
            BY <4>3
          <5>3. QED
            BY ONLY <5>1, <5>2, SumUpdate
        <4>5. Sum(f, Account) \in Int
          BY <4>3, SumStep
        <4>6. Sum(g, Account) = Sum(f, Account) + 1
          BY <4>3, <4>4, <4>5
        <4>7. QED
          BY <3>2, <4>1, <4>2, <4>6
      <3>7. QED
        BY <3>5, <3>6 DEF Funded
    <2> HIDE DEF u
    <2>4. QED
      BY <2>2, <2>3 DEF u
  <1>3. LET t == FoldLeft(Fund, s, accounts)
        IN  t \in AppState /\ <<DOMAIN accounts, t>> \in Inv
    <2> HIDE DEF Inv
    <2>1. QED
      BY <1>1, <1>2, FundFold
  <1>4. QED
    BY <1>3

Existing(s) == {o \in Operator : s.status[o] # "none"}

(* What blocks look up is there.                                           *)
RecordsThere(s) ==
  /\ s.power # {}
  /\ s.power \cap s.jailed = {}
  /\ s.power \cup s.last \cup s.queue \cup s.jailed \subseteq Existing(s)
  /\ \A o \in Existing(s) : s.key[o] \in s.infos /\ s.owner[s.key[o]] = o

(* What CometBFT's validators are looked up by.                            *)
SignersThere(s, signers) ==
  \A k \in signers : k \in s.infos /\ s.owner[k] \in Existing(s)

CoinsAsAsked(s) ==
  /\ s.balance = s.asked
  /\ s.supply = SumFunction(s.balance)

InPlaceInv ==
  /\ chain \in AppState /\ disk \in AppState
  /\ comet \in SUBSET Key
  /\ node \in {"stopped", "running", "halted"}
  /\ lost \in BOOLEAN
  /\ RecordsThere(chain) /\ RecordsThere(disk)
  /\ lost \/ SignersThere(chain, comet)
  /\ node = "stopped" => chain = disk
  /\ CoinsAsAsked(chain) /\ CoinsAsAsked(disk)
  /\ BlocksGoOn

(* The mainnet at its genesis.                                             *)
LEMMA GenesisOk ==
  ASSUME NEW o \in Operator
  PROVE  /\ Genesis(o) \in AppState
         /\ RecordsThere(Genesis(o))
         /\ SignersThere(Genesis(o), {MainnetKey[o]})
         /\ CoinsAsAsked(Genesis(o))
  <1> DEFINE s == Genesis(o)
  <1>1. /\ MainnetKey \in [Operator -> Key]
        /\ IsFiniteSet(Account)
    BY InPlaceAssumption DEF Key
  <1>2. s \in AppState
    BY <1>1 DEF Genesis, AppState
  <1>3. Existing(s) = {o}
    BY DEF Genesis, Existing
  <1>4. s.owner[MainnetKey[o]] = o
    BY <1>1 DEF Genesis
  <1>5. RecordsThere(s) /\ SignersThere(s, {MainnetKey[o]})
    BY <1>3, <1>4 DEF RecordsThere, SignersThere, Genesis
  <1>6. s.balance = s.asked
    BY DEF Genesis
  <1>7. s.supply = SumFunction(s.balance)
    <2> DEFINE f == [a \in Account |-> 0]
    <2>1. SumFunction(s.balance) = Sum(f, Account)
      BY DEF Genesis, SumFunction, Sum
    <2>2. \A a \in Account : f[a] \in Int /\ f[a] = 0
      OBVIOUS
    <2> HIDE DEF f
    <2>3. Sum(f, Account) = 0
      BY <1>1, <2>2, SumZero
    <2>4. QED
      BY <2>1, <2>3 DEF Genesis
  <1>8. QED
    BY <1>2, <1>5, <1>6, <1>7 DEF CoinsAsAsked

(* The command leaves a state whose blocks go on.                          *)
LEMMA TakenOver ==
  ASSUME NEW d \in AppState, NEW o \in Operator, NEW key \in Key,
         CoinsAsAsked(d), NEW list \in Lists,
         NEW accounts, accounts = AccountsToFund(list),
         NEW s, s = InitAppForTestnet(d, o, key, accounts), ~s.exit
  PROVE  /\ Asked(s, accounts) \in AppState
         /\ RecordsThere(Asked(s, accounts))
         /\ SignersThere(Asked(s, accounts), {key})
         /\ CoinsAsAsked(Asked(s, accounts))
  <1> DEFINE r == RemoveValidators(d)
             b == AddValidator(r, o, key)
             t == Asked(s, accounts)
  <1>1. r \in AppState
    BY DEF RemoveValidators, AppState
  <1>2. b \in AppState
    <2> HIDE DEF r
    <2>1. QED
      BY <1>1 DEF AddValidator, AppState
  <1>3. /\ b.power = {o} /\ b.last = {o} /\ b.jailed = {} /\ b.queue = {}
        /\ key \in b.infos /\ b.key[o] = key /\ b.owner[key] = o
        /\ b.status[o] = "bonded"
        /\ \A q \in Operator \ {o} : b.status[q] = "none"
        /\ b.balance = d.balance /\ b.asked = d.asked /\ b.supply = d.supply
    BY DEF AddValidator, RemoveValidators, AppState
  <1> HIDE DEF r, b
  <1>4. /\ d.balance = d.asked
        /\ b.supply = Sum(b.balance, Account)
    BY <1>3 DEF CoinsAsAsked, SumFunction, Sum, AppState
  <1>5. PICK X : accounts \in Seq(X)
    <2>1. CASE list = << >>
      <3>1. accounts \in Seq({NoText})
        BY <2>1 DEF AccountsToFund
      <3>2. QED
        BY <3>1
    <2>2. CASE list # << >>
      BY <2>2, InPlaceAssumption DEF AccountsToFund
    <2>3. QED
      BY <2>1, <2>2
  <1>6. s = FoldLeft(Fund, b, accounts)
    BY DEF InitAppForTestnet, r, b
  <1>7. /\ s \in AppState
        /\ SameRecords(s, b)
        /\ Funded(s, b, accounts, DOMAIN accounts)
    BY <1>2, <1>4, <1>5, <1>6, FundAll
  <1>8. \A a \in Account : Times(accounts, DOMAIN accounts, a) \in Nat
    <2>1. DOMAIN accounts = 1..Len(accounts) /\ Len(accounts) \in Nat
      BY <1>5
    <2>2. IsFiniteSet(DOMAIN accounts)
      BY <2>1, FS_Interval
    <2>3. \A a \in Account : IsFiniteSet({i \in DOMAIN accounts : accounts[i] = a})
      BY <2>2, FS_Subset
    <2>4. QED
      BY <2>3, FS_CardinalityType DEF Times
  <1>9. t = [s EXCEPT !.asked = [a \in Account |-> s.asked[a] + Times(accounts, DOMAIN accounts, a)]]
    BY <1>7 DEF Asked, Times, AppState
  <1>10. t \in AppState /\ t.asked = [a \in Account |-> s.asked[a] + Times(accounts, DOMAIN accounts, a)]
    BY <1>7, <1>8, <1>9 DEF AppState
  <1>11. /\ t.power = {o} /\ t.last = {o} /\ t.jailed = {} /\ t.queue = {}
         /\ key \in t.infos /\ t.key[o] = key /\ t.owner[key] = o
         /\ t.status[o] = "bonded"
         /\ \A q \in Operator \ {o} : t.status[q] = "none"
         /\ t.balance = s.balance /\ t.supply = s.supply
    BY <1>3, <1>7, <1>9 DEF SameRecords, AppState
  <1>12. s.asked = d.balance
    BY <1>3, <1>4, <1>7 DEF SameRecords
  <1> HIDE DEF t
  <1>13. Existing(t) = {o}
    BY <1>11 DEF Existing
  <1>14. RecordsThere(t) /\ SignersThere(t, {key})
    BY <1>11, <1>13 DEF RecordsThere, SignersThere
  <1>15. t.balance = t.asked
    <2>1. t.balance \in [Account -> Nat] /\ t.asked \in [Account -> Nat]
      BY <1>10 DEF AppState
    <2>2. ASSUME NEW a \in Account
          PROVE  t.balance[a] = t.asked[a]
      BY <1>3, <1>7, <1>10, <1>11, <1>12 DEF Funded
    <2>3. QED
      BY <2>1, <2>2
  <1>16. t.supply = SumFunction(t.balance)
    BY <1>7, <1>11 DEF Funded, SumFunction, Sum, AppState
  <1>17. QED
    BY <1>10, <1>14, <1>15, <1>16 DEF t, CoinsAsAsked

-----------------------------------------------------------------------------
(* The transactions of a block.                                            *)
LEMMA TxOk ==
  ASSUME chain \in AppState, RecordsThere(chain), CoinsAsAsked(chain), NEW s,
         \/ s = chain
         \/ \E o \in chain.power : chain.power # {o} /\ s = Jailed(o)
         \/ \E o \in Operator : MayJoin(o) /\ s = Joined(o)
  PROVE  /\ s \in AppState /\ RecordsThere(s) /\ CoinsAsAsked(s)
         /\ s.queue = chain.queue
         /\ SignersThere(chain, comet) => SignersThere(s, comet)
  <1>1. CASE s = chain
    BY <1>1
  <1>2. ASSUME NEW o \in chain.power, chain.power # {o}, s = Jailed(o)
        PROVE  /\ s \in AppState /\ RecordsThere(s) /\ CoinsAsAsked(s)
               /\ s.queue = chain.queue
               /\ SignersThere(chain, comet) => SignersThere(s, comet)
    <2>1. o \in Existing(chain) /\ o \in Operator
      BY <1>2 DEF RecordsThere, Existing
    <2>2. s = [chain EXCEPT !.power = chain.power \ {o}, !.jailed = chain.jailed \cup {o}]
      BY <1>2 DEF Jailed, AppState
    <2>3. s \in AppState
      BY <2>1, <2>2 DEF AppState
    <2>4. /\ s.power = chain.power \ {o} /\ s.jailed = chain.jailed \cup {o}
          /\ s.status = chain.status /\ s.key = chain.key /\ s.owner = chain.owner
          /\ s.last = chain.last /\ s.queue = chain.queue /\ s.infos = chain.infos
          /\ s.supply = chain.supply /\ s.balance = chain.balance /\ s.asked = chain.asked
      BY <2>2 DEF AppState
    <2>5. Existing(s) = Existing(chain)
      BY <2>4 DEF Existing
    <2>6. RecordsThere(s)
      BY <1>2, <2>1, <2>4, <2>5 DEF RecordsThere
    <2>7. QED
      BY <2>3, <2>4, <2>5, <2>6 DEF CoinsAsAsked, SignersThere
  <1>3. ASSUME NEW o \in Operator, MayJoin(o), s = Joined(o)
        PROVE  /\ s \in AppState /\ RecordsThere(s) /\ CoinsAsAsked(s)
               /\ s.queue = chain.queue
               /\ SignersThere(chain, comet) => SignersThere(s, comet)
    <2> DEFINE k == MainnetKey[o]
    <2>1. k \in Key
      BY InPlaceAssumption DEF Key
    <2>2. o \notin Existing(chain) /\ chain.owner[k] \notin Existing(chain)
      BY <1>3, <2>1 DEF MayJoin, Exists, Existing, AppState
    <2>3. s = [chain EXCEPT !.status[o] = "unbonded", !.key[o] = k, !.owner[k] = o,
                            !.power = chain.power \cup {o}, !.infos = chain.infos \cup {k}]
      BY <1>3 DEF Joined, AppState
    <2> HIDE DEF k
    <2>4. s \in AppState
      BY <2>1, <2>3 DEF AppState
    <2>5. /\ s.power = chain.power \cup {o} /\ s.jailed = chain.jailed
          /\ s.status = [chain.status EXCEPT ![o] = "unbonded"]
          /\ s.key = [chain.key EXCEPT ![o] = k] /\ s.owner = [chain.owner EXCEPT ![k] = o]
          /\ s.last = chain.last /\ s.queue = chain.queue /\ s.infos = chain.infos \cup {k}
          /\ s.supply = chain.supply /\ s.balance = chain.balance /\ s.asked = chain.asked
      BY <2>1, <2>3 DEF AppState
    <2>6. /\ chain.status \in [Operator -> {"none", "bonded", "unbonding", "unbonded"}]
          /\ chain.key \in [Operator -> Key] /\ chain.owner \in [Key -> Operator \cup {Nobody}]
      BY DEF AppState
    <2>7. Existing(s) = Existing(chain) \cup {o}
      BY <2>5, <2>6 DEF Existing
    <2>8. /\ s.power # {} /\ s.power \cap s.jailed = {}
          /\ s.power \cup s.last \cup s.queue \cup s.jailed \subseteq Existing(s)
      BY <2>2, <2>5, <2>7 DEF RecordsThere
    <2>9. ASSUME NEW q \in Existing(s)
          PROVE  s.key[q] \in s.infos /\ s.owner[s.key[q]] = q
      <3>1. CASE q = o
        BY <2>1, <2>5, <2>6, <3>1
      <3>2. CASE q # o
        <4>1. q \in Existing(chain) /\ q \in Operator
          BY <2>7, <3>2 DEF Existing
        <4>2. chain.key[q] \in chain.infos /\ chain.owner[chain.key[q]] = q
          BY <4>1 DEF RecordsThere
        <4>3. chain.key[q] # k
          BY <2>2, <4>1, <4>2
        <4>4. QED
          BY <2>5, <2>6, <3>2, <4>1, <4>2, <4>3
      <3>3. QED
        BY <3>1, <3>2
    <2>10. ASSUME SignersThere(chain, comet), NEW j \in comet
           PROVE  j \in s.infos /\ s.owner[j] \in Existing(s)
      <3>1. j \in chain.infos /\ chain.owner[j] \in Existing(chain)
        BY <2>10 DEF SignersThere
      <3>2. j \in Key
        BY <3>1 DEF AppState
      <3>3. QED
        BY <2>5, <2>6, <2>7, <3>1, <3>2
    <2>11. QED
      BY <2>4, <2>5, <2>8, <2>9, <2>10 DEF CoinsAsAsked, RecordsThere, SignersThere
  <1>4. QED
    BY <1>1, <1>2, <1>3

(* The end of a block moves validators between the records and sends       *)
(* CometBFT the difference.                                                *)
LEMMA EndBlockOk ==
  ASSUME NEW s \in AppState, RecordsThere(s), CoinsAsAsked(s),
         NEW mature \in SUBSET s.queue
  PROVE  LET t == EndBlock(s, mature)
             new == (comet \cup {s.key[o] : o \in s.power})
                      \ {s.key[o] : o \in s.last \ s.power}
         IN  /\ t \in AppState /\ RecordsThere(t) /\ CoinsAsAsked(t)
             /\ SignersThere(s, comet) => SignersThere(t, new)
  <1> DEFINE leaving == s.last \ s.power
             t == EndBlock(s, mature)
             status == [o \in Operator |-> IF o \in s.power THEN "bonded"
                                           ELSE IF o \in leaving THEN "unbonding"
                                           ELSE IF o \in mature THEN "unbonded" ELSE s.status[o]]
             queue == (s.queue \cup leaving) \ mature
             new == (comet \cup {s.key[o] : o \in s.power})
                      \ {s.key[o] : o \in s.last \ s.power}
  <1>1. t = [s EXCEPT !.last = s.power, !.status = status, !.queue = queue]
    BY DEF EndBlock, AppState
  <1>2. s.status \in [Operator -> {"none", "bonded", "unbonding", "unbonded"}]
    BY DEF AppState
  <1>3. status \in [Operator -> {"none", "bonded", "unbonding", "unbonded"}]
    BY <1>2
  <1>4. \A o \in Operator :
          status[o] = "none" =>
            s.status[o] = "none" /\ o \notin s.power /\ o \notin s.last /\ o \notin mature
    BY <1>2
  <1>5. queue \in SUBSET Operator /\ queue \subseteq s.queue \cup s.last
    BY DEF AppState
  <1> HIDE DEF status, queue, t
  <1>6. t \in AppState
    BY <1>1, <1>3, <1>5 DEF AppState
  <1>7. /\ t.power = s.power /\ t.jailed = s.jailed /\ t.key = s.key /\ t.owner = s.owner
        /\ t.infos = s.infos /\ t.last = s.power /\ t.status = status /\ t.queue = queue
        /\ t.supply = s.supply /\ t.balance = s.balance /\ t.asked = s.asked
    BY <1>1 DEF AppState
  <1>8. \A o \in Existing(s) : o \in Existing(t)
    <2>1. ASSUME NEW o \in Existing(s)
          PROVE  o \in Existing(t)
      <3>1. o \in Operator /\ s.status[o] # "none"
        BY DEF Existing
      <3>2. status[o] # "none"
        BY <1>4, <3>1
      <3>3. QED
        BY <1>7, <3>1, <3>2 DEF Existing
    <2>2. QED
      BY <2>1
  <1>9. \A o \in Existing(t) : o \in Existing(s)
    <2>1. ASSUME NEW o \in Existing(t)
          PROVE  o \in Existing(s)
      <3>1. o \in Operator /\ status[o] # "none"
        BY <1>7 DEF Existing
      <3>2. o \in s.power \/ o \in s.last \/ o \in mature \/ s.status[o] # "none"
        BY <3>1 DEF status
      <3>3. QED
        BY <3>1, <3>2 DEF RecordsThere, Existing
    <2>2. QED
      BY <2>1
  <1>10. Existing(t) = Existing(s)
    BY <1>8, <1>9
  <1>11. RecordsThere(t)
    BY <1>5, <1>7, <1>10 DEF RecordsThere
  <1>12. ASSUME SignersThere(s, comet)
         PROVE  SignersThere(t, new)
    <2>1. ASSUME NEW k \in new
          PROVE  k \in s.infos /\ s.owner[k] \in Existing(s)
      <3>1. CASE k \in comet
        BY <1>12, <3>1 DEF SignersThere
      <3>2. CASE k \notin comet
        <4>1. PICK o \in s.power : k = s.key[o]
          BY <3>2
        <4>2. QED
          BY <4>1 DEF RecordsThere
      <3>3. QED
        BY <3>1, <3>2
    <2> HIDE DEF new
    <2>2. QED
      BY <1>7, <1>10, <2>1 DEF SignersThere
  <1>13. QED
    BY <1>6, <1>7, <1>11, <1>12 DEF t, CoinsAsAsked

(* No block finds a record missing.                                        *)
LEMMA NextBlockOk ==
  ASSUME InPlaceInv, NEW s \in AppState, NEW mature \in SUBSET chain.queue,
         RecordsThere(s), CoinsAsAsked(s), s.queue = chain.queue,
         SignersThere(chain, comet) => SignersThere(s, comet),
         NextBlock(s, mature)
  PROVE  InPlaceInv'
  <1>0. node = "running" /\ lost' = lost
    BY DEF NextBlock
  <1>1. CASE BeginBlockFails(chain) \/ EndBlockFails(s, mature)
    <2>1. node' = "halted" /\ chain' = chain /\ disk' = disk /\ comet' = comet
      BY <1>1 DEF NextBlock
    <2>2. ~EndBlockFails(s, mature)
      BY DEF RecordsThere, EndBlockFails, Exists, Existing
    <2>3. ASSUME SignersThere(chain, comet)
          PROVE  ~BeginBlockFails(chain)
      BY <2>3 DEF SignersThere, BeginBlockFails, Exists, Existing
    <2>4. lost
      BY <1>1, <2>2, <2>3 DEF InPlaceInv
    <2>5. QED
      BY <1>0, <2>1, <2>4 DEF InPlaceInv, BlocksGoOn
  <1>2. CASE ~(BeginBlockFails(chain) \/ EndBlockFails(s, mature))
    <2> DEFINE t == EndBlock(s, mature)
               new == (comet \cup {s.key[o] : o \in s.power})
                        \ {s.key[o] : o \in s.last \ s.power}
    <2>1. chain' = t /\ disk' = t /\ comet' = new /\ node' = "running"
      BY <1>0, <1>2 DEF NextBlock
    <2>2. /\ t \in AppState /\ RecordsThere(t) /\ CoinsAsAsked(t)
          /\ SignersThere(s, comet) => SignersThere(t, new)
      BY EndBlockOk
    <2>3. new \in SUBSET Key
      BY DEF InPlaceInv, AppState
    <2> HIDE DEF t, new
    <2>4. QED
      BY <1>0, <2>1, <2>2, <2>3 DEF InPlaceInv, BlocksGoOn
  <1>3. QED
    BY <1>1, <1>2

LEMMA InitInPlaceInv == InPlaceInit => InPlaceInv
  <1> SUFFICES ASSUME InPlaceInit
               PROVE  InPlaceInv
    OBVIOUS
  <1>1. PICK o \in Operator : chain = Genesis(o) /\ comet = {MainnetKey[o]}
    <2>1. (CHOOSE o \in Operator : TRUE) \in Operator
      BY InPlaceAssumption
    <2>2. QED
      BY <2>1 DEF InPlaceInit
  <1>2. disk = chain /\ node = "stopped" /\ lost = FALSE
    BY DEF InPlaceInit
  <1>3. /\ Genesis(o) \in AppState
        /\ RecordsThere(Genesis(o))
        /\ SignersThere(Genesis(o), {MainnetKey[o]})
        /\ CoinsAsAsked(Genesis(o))
    BY GenesisOk
  <1>4. MainnetKey[o] \in Key
    BY InPlaceAssumption DEF Key
  <1>5. QED
    BY <1>1, <1>2, <1>3, <1>4 DEF InPlaceInv, BlocksGoOn

LEMMA InPlaceTestnetOk ==
  ASSUME InPlaceInv, NEW o \in Operator \cup {NoText}, NEW key \in Key,
         NEW list \in Lists, NEW badArgs \in BOOLEAN,
         InPlaceTestnet(o, key, list, badArgs)
  PROVE  InPlaceInv'
  <1> DEFINE accounts == AccountsToFund(list)
             s == InitAppForTestnet(disk, o, key, accounts)
  <1>1. CASE badArgs \/ s.exit
    <2>1. UNCHANGED inPlaceVars
      BY <1>1 DEF InPlaceTestnet
    <2>2. QED
      BY <2>1 DEF inPlaceVars, InPlaceInv, BlocksGoOn
  <1>2. CASE ~(badArgs \/ s.exit)
    <2>1. /\ chain' = Asked(s, accounts) /\ comet' = {key} /\ node' = "running"
          /\ lost' = FALSE /\ disk' = disk
      BY <1>2 DEF InPlaceTestnet
    <2>2. o \in Operator
      <3>1. CASE o \notin Operator
        <4>1. s = [disk EXCEPT !.exit = TRUE]
          BY <3>1 DEF InitAppForTestnet
        <4>2. s.exit
          BY <4>1 DEF InPlaceInv, AppState
        <4>3. QED
          BY <1>2, <4>2
      <3>2. QED
        BY <3>1
    <2>3. disk \in AppState /\ CoinsAsAsked(disk) /\ ~s.exit
      BY <1>2 DEF InPlaceInv
    <2> HIDE DEF s, accounts
    <2>4. /\ Asked(s, accounts) \in AppState
          /\ RecordsThere(Asked(s, accounts))
          /\ SignersThere(Asked(s, accounts), {key})
          /\ CoinsAsAsked(Asked(s, accounts))
      BY <2>2, <2>3, TakenOver DEF s, accounts
    <2>5. QED
      BY <2>1, <2>4 DEF InPlaceInv, BlocksGoOn
  <1>3. QED
    BY <1>1, <1>2

LEMMA NextInPlaceInv ==
  ASSUME InPlaceInv, [InPlaceNext]_inPlaceVars
  PROVE  InPlaceInv'
  <1>1. CASE UNCHANGED inPlaceVars
    BY <1>1 DEF inPlaceVars, InPlaceInv, BlocksGoOn
  <1>2. ASSUME NEW o \in Operator \cup {NoText}, NEW key \in Key,
               NEW list \in Lists, NEW badArgs \in BOOLEAN,
               InPlaceTestnet(o, key, list, badArgs)
        PROVE  InPlaceInv'
    BY <1>2, InPlaceTestnetOk
  <1>3. ASSUME NEW mature \in SUBSET chain.queue, TxBlock(mature)
        PROVE  InPlaceInv'
    <2>1. PICK s : /\ NextBlock(s, mature)
                   /\ \/ s = chain
                      \/ \E o \in chain.power : chain.power # {o} /\ s = Jailed(o)
                      \/ \E o \in Operator : MayJoin(o) /\ s = Joined(o)
      BY <1>3 DEF TxBlock
    <2>2. chain \in AppState /\ RecordsThere(chain) /\ CoinsAsAsked(chain)
      BY DEF InPlaceInv
    <2>3. /\ s \in AppState /\ RecordsThere(s) /\ CoinsAsAsked(s)
          /\ s.queue = chain.queue
          /\ SignersThere(chain, comet) => SignersThere(s, comet)
      BY <2>1, <2>2, TxOk
    <2>4. QED
      BY <2>1, <2>3, NextBlockOk
  <1>4. CASE Kill
    BY <1>4 DEF Kill, InPlaceInv, BlocksGoOn
  <1>5. CASE StartNode
    BY <1>5 DEF StartNode, InPlaceInv, BlocksGoOn
  <1>6. QED
    BY <1>1, <1>2, <1>3, <1>4, <1>5 DEF InPlaceNext

LEMMA AlwaysInPlaceInv == Spec => []InPlaceInv
  <1>1. Init => InPlaceInv
    BY InitInPlaceInv DEF Init
  <1>2. InPlaceInv /\ [Next]_<<command, exportVars, multiNodeVars, inPlaceVars>> => InPlaceInv'
    <2> SUFFICES ASSUME InPlaceInv, [Next]_<<command, exportVars, multiNodeVars, inPlaceVars>>
                 PROVE  InPlaceInv'
      OBVIOUS
    <2>1. [InPlaceNext]_inPlaceVars
      BY DEF Next, Export, MultiNode, InPlace
    <2>2. QED
      BY <2>1, NextInPlaceInv
  <1>3. QED
    BY <1>1, <1>2, PTL DEF Spec

(* After a testnet has been made of a mainnet its blocks go on, whoever is *)
(* jailed, joins or ends unbonding in them and however often the node is   *)
(* killed: no block and no restart finds a record missing that the command *)
(* should have written (initAppForTestnet, InitAppForTestnet and the       *)
(* blocks after it).                                                       *)
THEOREM InPlaceBlocksGoOn == Spec => []BlocksGoOn
  <1>1. InPlaceInv => BlocksGoOn
    BY DEF InPlaceInv
  <1>2. QED
    BY <1>1, AlwaysInPlaceInv, PTL

(* Whatever list of accounts the command was given, and however often:     *)
(* every account has been funded exactly as often as it was named, and the *)
(* supply is the sum of the balances (the loop over accountsToFund).       *)
THEOREM InPlaceFundedAsAsked == Spec => []FundedAsAsked
  <1>1. InPlaceInv => FundedAsAsked
    BY DEF InPlaceInv, FundedAsAsked, CoinsAsAsked
  <1>2. QED
    BY <1>1, AlwaysInPlaceInv, PTL

-----------------------------------------------------------------------------
(* The export: the books of the distribution module.                       *)

Period == 0..MaxPeriod
Height == 0..MaxHeight

SlashEvent == [v : Validator, period : Period, height : Height]
StartingInfo == [period : Period, height : Height]
Departure == [kind : {"unbonding", "redelegation"}, d : Delegation, height : Height]

(* State, before it is known that no count falls below zero.               *)
Books ==
  [height : Height, jailed : SUBSET Validator, power : SUBSET Validator,
   unbondingHeight : [Validator -> Height], infoStart : [Validator -> Height],
   del : SUBSET Delegation, leaving : SUBSET Departure,
   period : [Validator -> Period], refs : [Validator -> [Period -> Int]],
   start : [Delegation -> StartingInfo], slashes : SUBSET SlashEvent,
   commission : [Validator -> Nat], owed : [Delegation -> Nat],
   outstanding : [Validator -> Int], pool : Int, bank : Int]

Of(ds, v) == {d \in ds : d.validator = v}

Starters(s, ds, v, p) == {d \in ds : d.validator = v /\ s.start[d].period = p}

Slashed(s, v, p) == {e \in s.slashes : e.v = v /\ e.period = p}

(* References to a period, when the delegations ds have started.           *)
References(s, ds, v, p) ==
  (IF p = s.period[v] - 1 THEN 1 ELSE 0)
  + Cardinality(Starters(s, ds, v, p)) + Cardinality(Slashed(s, v, p))

Counted(s, ds) ==
  \A v \in Validator : \A p \in Period : s.refs[v][p] = References(s, ds, v, p)

PeriodsEnded(s, ds) ==
  /\ \A v \in Validator : 1 <= s.period[v]
  /\ \A d \in ds : s.start[d].period < s.period[d.validator]
  /\ \A e \in s.slashes : e.period < s.period[e.v]

Claimed(s, ds, v) == s.commission[v] + Sum(s.owed, Of(ds, v))

Covered(s, ds) == \A v \in Validator : Claimed(s, ds, v) <= s.outstanding[v]

Holdings(s) == s.bank = Sum(s.outstanding, Validator) + s.pool

StartsBefore(s, ds) == \A d \in ds : s.start[d].height <= s.height

(* The books are right, when the delegations ds have started.              *)
Right(s, ds) ==
  /\ s \in Books
  /\ ds \subseteq Delegation
  /\ Counted(s, ds)
  /\ PeriodsEnded(s, ds)
  /\ Covered(s, ds)
  /\ Holdings(s)
  /\ s.pool >= 0
  /\ StartsBefore(s, ds)

(* What the distribution module leaves alone.                              *)
Kept(r, s) ==
  /\ r.height = s.height /\ r.jailed = s.jailed /\ r.power = s.power
  /\ r.unbondingHeight = s.unbondingHeight /\ r.infoStart = s.infoStart
  /\ r.del = s.del /\ r.leaving = s.leaving /\ r.slashes = s.slashes

LEMMA BooksFields ==
  ASSUME NEW s \in Books
  PROVE  /\ s.height \in Height /\ s.jailed \in SUBSET Validator
         /\ s.power \in SUBSET Validator
         /\ s.unbondingHeight \in [Validator -> Height]
         /\ s.infoStart \in [Validator -> Height]
         /\ s.del \in SUBSET Delegation /\ s.leaving \in SUBSET Departure
         /\ s.period \in [Validator -> Period]
         /\ s.refs \in [Validator -> [Period -> Int]]
         /\ s.start \in [Delegation -> StartingInfo]
         /\ s.slashes \in SUBSET SlashEvent
         /\ s.commission \in [Validator -> Nat] /\ s.owed \in [Delegation -> Nat]
         /\ s.outstanding \in [Validator -> Int] /\ s.pool \in Int /\ s.bank \in Int
  BY DEF Books

LEMMA ExportFacts ==
  /\ IsFiniteSet(Validator) /\ IsFiniteSet(Delegation)
  /\ \A d \in Delegation : d.validator \in Validator
  /\ MaxHeight \in Nat /\ MaxPeriod \in Nat
  /\ \A v \in Validator : 1 + 2 * Cardinality(Of(Delegation, v)) <= MaxPeriod
  BY ExportAssumption DEF Of

LEMMA DelegationSets ==
  ASSUME NEW ds \in SUBSET Delegation
  PROVE  /\ IsFiniteSet(ds)
         /\ \A v : IsFiniteSet(Of(ds, v)) /\ Cardinality(Of(ds, v)) \in Nat
         /\ \A s, v, p : /\ IsFiniteSet(Starters(s, ds, v, p))
                         /\ Cardinality(Starters(s, ds, v, p)) \in Nat
  <1>1. IsFiniteSet(ds)
    BY ExportFacts, FS_Subset
  <1>2. \A v : Of(ds, v) \subseteq ds
    BY DEF Of
  <1>3. \A s, v, p : Starters(s, ds, v, p) \subseteq ds
    BY DEF Starters
  <1>4. QED
    BY <1>1, <1>2, <1>3, FS_Subset, FS_CardinalityType

LEMMA SlashSets ==
  ASSUME NEW s \in Books
  PROVE  /\ IsFiniteSet(s.slashes)
         /\ \A v, p : /\ IsFiniteSet(Slashed(s, v, p))
                      /\ Cardinality(Slashed(s, v, p)) \in Nat
  <1>1. IsFiniteSet(SlashEvent)
    <2>1. IsFiniteSet(Period) /\ IsFiniteSet(Height)
      <3>1. 0 \in Int /\ MaxPeriod \in Int /\ MaxHeight \in Int
        BY ExportFacts
      <3>2. IsFiniteSet(0..MaxPeriod) /\ IsFiniteSet(0..MaxHeight)
        BY ONLY <3>1, FS_Interval
      <3>3. QED
        BY <3>2 DEF Period, Height
    <2>2. IsFiniteSet(Validator \X Period) /\ IsFiniteSet((Validator \X Period) \X Height)
      BY <2>1, ExportFacts, FS_Product
    <2> DEFINE P == (Validator \X Period) \X Height
               f == [x \in P |-> [v |-> x[1][1], period |-> x[1][2], height |-> x[2]]]
    <2>3. f \in Surjection(P, SlashEvent)
      <3>1. f \in [P -> SlashEvent]
        BY DEF SlashEvent
      <3>2. ASSUME NEW e \in SlashEvent
            PROVE  \E x \in P : f[x] = e
        <4>1. <<<<e.v, e.period>>, e.height>> \in P
          BY DEF SlashEvent
        <4>2. f[<<<<e.v, e.period>>, e.height>>] = e
          BY <4>1 DEF SlashEvent
        <4>3. QED
          BY <4>1, <4>2
      <3> HIDE DEF f, P
      <3>3. QED
        BY <3>1, <3>2 DEF Surjection
    <2> HIDE DEF P
    <2>4. QED
      BY <2>2, <2>3, FS_Surjection DEF P
  <1>2. IsFiniteSet(s.slashes)
    BY <1>1, BooksFields, FS_Subset
  <1>3. \A v, p : Slashed(s, v, p) \subseteq s.slashes
    BY DEF Slashed
  <1>4. QED
    BY <1>2, <1>3, FS_Subset, FS_CardinalityType

-----------------------------------------------------------------------------
(* The operations of the distribution module.                              *)

(* IncrementPeriod, record by record.                                      *)
LEMMA IncrementFields ==
  ASSUME NEW s \in Books, NEW v \in Validator,
         1 <= s.period[v], s.period[v] < MaxPeriod,
         NEW r, r = IncrementPeriod(s, v)
  PROVE  /\ r \in Books
         /\ Kept(r, s)
         /\ r.start = s.start /\ r.commission = s.commission /\ r.owed = s.owed
         /\ r.outstanding = s.outstanding /\ r.pool = s.pool /\ r.bank = s.bank
         /\ r.period[v] = s.period[v] + 1
         /\ r.refs[v][s.period[v]] = 1
         /\ r.refs[v][s.period[v] - 1] = s.refs[v][s.period[v] - 1] - 1
         /\ \A p \in Period :
              p # s.period[v] /\ p # s.period[v] - 1 => r.refs[v][p] = s.refs[v][p]
         /\ \A u \in Validator : u # v => /\ r.period[u] = s.period[u]
                                          /\ r.refs[u] = s.refs[u]
  <1> DEFINE p == s.period[v]
             refs == [s.refs[v] EXCEPT ![p - 1] = @ - 1, ![p] = 1]
  <1>1. /\ p \in Period /\ p - 1 \in Period /\ p + 1 \in Period /\ p - 1 # p
        /\ s.refs[v] \in [Period -> Int]
    BY BooksFields, ExportFacts DEF Period
  <1>2. refs \in [Period -> Int]
    BY <1>1
  <1>3. /\ refs[p] = 1
        /\ refs[p - 1] = s.refs[v][p - 1] - 1
        /\ \A q \in Period : q # p /\ q # p - 1 => refs[q] = s.refs[v][q]
    BY <1>1
  <1>4. r = [s EXCEPT !.refs = [s.refs EXCEPT ![v] = refs],
                      !.period = [s.period EXCEPT ![v] = p + 1]]
    BY DEF IncrementPeriod, Books
  <1> HIDE DEF refs, p
  <1>5. /\ [s.refs EXCEPT ![v] = refs] \in [Validator -> [Period -> Int]]
        /\ [s.period EXCEPT ![v] = p + 1] \in [Validator -> Period]
    BY <1>1, <1>2, BooksFields
  <1>6. /\ r \in Books
        /\ r.refs = [s.refs EXCEPT ![v] = refs]
        /\ r.period = [s.period EXCEPT ![v] = p + 1]
    BY ONLY <1>4, <1>5 DEF Books
  <1>7. /\ Kept(r, s)
        /\ r.start = s.start /\ r.commission = s.commission /\ r.owed = s.owed
        /\ r.outstanding = s.outstanding /\ r.pool = s.pool /\ r.bank = s.bank
    BY <1>4 DEF Books, Kept
  <1>8. /\ r.refs[v] = refs /\ r.period[v] = p + 1
        /\ \A u \in Validator : u # v => r.period[u] = s.period[u] /\ r.refs[u] = s.refs[u]
    BY ONLY <1>6, BooksFields
  <1>9. QED
    BY <1>3, <1>6, <1>7, <1>8 DEF p

(* The start of a delegation is written.                                   *)
IsInitialized(r, s, d) ==
  LET v == d.validator
      w == s.period[v] - 1
  IN  /\ r \in Books
      /\ Kept(r, s)
      /\ r.period = s.period /\ r.commission = s.commission
      /\ r.outstanding = s.outstanding /\ r.pool = s.pool /\ r.bank = s.bank
      /\ r.start[d] = [period |-> w, height |-> s.height]
      /\ r.owed[d] = 0
      /\ r.refs[v][w] = s.refs[v][w] + 1
      /\ \A p \in Period : p # w => r.refs[v][p] = s.refs[v][p]
      /\ \A u \in Validator : u # v => r.refs[u] = s.refs[u]
      /\ \A e \in Delegation : e # d => r.start[e] = s.start[e] /\ r.owed[e] = s.owed[e]

LEMMA InitializeFields ==
  ASSUME NEW s \in Books, NEW d \in Delegation, 1 <= s.period[d.validator]
  PROVE  IsInitialized(InitializeDelegation(s, d), s, d)
  <1> DEFINE v == d.validator
             r == InitializeDelegation(s, d)
             p == s.period[v] - 1
             refs == [s.refs[v] EXCEPT ![p] = @ + 1]
             entry == [period |-> p, height |-> s.height]
  <1>0. v \in Validator
    BY ExportFacts
  <1>1. /\ p \in Period /\ s.refs[v] \in [Period -> Int]
        /\ entry \in StartingInfo
    BY <1>0, BooksFields, ExportFacts DEF Period, StartingInfo
  <1>2. refs \in [Period -> Int]
    BY <1>1
  <1>3. /\ refs[p] = s.refs[v][p] + 1
        /\ \A q \in Period : q # p => refs[q] = s.refs[v][q]
    BY <1>1
  <1>4. r = [s EXCEPT !.refs = [s.refs EXCEPT ![v] = refs],
                      !.start = [s.start EXCEPT ![d] = entry],
                      !.owed = [s.owed EXCEPT ![d] = 0]]
    BY DEF InitializeDelegation, Books
  <1> HIDE DEF refs, p, entry, r, v
  <1>5. /\ [s.refs EXCEPT ![v] = refs] \in [Validator -> [Period -> Int]]
        /\ [s.start EXCEPT ![d] = entry] \in [Delegation -> StartingInfo]
        /\ [s.owed EXCEPT ![d] = 0] \in [Delegation -> Nat]
    BY <1>1, <1>2, BooksFields
  <1>6. /\ r \in Books
        /\ r.refs = [s.refs EXCEPT ![v] = refs]
        /\ r.start = [s.start EXCEPT ![d] = entry]
        /\ r.owed = [s.owed EXCEPT ![d] = 0]
    BY <1>4, <1>5 DEF Books
  <1>7. /\ Kept(r, s)
        /\ r.period = s.period /\ r.commission = s.commission
        /\ r.outstanding = s.outstanding /\ r.pool = s.pool /\ r.bank = s.bank
    BY <1>4 DEF Books, Kept
  <1>8. /\ r.refs[v] = refs /\ r.start[d] = entry /\ r.owed[d] = 0
        /\ \A u \in Validator : u # v => r.refs[u] = s.refs[u]
        /\ \A e \in Delegation : e # d => r.start[e] = s.start[e] /\ r.owed[e] = s.owed[e]
    BY <1>0, <1>6, BooksFields
  <1>9. QED
    BY <1>3, <1>6, <1>7, <1>8 DEF p, entry, r, v, IsInitialized

(* Of WithdrawDelegation, what follows IncrementPeriod.                    *)
PaidOut(s, d, r) ==
  [r EXCEPT !.refs[d.validator][s.start[d].period] = @ - 1,
            !.start[d] = [period |-> 0, height |-> 0],
            !.owed[d] = 0,
            !.outstanding[d.validator] = @ - s.owed[d],
            !.bank = @ - s.owed[d]]

IsPaidOut(r, t, d) ==
  LET v == d.validator
      w == t.start[d].period
  IN  /\ r \in Books
      /\ Kept(r, t)
      /\ r.period = t.period /\ r.commission = t.commission /\ r.pool = t.pool
      /\ r.bank = t.bank - t.owed[d]
      /\ r.owed[d] = 0
      /\ r.outstanding[v] = t.outstanding[v] - t.owed[d]
      /\ r.refs[v][w] = t.refs[v][w] - 1
      /\ \A p \in Period : p # w => r.refs[v][p] = t.refs[v][p]
      /\ \A u \in Validator : u # v => /\ r.refs[u] = t.refs[u]
                                       /\ r.outstanding[u] = t.outstanding[u]
      /\ \A e \in Delegation : e # d => r.start[e] = t.start[e] /\ r.owed[e] = t.owed[e]

LEMMA PaidOutFields ==
  ASSUME NEW t \in Books, NEW s \in Books, t.start = s.start, t.owed = s.owed,
         NEW d \in Delegation
  PROVE  IsPaidOut(PaidOut(s, d, t), t, d)
  <1> DEFINE v == d.validator
             r == PaidOut(s, d, t)
             p == t.start[d].period
             n == t.owed[d]
             refs == [t.refs[v] EXCEPT ![p] = @ - 1]
             entry == [period |-> 0, height |-> 0]
  <1>0. v \in Validator
    BY ExportFacts
  <1>1. /\ p \in Period /\ t.refs[v] \in [Period -> Int] /\ n \in Nat
        /\ entry \in StartingInfo /\ t.outstanding[v] \in Int /\ t.bank \in Int
    BY <1>0, BooksFields, ExportFacts DEF Period, StartingInfo, Height
  <1>2. refs \in [Period -> Int]
    BY <1>1
  <1>3. /\ refs[p] = t.refs[v][p] - 1
        /\ \A q \in Period : q # p => refs[q] = t.refs[v][q]
    BY <1>1
  <1>4. r = [t EXCEPT !.refs = [t.refs EXCEPT ![v] = refs],
                      !.start = [t.start EXCEPT ![d] = entry],
                      !.owed = [t.owed EXCEPT ![d] = 0],
                      !.outstanding = [t.outstanding EXCEPT ![v] = t.outstanding[v] - n],
                      !.bank = t.bank - n]
    BY <1>0, BooksFields DEF PaidOut, Books
  <1> HIDE DEF refs, p, entry, n, r, v
  <1>5. /\ [t.refs EXCEPT ![v] = refs] \in [Validator -> [Period -> Int]]
        /\ [t.start EXCEPT ![d] = entry] \in [Delegation -> StartingInfo]
        /\ [t.owed EXCEPT ![d] = 0] \in [Delegation -> Nat]
        /\ [t.outstanding EXCEPT ![v] = t.outstanding[v] - n] \in [Validator -> Int]
        /\ t.bank - n \in Int
    <2>1. /\ t.refs \in [Validator -> [Period -> Int]] /\ t.start \in [Delegation -> StartingInfo]
          /\ t.owed \in [Delegation -> Nat] /\ t.outstanding \in [Validator -> Int]
      BY BooksFields
    <2>2. [t.refs EXCEPT ![v] = refs] \in [Validator -> [Period -> Int]]
      BY <1>2, <2>1
    <2>3. [t.start EXCEPT ![d] = entry] \in [Delegation -> StartingInfo]
      BY <1>1, <2>1
    <2>4. [t.owed EXCEPT ![d] = 0] \in [Delegation -> Nat]
      BY <2>1
    <2>5. t.outstanding[v] - n \in Int /\ t.bank - n \in Int
      BY <1>1
    <2>6. [t.outstanding EXCEPT ![v] = t.outstanding[v] - n] \in [Validator -> Int]
      BY <2>1, <2>5
    <2>7. QED
      BY <2>2, <2>3, <2>4, <2>5, <2>6
  <1>6. /\ r \in Books
        /\ r.refs = [t.refs EXCEPT ![v] = refs]
        /\ r.start = [t.start EXCEPT ![d] = entry]
        /\ r.owed = [t.owed EXCEPT ![d] = 0]
        /\ r.outstanding = [t.outstanding EXCEPT ![v] = t.outstanding[v] - n]
        /\ r.bank = t.bank - n
    <2>1. PICK a \in [Validator -> [Period -> Int]], b \in [Delegation -> StartingInfo],
               c \in [Delegation -> Nat], o \in [Validator -> Int], m \in Int :
            /\ a = [t.refs EXCEPT ![v] = refs]
            /\ b = [t.start EXCEPT ![d] = entry]
            /\ c = [t.owed EXCEPT ![d] = 0]
            /\ o = [t.outstanding EXCEPT ![v] = t.outstanding[v] - n]
            /\ m = t.bank - n
      BY <1>5
    <2>2. r = [t EXCEPT !.refs = a, !.start = b, !.owed = c, !.outstanding = o, !.bank = m]
      BY <1>4, <2>1
    <2>3. r \in Books
      <3> DEFINE q == [t EXCEPT !.refs = a, !.start = b]
      <3>1. q \in Books
        BY DEF Books
      <3>2. r = [q EXCEPT !.owed = c, !.outstanding = o, !.bank = m]
        BY <2>2
      <3> HIDE DEF q
      <3>3. QED
        BY <3>1, <3>2 DEF Books
    <2>4. /\ r.refs = a /\ r.start = b /\ r.owed = c
          /\ r.outstanding = o /\ r.bank = m
      BY <2>2 DEF Books
    <2>5. QED
      BY <2>1, <2>3, <2>4
  <1>7. /\ Kept(r, t)
        /\ r.period = t.period /\ r.commission = t.commission /\ r.pool = t.pool
    BY <1>4 DEF Books, Kept
  <1>8. /\ r.refs[v] = refs /\ r.owed[d] = 0
        /\ r.outstanding[v] = t.outstanding[v] - n
        /\ \A u \in Validator : u # v => r.refs[u] = t.refs[u] /\ r.outstanding[u] = t.outstanding[u]
        /\ \A e \in Delegation : e # d => r.start[e] = t.start[e] /\ r.owed[e] = t.owed[e]
    BY <1>0, <1>6, BooksFields
  <1>9. QED
    BY <1>3, <1>6, <1>7, <1>8 DEF p, n, r, v, IsPaidOut

LEMMA WithdrawIsPaidOut ==
  ASSUME NEW s, NEW d
  PROVE  WithdrawDelegation(s, d) = PaidOut(s, d, IncrementPeriod(s, d.validator))
  BY DEF WithdrawDelegation, PaidOut

LEMMA RightFacts ==
  ASSUME NEW s, NEW ds, Right(s, ds)
  PROVE  /\ s \in Books /\ ds \in SUBSET Delegation
         /\ \A d \in ds : d \in Delegation /\ d.validator \in Validator
         /\ \A v \in Validator : s.period[v] \in Period /\ s.period[v] - 1 \in Period
         /\ \A v \in Validator : /\ s.period[v] \in Int /\ 1 <= s.period[v]
                                 /\ s.period[v] <= MaxPeriod
         /\ \A v \in Validator : s.commission[v] \in Nat /\ s.outstanding[v] \in Int
         /\ \A d \in Delegation : s.owed[d] \in Nat
  BY BooksFields, ExportFacts DEF Right, PeriodsEnded, Period

(* Where nothing counts.                                                   *)
LEMMA NoReferences ==
  ASSUME NEW s, NEW ds, Right(s, ds), NEW v \in Validator
  PROVE  /\ Cardinality(Starters(s, ds, v, s.period[v])) = 0
         /\ Cardinality(Slashed(s, v, s.period[v])) = 0
  <1>1. Starters(s, ds, v, s.period[v]) = {}
    <2>1. SUFFICES ASSUME NEW d \in ds, d.validator = v, s.start[d].period = s.period[v]
                   PROVE  FALSE
      BY DEF Starters
    <2>2. s.start[d].period < s.period[v]
      BY <2>1 DEF Right, PeriodsEnded
    <2>3. QED
      BY <2>1, <2>2, RightFacts
  <1>2. Slashed(s, v, s.period[v]) = {}
    <2>1. SUFFICES ASSUME NEW e \in s.slashes, e.v = v, e.period = s.period[v]
                   PROVE  FALSE
      BY DEF Slashed
    <2>2. e.period < s.period[v]
      BY <2>1 DEF Right, PeriodsEnded
    <2>3. QED
      BY <2>1, <2>2, RightFacts
  <1>3. QED
    BY <1>1, <1>2, FS_EmptySet

(* Each operation keeps the books right; the set ds says who has started.  *)
LEMMA IncrementRight ==
  ASSUME NEW s, NEW ds, Right(s, ds), NEW v \in Validator, s.period[v] < MaxPeriod,
         NEW r, r = IncrementPeriod(s, v)
  PROVE  Right(r, ds)
  <1>1. /\ r \in Books
        /\ Kept(r, s)
        /\ r.start = s.start /\ r.commission = s.commission /\ r.owed = s.owed
        /\ r.outstanding = s.outstanding /\ r.pool = s.pool /\ r.bank = s.bank
        /\ r.period[v] = s.period[v] + 1
        /\ r.refs[v][s.period[v]] = 1
        /\ r.refs[v][s.period[v] - 1] = s.refs[v][s.period[v] - 1] - 1
        /\ \A p \in Period :
             p # s.period[v] /\ p # s.period[v] - 1 => r.refs[v][p] = s.refs[v][p]
        /\ \A u \in Validator : u # v => /\ r.period[u] = s.period[u]
                                         /\ r.refs[u] = s.refs[u]
    BY RightFacts, IncrementFields
  <1>2. \A u, p : Starters(r, ds, u, p) = Starters(s, ds, u, p)
    BY <1>1 DEF Starters
  <1>3. \A u, p : Slashed(r, u, p) = Slashed(s, u, p)
    BY <1>1 DEF Slashed, Kept
  <1>4. ASSUME NEW u \in Validator, NEW p \in Period
        PROVE  r.refs[u][p] = References(r, ds, u, p)
    <2>1. s.refs[u][p] = References(s, ds, u, p)
      BY DEF Right, Counted
    <2>2. PICK m \in Nat, n \in Nat : /\ m = Cardinality(Starters(s, ds, u, p))
                                      /\ n = Cardinality(Slashed(s, u, p))
      BY RightFacts, DelegationSets, SlashSets
    <2>3. /\ s.refs[u][p] = (IF p = s.period[u] - 1 THEN 1 ELSE 0) + m + n
          /\ References(r, ds, u, p) = (IF p = r.period[u] - 1 THEN 1 ELSE 0) + m + n
      BY <1>2, <1>3, <2>1, <2>2 DEF References
    <2>4. s.period[u] \in Int /\ p \in Int
      BY RightFacts DEF Period
    <2>5. CASE u # v
      BY <1>1, <2>3, <2>5
    <2>6. CASE u = v /\ p = s.period[v]
      <3>1. m = 0 /\ n = 0
        BY <2>2, <2>6, NoReferences
      <3>2. QED
        BY <1>1, <2>3, <2>4, <2>6, <3>1
    <2>7. CASE u = v /\ p = s.period[v] - 1
      BY <1>1, <2>3, <2>4, <2>7
    <2>8. CASE u = v /\ p # s.period[v] /\ p # s.period[v] - 1
      BY <1>1, <2>3, <2>4, <2>8
    <2>9. QED
      BY <2>5, <2>6, <2>7, <2>8
  <1>5. \A u \in Validator : s.period[u] <= r.period[u]
    BY <1>1, RightFacts
  <1>6. PeriodsEnded(r, ds)
    <2>1. \A u \in Validator : 1 <= r.period[u]
      BY <1>1, RightFacts
    <2>2. ASSUME NEW d \in ds
          PROVE  r.start[d].period < r.period[d.validator]
      <3>1. s.start[d].period < s.period[d.validator]
        BY DEF Right, PeriodsEnded
      <3>2. s.start[d].period \in Int
        BY RightFacts, BooksFields DEF StartingInfo, Period
      <3>3. d.validator \in Validator
        BY RightFacts
      <3>4. QED
        BY <1>1, <3>1, <3>2, <3>3, RightFacts
    <2>3. ASSUME NEW e \in r.slashes
          PROVE  e.period < r.period[e.v]
      <3>1. e \in s.slashes
        BY <1>1 DEF Kept
      <3>2. e.period < s.period[e.v]
        BY <3>1 DEF Right, PeriodsEnded
      <3>3. e.period \in Int /\ e.v \in Validator
        BY <3>1, RightFacts, BooksFields DEF SlashEvent, Period
      <3>4. QED
        BY <1>1, <3>2, <3>3, RightFacts
    <2>4. QED
      BY <2>1, <2>2, <2>3 DEF PeriodsEnded
  <1>7. Covered(r, ds) /\ Holdings(r) /\ StartsBefore(r, ds) /\ r.pool >= 0
    BY <1>1 DEF Right, Covered, Claimed, Holdings, StartsBefore, Kept
  <1>8. QED
    BY <1>1, <1>4, <1>6, <1>7 DEF Right, Counted

(* Sums over the delegations of a validator, as one of them comes or goes. *)
AlikeBut(d, f, g) ==
  /\ f \in [Delegation -> Nat] /\ g \in [Delegation -> Nat]
  /\ \A e \in Delegation : e # d => g[e] = f[e]

SumsWithout(d, f, g, ds, u) ==
  /\ Sum(g, Of(ds, u)) = Sum(f, Of(ds, u))
  /\ Sum(f, Of(ds, u)) \in Int
  /\ Sum(g, Of(ds \cup {d}, u))
       = Sum(f, Of(ds, u)) + (IF u = d.validator THEN g[d] ELSE 0)

LEMMA OwedWithout ==
  ASSUME NEW ds \in SUBSET Delegation, NEW d \in Delegation \ ds,
         NEW f, NEW g, AlikeBut(d, f, g), NEW u \in Validator
  PROVE  SumsWithout(d, f, g, ds, u)
  <1>0. /\ f \in [Delegation -> Nat] /\ g \in [Delegation -> Nat]
        /\ \A e \in Delegation : e # d => g[e] = f[e]
    BY DEF AlikeBut
  <1> DEFINE C == Of(ds, u)
             D == Of(ds \cup {d}, u)
  <1>1. IsFiniteSet(C) /\ IsFiniteSet(D)
    BY DelegationSets
  <1>2. C \subseteq Delegation /\ D \subseteq Delegation /\ d \notin C
    BY DEF Of
  <1>3. D = IF u = d.validator THEN C \cup {d} ELSE C
    BY DEF Of
  <1> HIDE DEF C, D
  <1>4. \A x \in C : f[x] \in Int /\ g[x] = f[x]
    BY <1>0, <1>2
  <1>5. Sum(g, C) = Sum(f, C)
    BY <1>1, <1>4, SumSame
  <1>6. Sum(f, C) \in Int
    BY <1>1, <1>4, SumStep
  <1>7. CASE u = d.validator
    <2>1. \A x \in D : g[x] \in Int
      BY <1>0, <1>2
    <2>2. d \in D /\ D \ {d} = C
      BY <1>2, <1>3, <1>7
    <2>3. Sum(g, D) = g[d] + Sum(g, D \ {d})
      BY <1>1, <2>1, <2>2, SumStep
    <2>4. g[d] \in Int
      BY <1>0
    <2>5. Sum(g, D \ {d}) = Sum(g, C)
      BY <2>2
    <2>6. Sum(g, D) = Sum(f, C) + g[d]
      BY <1>5, <1>6, <2>3, <2>4, <2>5
    <2>7. QED
      BY <1>5, <1>6, <1>7, <2>6 DEF C, D, SumsWithout
  <1>8. CASE u # d.validator
    BY <1>3, <1>5, <1>6, <1>8 DEF C, D, SumsWithout
  <1>9. QED
    BY <1>7, <1>8

LEMMA InitializeRight ==
  ASSUME NEW s, NEW ds, Right(s, ds), NEW d \in Delegation \ ds,
         NEW r, r = InitializeDelegation(s, d)
  PROVE  Right(r, ds \cup {d})
  <1> DEFINE v == d.validator
             w == s.period[v] - 1
             es == ds \cup {d}
  <1>0. v \in Validator /\ 1 <= s.period[v] /\ s \in Books /\ es \in SUBSET Delegation
    BY ExportFacts, RightFacts
  <1>1. /\ r \in Books
        /\ Kept(r, s)
        /\ r.period = s.period /\ r.commission = s.commission
        /\ r.outstanding = s.outstanding /\ r.pool = s.pool /\ r.bank = s.bank
        /\ r.start[d] = [period |-> w, height |-> s.height]
        /\ r.owed[d] = 0
        /\ r.refs[v][w] = s.refs[v][w] + 1
        /\ \A p \in Period : p # w => r.refs[v][p] = s.refs[v][p]
        /\ \A u \in Validator : u # v => r.refs[u] = s.refs[u]
        /\ \A e \in Delegation : e # d => r.start[e] = s.start[e] /\ r.owed[e] = s.owed[e]
    <2>1. IsInitialized(r, s, d)
      BY <1>0, InitializeFields
    <2>2. QED
      BY <2>1 DEF IsInitialized
  <1> HIDE DEF v, w, es
  <1>2. \A u, p : Slashed(r, u, p) = Slashed(s, u, p)
    BY <1>1 DEF Slashed, Kept
  <1>3. ASSUME NEW u \in Validator, NEW p \in Period
        PROVE  Starters(r, es, u, p)
                 = IF u = v /\ p = w THEN Starters(s, ds, u, p) \cup {d}
                                     ELSE Starters(s, ds, u, p)
    <2>1. \A e \in ds : e \in Delegation /\ e # d
      BY RightFacts
    <2>2. \A e \in ds : r.start[e].period = s.start[e].period
      BY <1>1, <2>1
    <2>3. r.start[d].period = w
      BY <1>1
    <2>4. QED
      BY <2>2, <2>3 DEF Starters, es, v
  <1>4. ASSUME NEW u \in Validator, NEW p \in Period
        PROVE  r.refs[u][p] = References(r, es, u, p)
    <2>1. s.refs[u][p] = References(s, ds, u, p)
      BY DEF Right, Counted
    <2>2. PICK m \in Nat, n \in Nat : /\ m = Cardinality(Starters(s, ds, u, p))
                                      /\ n = Cardinality(Slashed(s, u, p))
      BY RightFacts, DelegationSets, SlashSets
    <2>3. Cardinality(Starters(r, es, u, p)) = IF u = v /\ p = w THEN m + 1 ELSE m
      <3>1. IsFiniteSet(Starters(s, ds, u, p)) /\ d \notin Starters(s, ds, u, p)
        BY RightFacts, DelegationSets DEF Starters
      <3>2. Cardinality(Starters(s, ds, u, p) \cup {d}) = m + 1
        BY <2>2, <3>1, FS_AddElement
      <3>3. QED
        BY <1>3, <2>2, <3>2
    <2>4. PICK c \in Int : c = IF p = s.period[u] - 1 THEN 1 ELSE 0
      OBVIOUS
    <2>5. /\ s.refs[u][p] = c + m + n
          /\ References(r, es, u, p) = c + (IF u = v /\ p = w THEN m + 1 ELSE m) + n
      BY <1>1, <1>2, <2>1, <2>2, <2>3, <2>4 DEF References
    <2>6. CASE u = v /\ p = w
      BY <1>1, <2>5, <2>6
    <2>7. CASE ~(u = v /\ p = w)
      BY <1>1, <2>5, <2>7
    <2>8. QED
      BY <2>6, <2>7
  <1>5. PeriodsEnded(r, es)
    <2>1. \A u \in Validator : 1 <= r.period[u]
      BY <1>1, RightFacts
    <2>2. ASSUME NEW e \in es
          PROVE  r.start[e].period < r.period[e.validator]
      <3>1. CASE e = d
        <4>1. s.period[v] \in Int
          BY <1>0, RightFacts
        <4>2. QED
          BY <1>1, <3>1, <4>1 DEF v, w
      <3>2. CASE e # d
        <4>1. e \in ds /\ e \in Delegation
          BY <3>2, RightFacts DEF es
        <4>2. QED
          BY <1>1, <3>2, <4>1 DEF Right, PeriodsEnded
      <3>3. QED
        BY <3>1, <3>2
    <2>3. \A e \in r.slashes : e.period < r.period[e.v]
      BY <1>1 DEF Right, PeriodsEnded, Kept
    <2>4. QED
      BY <2>1, <2>2, <2>3 DEF PeriodsEnded
  <1>6. ASSUME NEW u \in Validator
        PROVE  Claimed(r, es, u) <= r.outstanding[u]
    <2>1. Claimed(s, ds, u) <= s.outstanding[u]
      BY DEF Right, Covered
    <2>2. s.owed \in [Delegation -> Nat] /\ r.owed \in [Delegation -> Nat]
      BY <1>0, <1>1, BooksFields
    <2>3. /\ Sum(s.owed, Of(ds, u)) \in Int
          /\ Sum(r.owed, Of(ds \cup {d}, u))
               = Sum(s.owed, Of(ds, u)) + (IF u = d.validator THEN r.owed[d] ELSE 0)
      <3>1. AlikeBut(d, s.owed, r.owed)
        BY <1>1, <2>2 DEF AlikeBut
      <3>2. ds \in SUBSET Delegation
        BY RightFacts
      <3>3. SumsWithout(d, s.owed, r.owed, ds, u)
        BY <3>1, <3>2, OwedWithout
      <3>4. QED
        BY <3>3 DEF SumsWithout
    <2>4. Sum(r.owed, Of(es, u)) = Sum(s.owed, Of(ds, u))
      BY <1>1, <2>3 DEF es
    <2>5. QED
      BY <1>1, <2>1, <2>4 DEF Claimed
  <1>7. Holdings(r) /\ r.pool >= 0
    BY <1>1 DEF Right, Holdings
  <1>8. StartsBefore(r, es)
    <2>1. ASSUME NEW e \in es
          PROVE  r.start[e].height <= r.height
      <3>1. CASE e = d
        <4>1. s.height \in Int
          BY <1>0, BooksFields DEF Height
        <4>2. QED
          BY <1>1, <3>1, <4>1 DEF Kept
      <3>2. CASE e # d
        <4>1. e \in ds /\ e \in Delegation
          BY <3>2, RightFacts DEF es
        <4>2. QED
          BY <1>1, <3>2, <4>1 DEF Right, StartsBefore, Kept
      <3>3. QED
        BY <3>1, <3>2
    <2>2. QED
      BY <2>1 DEF StartsBefore
  <1>9. QED
    BY <1>0, <1>1, <1>4, <1>5, <1>6, <1>7, <1>8 DEF Right, Counted, Covered, es

LEMMA PaidOutRight ==
  ASSUME NEW t, NEW ds, Right(t, ds), NEW d \in ds,
         NEW s \in Books, t.start = s.start, t.owed = s.owed,
         NEW r, r = PaidOut(s, d, t)
  PROVE  Right(r, ds \ {d})
  <1> DEFINE v == d.validator
             w == t.start[d].period
             es == ds \ {d}
  <1>0. /\ d \in Delegation /\ v \in Validator /\ t \in Books
        /\ es \in SUBSET Delegation /\ d \notin es /\ ds = es \cup {d}
    BY RightFacts
  <1>1. /\ r \in Books
        /\ Kept(r, t)
        /\ r.period = t.period /\ r.commission = t.commission /\ r.pool = t.pool
        /\ r.bank = t.bank - t.owed[d]
        /\ r.owed[d] = 0
        /\ r.outstanding[v] = t.outstanding[v] - t.owed[d]
        /\ r.refs[v][w] = t.refs[v][w] - 1
        /\ \A p \in Period : p # w => r.refs[v][p] = t.refs[v][p]
        /\ \A u \in Validator : u # v => /\ r.refs[u] = t.refs[u]
                                         /\ r.outstanding[u] = t.outstanding[u]
        /\ \A e \in Delegation : e # d => r.start[e] = t.start[e] /\ r.owed[e] = t.owed[e]
    <2>1. d \in Delegation /\ t \in Books
      BY <1>0
    <2>2. IsPaidOut(r, t, d)
      BY <2>1, PaidOutFields
    <2>3. QED
      BY <2>2 DEF IsPaidOut
  <1> HIDE DEF v, w, es
  <1>2. \A u, p : Slashed(r, u, p) = Slashed(t, u, p)
    BY <1>1 DEF Slashed, Kept
  <1>a. \A e \in es : e \in ds /\ e \in Delegation /\ e # d
    BY RightFacts DEF es
  <1>3. ASSUME NEW u \in Validator, NEW p \in Period
        PROVE  Starters(t, ds, u, p)
                 = IF u = v /\ p = w THEN Starters(r, es, u, p) \cup {d}
                                     ELSE Starters(r, es, u, p)
    <2>1. \A e \in es : r.start[e].period = t.start[e].period
      BY <1>1, <1>a
    <2>2. QED
      BY <1>0, <1>a, <2>1 DEF Starters, v, w
  <1>4. ASSUME NEW u \in Validator, NEW p \in Period
        PROVE  r.refs[u][p] = References(r, es, u, p)
    <2>1. t.refs[u][p] = References(t, ds, u, p)
      BY DEF Right, Counted
    <2>2. PICK m \in Nat, n \in Nat : /\ m = Cardinality(Starters(r, es, u, p))
                                      /\ n = Cardinality(Slashed(t, u, p))
      BY <1>0, DelegationSets, SlashSets
    <2>3. Cardinality(Starters(t, ds, u, p)) = IF u = v /\ p = w THEN m + 1 ELSE m
      <3>1. IsFiniteSet(Starters(r, es, u, p)) /\ d \notin Starters(r, es, u, p)
        BY <1>0, DelegationSets DEF Starters
      <3>2. Cardinality(Starters(r, es, u, p) \cup {d}) = m + 1
        BY <2>2, <3>1, FS_AddElement
      <3>3. QED
        BY <1>3, <2>2, <3>2
    <2>4. PICK c \in Int : c = IF p = t.period[u] - 1 THEN 1 ELSE 0
      OBVIOUS
    <2>5. /\ t.refs[u][p] = c + (IF u = v /\ p = w THEN m + 1 ELSE m) + n
          /\ References(r, es, u, p) = c + m + n
      BY <1>1, <1>2, <2>1, <2>2, <2>3, <2>4 DEF References
    <2>6. CASE u = v /\ p = w
      BY <1>1, <2>5, <2>6
    <2>7. CASE ~(u = v /\ p = w)
      BY <1>1, <2>5, <2>7
    <2>8. QED
      BY <2>6, <2>7
  <1>5. PeriodsEnded(r, es)
    <2>1. \A u \in Validator : 1 <= r.period[u]
      BY <1>1, RightFacts
    <2>2. \A e \in es : r.start[e].period < r.period[e.validator]
      BY <1>1, <1>a DEF Right, PeriodsEnded
    <2>3. \A e \in r.slashes : e.period < r.period[e.v]
      BY <1>1 DEF Right, PeriodsEnded, Kept
    <2>4. QED
      BY <2>1, <2>2, <2>3 DEF PeriodsEnded
  <1>6. /\ t.owed \in [Delegation -> Nat] /\ r.owed \in [Delegation -> Nat]
        /\ t.outstanding \in [Validator -> Int] /\ r.outstanding \in [Validator -> Int]
        /\ t.bank \in Int /\ t.pool \in Int
    BY <1>0, <1>1, BooksFields
  <1>7. ASSUME NEW u \in Validator
        PROVE  Claimed(r, es, u) <= r.outstanding[u]
    <2>1. Claimed(t, ds, u) <= t.outstanding[u]
      BY DEF Right, Covered
    <2>2. AlikeBut(d, r.owed, t.owed)
      BY <1>1, <1>6 DEF AlikeBut
    <2>3. /\ Sum(r.owed, Of(es, u)) \in Int
          /\ Sum(t.owed, Of(es \cup {d}, u))
               = Sum(r.owed, Of(es, u)) + (IF u = d.validator THEN t.owed[d] ELSE 0)
      <3>1. es \in SUBSET Delegation /\ d \in Delegation \ es /\ u \in Validator
        BY <1>0
      <3>2. SumsWithout(d, r.owed, t.owed, es, u)
        BY <2>2, <3>1, OwedWithout
      <3>3. QED
        BY <3>2 DEF SumsWithout
    <2>4. PICK m \in Int, n \in Nat : m = Sum(r.owed, Of(es, u)) /\ n = t.owed[d]
      BY <1>0, <1>6, <2>3
    <2>5. Sum(t.owed, Of(ds, u)) = m + (IF u = v THEN n ELSE 0)
      BY <1>0, <2>3, <2>4 DEF v
    <2>6. t.commission[u] \in Nat /\ t.outstanding[u] \in Int
      BY RightFacts
    <2>7. CASE u = v
      BY <1>1, <2>1, <2>4, <2>5, <2>6, <2>7 DEF Claimed
    <2>8. CASE u # v
      BY <1>1, <2>1, <2>4, <2>5, <2>6, <2>8 DEF Claimed
    <2>9. QED
      BY <2>7, <2>8
  <1>8. Holdings(r)
    <2>1. DifferAt(v, t.outstanding, r.outstanding, Validator)
      BY <1>0, <1>1, <1>6 DEF DifferAt
    <2>2. IsFiniteSet(Validator)
      BY ExportFacts
    <2>3. Sum(r.outstanding, Validator)
            = Sum(t.outstanding, Validator) - t.outstanding[v] + r.outstanding[v]
      BY <2>1, <2>2, SumUpdate
    <2>4. Sum(t.outstanding, Validator) \in Int
      <3>1. \A u \in Validator : t.outstanding[u] \in Int
        BY <1>6
      <3>2. QED
        BY <2>2, <3>1, SumStep
    <2>5. PICK m \in Int, n \in Nat, o \in Int :
            m = Sum(t.outstanding, Validator) /\ n = t.owed[d] /\ o = t.outstanding[v]
      BY <1>0, <1>6, <2>4
    <2>6. Sum(r.outstanding, Validator) = m - n
      BY <1>1, <2>3, <2>5
    <2>7. t.bank = m + t.pool
      BY <2>5 DEF Right, Holdings
    <2>8. QED
      BY <1>1, <1>6, <2>5, <2>6, <2>7 DEF Holdings
  <1>9. StartsBefore(r, es) /\ r.pool >= 0
    BY <1>1, <1>a DEF Right, StartsBefore, Kept
  <1>10. QED
    BY <1>0, <1>1, <1>4, <1>5, <1>7, <1>8, <1>9 DEF Right, Counted, Covered, es

(* What the operations change of the periods, and of the other records.    *)
OnePeriod(r, s, v) ==
  /\ Kept(r, s)
  /\ r.period[v] = s.period[v] + 1
  /\ \A u \in Validator : u # v => r.period[u] = s.period[u]

LEMMA WithdrawRight ==
  ASSUME NEW s, NEW ds, Right(s, ds), NEW d \in ds,
         s.period[d.validator] < MaxPeriod,
         NEW r, r = WithdrawDelegation(s, d)
  PROVE  Right(r, ds \ {d}) /\ OnePeriod(r, s, d.validator)
  <1> DEFINE v == d.validator
             t == IncrementPeriod(s, v)
  <1>0. v \in Validator /\ s \in Books /\ d \in Delegation /\ 1 <= s.period[v]
    BY RightFacts
  <1>1. Right(t, ds)
    BY <1>0, IncrementRight
  <1>2. /\ t \in Books /\ t.start = s.start /\ t.owed = s.owed /\ Kept(t, s)
        /\ t.period[v] = s.period[v] + 1
        /\ \A u \in Validator : u # v => t.period[u] = s.period[u]
    BY <1>0, IncrementFields
  <1>3. r = PaidOut(s, d, t)
    BY WithdrawIsPaidOut
  <1> HIDE DEF t
  <1>4. Right(r, ds \ {d})
    BY <1>0, <1>1, <1>2, <1>3, PaidOutRight
  <1>5. Kept(r, t) /\ r.period = t.period
    <2>1. IsPaidOut(r, t, d)
      BY <1>0, <1>2, <1>3, PaidOutFields
    <2>2. QED
      BY <2>1 DEF IsPaidOut
  <1>6. QED
    BY <1>2, <1>4, <1>5 DEF OnePeriod, Kept

-----------------------------------------------------------------------------
(* The loops of an export.                                                 *)

(* The steps of the three loops.                                           *)
Withdrawn(t, d, refused) ==
  IF d \in refused.rewards THEN IncrementPeriod(t, d.validator)
  ELSE InitializeDelegation(WithdrawDelegation(t, d), d)

Recreated(t, v) == AfterValidatorCreated([t EXCEPT !.pool = @ + t.outstanding[v]], v)

(* What every step hands on holds after the loop.                          *)
LEMMA WithdrawRewardsFold ==
  ASSUME NEW T, NEW s \in T, IsFiniteSet(s.del), NEW Inv, NEW refused,
         <<{}, s>> \in Inv,
         \A B \in SUBSET s.del : \A d \in B : \A t \in T :
           <<B \ {d}, t>> \in Inv =>
             Withdrawn(t, d, refused) \in T /\ <<B, Withdrawn(t, d, refused)>> \in Inv
  PROVE  WithdrawRewards(s, refused) \in T /\ <<s.del, WithdrawRewards(s, refused)>> \in Inv
  <1> DEFINE g == [d \in s.del |-> [t \in T |-> Withdrawn(t, d, refused)]]
  <1>1. \A d \in s.del : \A t \in T : g[d][t] = Withdrawn(t, d, refused)
    OBVIOUS
  <1> HIDE DEF g
  <1> DEFINE Step(f, B) == IF B = {} THEN s ELSE Withdrawn(f[B \ {AnyOf(B)}], AnyOf(B), refused)
             IsIt(f) == f = [B \in SUBSET s.del |-> Step(f, B)]
             it == CHOOSE f : IsIt(f)
  <1>2. \A B \in SUBSET s.del : \A d \in B : \A t \in T :
          <<B \ {d}, t>> \in Inv => g[d][t] \in T /\ <<B, g[d][t]>> \in Inv
    BY <1>1
  <1>3. PICK f : Computes(f, s.del, T, s, g)
    BY <1>2, FoldExists
  <1>4. /\ f = [B \in SUBSET s.del |-> f[B]]
        /\ f[{}] = s
        /\ \A B \in SUBSET s.del :
             /\ f[B] \in T
             /\ B # {} => f[B] = g[AnyOf(B)][f[B \ {AnyOf(B)}]]
    BY <1>3 DEF Computes
  <1>5. ASSUME NEW B \in SUBSET s.del
        PROVE  f[B] = Step(f, B)
    <2>1. CASE B # {}
      <3>1. AnyOf(B) \in B
        BY <2>1, AnyOfIn
      <3>2. QED
        BY <1>1, <1>4, <2>1, <3>1
    <2>2. QED
      BY <1>4, <2>1
  <1>6. IsIt(f)
    BY <1>4, <1>5
  <1>7. WithdrawRewards(s, refused) = it[s.del]
    BY DEF WithdrawRewards, FoldSet, MapThenFoldSet, AnyOf, Withdrawn
  <1>8. IsIt(it)
    <2> HIDE DEF IsIt
    <2>1. QED
      BY <1>6
  <1> HIDE DEF it
  <1>9. \A B \in SUBSET s.del : it[B] = Step(it, B)
    BY <1>8
  <1>10. ASSUME NEW B \in SUBSET s.del, B # {}
         PROVE  \E d \in B :
                  it[B \ {d}] \in T /\ <<B \ {d}, it[B \ {d}]>> \in Inv
                    => it[B] \in T /\ <<B, it[B]>> \in Inv
    <2>1. AnyOf(B) \in B
      BY <1>10, AnyOfIn
    <2>2. it[B] = Withdrawn(it[B \ {AnyOf(B)}], AnyOf(B), refused)
      BY <1>9, <1>10
    <2>3. ASSUME it[B \ {AnyOf(B)}] \in T, <<B \ {AnyOf(B)}, it[B \ {AnyOf(B)}]>> \in Inv
          PROVE  it[B] \in T /\ <<B, it[B]>> \in Inv
      BY <2>1, <2>2, <2>3
    <2>4. QED
      BY ONLY <2>1, <2>3
  <1>11. \A B \in SUBSET s.del : it[B] \in T /\ <<B, it[B]>> \in Inv
    <2>1. it[{}] \in T /\ <<{}, it[{}]>> \in Inv
      BY <1>9
    <2>2. QED
      BY <1>10, <2>1, FoldInduction
  <1>12. QED
    BY <1>7, <1>11

LEMMA RecreateValidatorsFold ==
  ASSUME IsFiniteSet(Validator), NEW T, NEW s \in T, NEW Inv,
         <<{}, s>> \in Inv,
         \A B \in SUBSET Validator : \A v \in B : \A t \in T :
           <<B \ {v}, t>> \in Inv =>
             Recreated(t, v) \in T /\ <<B, Recreated(t, v)>> \in Inv
  PROVE  RecreateValidators(s) \in T /\ <<Validator, RecreateValidators(s)>> \in Inv
  <1> DEFINE g == [v \in Validator |-> [t \in T |-> Recreated(t, v)]]
  <1>1. \A v \in Validator : \A t \in T : g[v][t] = Recreated(t, v)
    OBVIOUS
  <1> HIDE DEF g
  <1> DEFINE Step(f, B) == IF B = {} THEN s ELSE Recreated(f[B \ {AnyOf(B)}], AnyOf(B))
             IsIt(f) == f = [B \in SUBSET Validator |-> Step(f, B)]
             it == CHOOSE f : IsIt(f)
  <1>2. \A B \in SUBSET Validator : \A v \in B : \A t \in T :
          <<B \ {v}, t>> \in Inv => g[v][t] \in T /\ <<B, g[v][t]>> \in Inv
    BY <1>1
  <1>3. PICK f : Computes(f, Validator, T, s, g)
    BY <1>2, FoldExists
  <1>4. /\ f = [B \in SUBSET Validator |-> f[B]]
        /\ f[{}] = s
        /\ \A B \in SUBSET Validator :
             /\ f[B] \in T
             /\ B # {} => f[B] = g[AnyOf(B)][f[B \ {AnyOf(B)}]]
    BY <1>3 DEF Computes
  <1>5. ASSUME NEW B \in SUBSET Validator
        PROVE  f[B] = Step(f, B)
    <2>1. CASE B # {}
      <3>1. AnyOf(B) \in B
        BY <2>1, AnyOfIn
      <3>2. QED
        BY <1>1, <1>4, <2>1, <3>1
    <2>2. QED
      BY <1>4, <2>1
  <1>6. IsIt(f)
    BY <1>4, <1>5
  <1>7. RecreateValidators(s) = it[Validator]
    BY DEF RecreateValidators, FoldSet, MapThenFoldSet, AnyOf, Recreated
  <1>8. IsIt(it)
    <2> HIDE DEF IsIt
    <2>1. QED
      BY <1>6
  <1> HIDE DEF it
  <1>9. \A B \in SUBSET Validator : it[B] = Step(it, B)
    BY <1>8
  <1>10. ASSUME NEW B \in SUBSET Validator, B # {}
         PROVE  \E v \in B :
                  it[B \ {v}] \in T /\ <<B \ {v}, it[B \ {v}]>> \in Inv
                    => it[B] \in T /\ <<B, it[B]>> \in Inv
    <2>1. AnyOf(B) \in B
      BY <1>10, AnyOfIn
    <2>2. it[B] = Recreated(it[B \ {AnyOf(B)}], AnyOf(B))
      BY <1>9, <1>10
    <2>3. ASSUME it[B \ {AnyOf(B)}] \in T, <<B \ {AnyOf(B)}, it[B \ {AnyOf(B)}]>> \in Inv
          PROVE  it[B] \in T /\ <<B, it[B]>> \in Inv
      BY <2>1, <2>2, <2>3
    <2>4. QED
      BY ONLY <2>1, <2>3
  <1>11. \A B \in SUBSET Validator : it[B] \in T /\ <<B, it[B]>> \in Inv
    <2>1. it[{}] \in T /\ <<{}, it[{}]>> \in Inv
      BY <1>9
    <2>2. QED
      BY <1>10, <2>1, FoldInduction
  <1>12. QED
    BY <1>7, <1>11

LEMMA RecreateDelegationsFold ==
  ASSUME NEW T, NEW s \in T, IsFiniteSet(s.del), NEW Inv,
         <<{}, s>> \in Inv,
         \A B \in SUBSET s.del : \A d \in B : \A t \in T :
           <<B \ {d}, t>> \in Inv =>
             CreateDelegation(t, d) \in T /\ <<B, CreateDelegation(t, d)>> \in Inv
  PROVE  RecreateDelegations(s) \in T /\ <<s.del, RecreateDelegations(s)>> \in Inv
  <1> DEFINE g == [d \in s.del |-> [t \in T |-> CreateDelegation(t, d)]]
  <1>1. \A d \in s.del : \A t \in T : g[d][t] = CreateDelegation(t, d)
    OBVIOUS
  <1> HIDE DEF g
  <1> DEFINE Step(f, B) == IF B = {} THEN s ELSE CreateDelegation(f[B \ {AnyOf(B)}], AnyOf(B))
             IsIt(f) == f = [B \in SUBSET s.del |-> Step(f, B)]
             it == CHOOSE f : IsIt(f)
  <1>2. \A B \in SUBSET s.del : \A d \in B : \A t \in T :
          <<B \ {d}, t>> \in Inv => g[d][t] \in T /\ <<B, g[d][t]>> \in Inv
    BY <1>1
  <1>3. PICK f : Computes(f, s.del, T, s, g)
    BY <1>2, FoldExists
  <1>4. /\ f = [B \in SUBSET s.del |-> f[B]]
        /\ f[{}] = s
        /\ \A B \in SUBSET s.del :
             /\ f[B] \in T
             /\ B # {} => f[B] = g[AnyOf(B)][f[B \ {AnyOf(B)}]]
    BY <1>3 DEF Computes
  <1>5. ASSUME NEW B \in SUBSET s.del
        PROVE  f[B] = Step(f, B)
    <2>1. CASE B # {}
      <3>1. AnyOf(B) \in B
        BY <2>1, AnyOfIn
      <3>2. QED
        BY <1>1, <1>4, <2>1, <3>1
    <2>2. QED
      BY <1>4, <2>1
  <1>6. IsIt(f)
    BY <1>4, <1>5
  <1>7. RecreateDelegations(s) = it[s.del]
    BY DEF RecreateDelegations, FoldSet, MapThenFoldSet, AnyOf
  <1>8. IsIt(it)
    <2> HIDE DEF IsIt
    <2>1. QED
      BY <1>6
  <1> HIDE DEF it
  <1>9. \A B \in SUBSET s.del : it[B] = Step(it, B)
    BY <1>8
  <1>10. ASSUME NEW B \in SUBSET s.del, B # {}
         PROVE  \E d \in B :
                  it[B \ {d}] \in T /\ <<B \ {d}, it[B \ {d}]>> \in Inv
                    => it[B] \in T /\ <<B, it[B]>> \in Inv
    <2>1. AnyOf(B) \in B
      BY <1>10, AnyOfIn
    <2>2. QED
      BY <1>9, <1>10, <2>1
  <1>11. \A B \in SUBSET s.del : it[B] \in T /\ <<B, it[B]>> \in Inv
    <2>1. it[{}] \in T /\ <<{}, it[{}]>> \in Inv
      BY <1>9
    <2>2. QED
      BY <1>10, <2>1, FoldInduction
  <1>12. QED
    BY <1>7, <1>11

(* A delegation more is one more of its validator.                         *)
LEMMA OfStep ==
  ASSUME NEW B \in SUBSET Delegation, NEW d \in B, NEW u
  PROVE  /\ Cardinality(Of(B, u)) \in Nat /\ Cardinality(Of(B \ {d}, u)) \in Nat
         /\ Cardinality(Of(B, u))
              = Cardinality(Of(B \ {d}, u)) + (IF u = d.validator THEN 1 ELSE 0)
  <1>1. B \ {d} \in SUBSET Delegation
    OBVIOUS
  <1>2. /\ IsFiniteSet(Of(B \ {d}, u)) /\ Cardinality(Of(B \ {d}, u)) \in Nat
        /\ Cardinality(Of(B, u)) \in Nat
    BY <1>1, DelegationSets
  <1>3. CASE u = d.validator
    <2>1. Of(B, u) = Of(B \ {d}, u) \cup {d} /\ d \notin Of(B \ {d}, u)
      BY <1>3 DEF Of
    <2>2. QED
      BY <1>2, <1>3, <2>1, FS_AddElement
  <1>4. CASE u # d.validator
    <2>1. Of(B, u) = Of(B \ {d}, u)
      BY <1>4 DEF Of
    <2>2. QED
      BY <1>2, <1>4, <2>1
  <1>5. QED
    BY <1>3, <1>4

LEMMA OfSubset ==
  ASSUME NEW C \in SUBSET Delegation, NEW B \in SUBSET C, NEW u
  PROVE  /\ Cardinality(Of(B, u)) <= Cardinality(Of(C, u))
         /\ Cardinality(Of(C, u)) \in Nat /\ Cardinality(Of(B, u)) \in Nat
  <1>1. B \in SUBSET Delegation
    OBVIOUS
  <1>2. Of(B, u) \subseteq Of(C, u)
    BY DEF Of
  <1>3. QED
    BY <1>1, <1>2, DelegationSets, FS_Subset

(* Of the loop over the validators.                                        *)
LEMMA CommissionsRight ==
  ASSUME NEW s, NEW ds, Right(s, ds), NEW refused,
         NEW r, r = WithdrawCommissions(s, refused)
  PROVE  Right(r, ds) /\ Kept(r, s) /\ r.period = s.period
  <1> DEFINE paid == [v \in Validator |->
                        IF v \in refused.commission THEN 0 ELSE s.commission[v]]
             outstanding == [v \in Validator |-> s.outstanding[v] - paid[v]]
             commission == [v \in Validator |-> s.commission[v] - paid[v]]
  <1>0. s \in Books
    BY RightFacts
  <1>1. /\ s.outstanding \in [Validator -> Int] /\ s.commission \in [Validator -> Nat]
        /\ s.bank \in Int /\ s.pool \in Int
    BY <1>0, BooksFields
  <1>2. /\ paid \in [Validator -> Nat]
        /\ \A v \in Validator : paid[v] <= s.commission[v]
    BY <1>1
  <1>3. r = [s EXCEPT !.outstanding = outstanding, !.commission = commission,
                      !.bank = s.bank - Sum(paid, Validator)]
    BY <1>0 DEF WithdrawCommissions, SumFunction, Sum, Books
  <1> HIDE DEF paid
  <1>4. /\ outstanding \in [Validator -> Int] /\ commission \in [Validator -> Nat]
        /\ \A v \in Validator : /\ outstanding[v] = s.outstanding[v] - paid[v]
                                /\ commission[v] = s.commission[v] - paid[v]
    BY <1>1, <1>2
  <1> HIDE DEF outstanding, commission
  <1>5. Sum(paid, Validator) \in Int
    <2>1. \A v \in Validator : paid[v] \in Nat
      BY <1>2
    <2>2. QED
      BY <2>1, SumNat, ExportFacts
  <1>6. PICK m \in Int : m = s.bank - Sum(paid, Validator)
    BY <1>1, <1>5
  <1>7. /\ r \in Books
        /\ r.outstanding = outstanding /\ r.commission = commission /\ r.bank = m
    BY ONLY <1>0, <1>3, <1>4, <1>6 DEF Books
  <1>8. /\ Kept(r, s) /\ r.period = s.period /\ r.refs = s.refs
        /\ r.start = s.start /\ r.owed = s.owed /\ r.pool = s.pool
    BY <1>0, <1>3 DEF Books, Kept
  <1>9. Counted(r, ds)
    BY <1>8 DEF Right, Counted, References, Starters, Slashed, Kept
  <1>10. PeriodsEnded(r, ds) /\ StartsBefore(r, ds)
    BY <1>8 DEF Right, PeriodsEnded, StartsBefore, Kept
  <1>11. ASSUME NEW v \in Validator
         PROVE  Claimed(r, ds, v) <= r.outstanding[v]
    <2>1. Claimed(s, ds, v) <= s.outstanding[v]
      BY DEF Right, Covered
    <2>2. Sum(s.owed, Of(ds, v)) \in Int
      <3>1. \A d \in Of(ds, v) : s.owed[d] \in Nat
        BY RightFacts DEF Of
      <3>2. IsFiniteSet(Of(ds, v))
        BY RightFacts, DelegationSets
      <3>3. QED
        BY <3>1, <3>2, SumNat
    <2>3. PICK c \in Int, o \in Int, p \in Int, n \in Int :
            /\ c = s.commission[v] /\ o = s.outstanding[v] /\ p = paid[v]
            /\ n = Sum(s.owed, Of(ds, v))
      BY <1>1, <1>2, <2>2
    <2>4. c + n <= o
      BY <2>1, <2>3 DEF Claimed
    <2>5. Claimed(r, ds, v) = (c - p) + n /\ r.outstanding[v] = o - p
      BY <1>4, <1>7, <1>8, <2>3 DEF Claimed
    <2>6. QED
      BY <2>4, <2>5
  <1>12. Holdings(r)
    <2>1. Difference(outstanding, s.outstanding, paid, Validator)
      BY <1>1, <1>2, <1>4 DEF Difference
    <2>2. Sum(outstanding, Validator) = Sum(s.outstanding, Validator) - Sum(paid, Validator)
      BY <2>1, SumDifference, ExportFacts
    <2>3. Sum(s.outstanding, Validator) \in Int
      <3>1. \A v \in Validator : s.outstanding[v] \in Int
        BY <1>1
      <3>2. QED
        BY <3>1, SumStep, ExportFacts
    <2>4. s.bank = Sum(s.outstanding, Validator) + s.pool
      BY DEF Right, Holdings
    <2>5. PICK a \in Int, b \in Int :
            a = Sum(s.outstanding, Validator) /\ b = Sum(paid, Validator)
      BY <1>5, <2>3
    <2>6. QED
      BY <1>1, <1>6, <1>7, <1>8, <2>2, <2>4, <2>5 DEF Holdings
  <1>13. QED
    BY <1>7, <1>8, <1>9, <1>10, <1>11, <1>12 DEF Right, Covered

(* A step of the loop over the delegations, whether or not the bank pays.  *)
LEMMA WithdrawnRight ==
  ASSUME NEW s, NEW ds, Right(s, ds), NEW d \in ds, NEW refused,
         s.period[d.validator] < MaxPeriod,
         NEW r, r = Withdrawn(s, d, refused)
  PROVE  Right(r, ds) /\ OnePeriod(r, s, d.validator)
  <1> DEFINE v == d.validator
  <1>0. v \in Validator /\ s \in Books /\ d \in Delegation /\ 1 <= s.period[v]
    BY RightFacts
  <1>1. CASE d \in refused.rewards
    <2>1. r = IncrementPeriod(s, v)
      BY <1>1 DEF Withdrawn
    <2>2. Right(r, ds)
      BY <1>0, <2>1, IncrementRight
    <2>3. /\ Kept(r, s) /\ r.period[v] = s.period[v] + 1
          /\ \A u \in Validator : u # v => r.period[u] = s.period[u]
      BY <1>0, <2>1, IncrementFields
    <2>4. QED
      BY <2>2, <2>3 DEF OnePeriod
  <1>2. CASE d \notin refused.rewards
    <2> DEFINE t == WithdrawDelegation(s, d)
    <2>1. r = InitializeDelegation(t, d)
      BY <1>2 DEF Withdrawn
    <2>2. Right(t, ds \ {d}) /\ OnePeriod(t, s, v)
      BY WithdrawRight
    <2> HIDE DEF t
    <2>3. d \in Delegation \ (ds \ {d}) /\ (ds \ {d}) \cup {d} = ds
      BY <1>0
    <2>4. Right(r, (ds \ {d}) \cup {d})
      BY <2>1, <2>2, <2>3, InitializeRight
    <2>5. t \in Books /\ 1 <= t.period[v]
      BY <1>0, <2>2, RightFacts
    <2>6. IsInitialized(r, t, d)
      BY ONLY <1>0, <2>1, <2>5, InitializeFields
    <2>7. Kept(r, t) /\ r.period = t.period
      BY <2>6 DEF IsInitialized
    <2>8. Kept(r, s)
      BY <2>2, <2>7 DEF OnePeriod, Kept
    <2>9. OnePeriod(r, s, v)
      BY ONLY <2>2, <2>7, <2>8 DEF OnePeriod
    <2>10. QED
      BY <2>3, <2>4, <2>9
  <1>3. QED
    BY <1>1, <1>2

LEMMA CreateRight ==
  ASSUME NEW s, NEW ds, Right(s, ds), NEW d \in Delegation \ ds,
         s.period[d.validator] < MaxPeriod,
         NEW r, r = CreateDelegation(s, d)
  PROVE  Right(r, ds \cup {d}) /\ OnePeriod(r, s, d.validator)
  <1> DEFINE v == d.validator
             t == IncrementPeriod(s, v)
  <1>0. v \in Validator /\ s \in Books /\ 1 <= s.period[v]
    BY RightFacts, ExportFacts
  <1>1. r = InitializeDelegation(t, d)
    BY DEF CreateDelegation
  <1>2. Right(t, ds)
    BY <1>0, IncrementRight
  <1>3. /\ Kept(t, s) /\ t.period[v] = s.period[v] + 1
        /\ \A u \in Validator : u # v => t.period[u] = s.period[u]
    BY <1>0, IncrementFields
  <1> HIDE DEF t
  <1>4. Right(r, ds \cup {d})
    BY <1>1, <1>2, InitializeRight
  <1>5. t \in Books /\ 1 <= t.period[v]
    BY <1>0, <1>2, RightFacts
  <1>6. IsInitialized(r, t, d)
    BY <1>1, <1>5, InitializeFields
  <1>7. QED
    BY <1>3, <1>4, <1>6 DEF OnePeriod, Kept, IsInitialized

(* Enough periods are left for each delegation to end one.                 *)
Room(s) ==
  \A v \in Validator : s.period[v] + Cardinality(Of(s.del, v)) <= MaxPeriod

(* One period more for each delegation in B.                               *)
Advanced(t, s, B) ==
  /\ Kept(t, s)
  /\ \A v \in Validator : t.period[v] = s.period[v] + Cardinality(Of(B, v))

LEMMA AdvancedNone ==
  ASSUME NEW s \in Books
  PROVE  Advanced(s, s, {})
  <1>1. \A v \in Validator : s.period[v] \in Int
    BY BooksFields DEF Period
  <1>2. \A v : Of({}, v) = {}
    BY DEF Of
  <1>3. QED
    BY <1>1, <1>2, FS_EmptySet DEF Advanced, Kept

LEMMA AdvancedStep ==
  ASSUME NEW s \in Books, NEW B \in SUBSET Delegation, NEW d \in B,
         NEW t, Advanced(t, s, B \ {d}), NEW r, OnePeriod(r, t, d.validator)
  PROVE  Advanced(r, s, B)
  <1>1. Kept(r, s)
    BY DEF Advanced, OnePeriod, Kept
  <1>2. ASSUME NEW v \in Validator
        PROVE  r.period[v] = s.period[v] + Cardinality(Of(B, v))
    <2>1. /\ Cardinality(Of(B \ {d}, v)) \in Nat
          /\ Cardinality(Of(B, v))
               = Cardinality(Of(B \ {d}, v)) + (IF v = d.validator THEN 1 ELSE 0)
      BY OfStep
    <2>2. s.period[v] \in Int
      BY BooksFields DEF Period
    <2>3. PICK m \in Int, p \in Int : m = Cardinality(Of(B \ {d}, v)) /\ p = s.period[v]
      BY <2>1, <2>2
    <2>4. t.period[v] = p + m
      BY <2>3 DEF Advanced
    <2>5. CASE v = d.validator
      <3>1. r.period[v] = (p + m) + 1
        BY <2>4, <2>5 DEF OnePeriod
      <3>2. Cardinality(Of(B, v)) = m + 1
        BY <2>1, <2>3, <2>5
      <3>3. QED
        BY <2>3, <3>1, <3>2
    <2>6. CASE v # d.validator
      <3>1. r.period[v] = p + m
        BY <2>4, <2>6 DEF OnePeriod
      <3>2. Cardinality(Of(B, v)) = m
        BY <2>1, <2>3, <2>6
      <3>3. QED
        BY <2>3, <3>1, <3>2
    <2>7. QED
      BY <2>5, <2>6
  <1>3. QED
    BY <1>1, <1>2 DEF Advanced

(* A period is left for the next delegation of the loop.                   *)
LEMMA RoomForNext ==
  ASSUME NEW s \in Books, Room(s), NEW B \in SUBSET s.del, NEW d \in B,
         NEW t, Advanced(t, s, B \ {d})
  PROVE  t.period[d.validator] < MaxPeriod
  <1> DEFINE v == d.validator
  <1>0. s.del \in SUBSET Delegation /\ B \in SUBSET Delegation /\ v \in Validator
    BY BooksFields, ExportFacts
  <1>1. Cardinality(Of(B, v)) <= Cardinality(Of(s.del, v)) /\ Cardinality(Of(s.del, v)) \in Nat
    BY <1>0, OfSubset
  <1>2. Cardinality(Of(B, v)) = Cardinality(Of(B \ {d}, v)) + 1 /\ Cardinality(Of(B \ {d}, v)) \in Nat
    BY <1>0, OfStep
  <1>3. s.period[v] \in Int /\ MaxPeriod \in Int
    BY <1>0, BooksFields, ExportFacts DEF Period
  <1>4. PICK m \in Int, n \in Int, p \in Int :
          /\ m = Cardinality(Of(B \ {d}, v)) /\ n = Cardinality(Of(s.del, v))
          /\ p = s.period[v]
    BY <1>1, <1>2, <1>3
  <1>5. m + 1 <= n /\ p + n <= MaxPeriod
    BY <1>0, <1>1, <1>2, <1>4 DEF Room
  <1>6. t.period[v] = p + m
    BY <1>0, <1>4 DEF Advanced
  <1>7. QED
    BY <1>3, <1>5, <1>6

(* After the loop the books are right, whoever has been refused.           *)
LEMMA WithdrawRewardsRight ==
  ASSUME NEW s, Right(s, s.del), Room(s), NEW refused
  PROVE  /\ Right(WithdrawRewards(s, refused), s.del)
         /\ Kept(WithdrawRewards(s, refused), s)
  <1> DEFINE Inv == {x \in (SUBSET s.del) \X Books : Right(x[2], s.del) /\ Advanced(x[2], s, x[1])}
  <1>0. s \in Books /\ s.del \in SUBSET Delegation /\ IsFiniteSet(s.del)
    BY RightFacts, DelegationSets
  <1>1. <<{}, s>> \in Inv
    BY <1>0, AdvancedNone
  <1>2. ASSUME NEW B \in SUBSET s.del, NEW d \in B, NEW t \in Books, <<B \ {d}, t>> \in Inv
        PROVE  Withdrawn(t, d, refused) \in Books /\ <<B, Withdrawn(t, d, refused)>> \in Inv
    <2>1. Right(t, s.del) /\ Advanced(t, s, B \ {d})
      BY <1>2
    <2>2. t.period[d.validator] < MaxPeriod
      BY <1>0, <2>1, RoomForNext
    <2> DEFINE r == Withdrawn(t, d, refused)
    <2>3. Right(r, s.del) /\ OnePeriod(r, t, d.validator)
      BY <2>1, <2>2, WithdrawnRight
    <2> HIDE DEF r
    <2>4. Advanced(r, s, B)
      BY <1>0, <2>1, <2>3, AdvancedStep
    <2>5. r \in Books
      BY <2>3, RightFacts
    <2>6. <<B, r>> \in Inv
      BY <2>3, <2>4, <2>5
    <2>7. QED
      BY <2>5, <2>6 DEF r
  <1> DEFINE r == WithdrawRewards(s, refused)
  <1>3. <<s.del, r>> \in Inv
    <2> HIDE DEF Inv, r
    <2>1. QED
      BY <1>0, <1>1, <1>2, WithdrawRewardsFold DEF r
  <1> HIDE DEF r
  <1>4. Right(r, s.del) /\ Advanced(r, s, s.del)
    BY <1>3
  <1>5. QED
    BY <1>4 DEF Advanced, r

LEMMA RecreateDelegationsRight ==
  ASSUME NEW s, Right(s, {}), Room(s)
  PROVE  /\ Right(RecreateDelegations(s), s.del)
         /\ Advanced(RecreateDelegations(s), s, s.del)
  <1> DEFINE Inv == {x \in (SUBSET s.del) \X Books : Right(x[2], x[1]) /\ Advanced(x[2], s, x[1])}
  <1>0. s \in Books /\ s.del \in SUBSET Delegation /\ IsFiniteSet(s.del)
    BY RightFacts, BooksFields, DelegationSets
  <1>1. <<{}, s>> \in Inv
    BY <1>0, AdvancedNone
  <1>2. ASSUME NEW B \in SUBSET s.del, NEW d \in B, NEW t \in Books, <<B \ {d}, t>> \in Inv
        PROVE  CreateDelegation(t, d) \in Books /\ <<B, CreateDelegation(t, d)>> \in Inv
    <2>1. Right(t, B \ {d}) /\ Advanced(t, s, B \ {d})
      BY <1>2
    <2>2. t.period[d.validator] < MaxPeriod
      BY <1>0, <2>1, RoomForNext
    <2> DEFINE r == CreateDelegation(t, d)
    <2>a. d \in Delegation \ (B \ {d}) /\ (B \ {d}) \cup {d} = B
      BY <1>0
    <2>3. Right(r, (B \ {d}) \cup {d}) /\ OnePeriod(r, t, d.validator)
      BY <2>1, <2>2, <2>a, CreateRight
    <2> HIDE DEF r
    <2>4. Advanced(r, s, B)
      BY <1>0, <2>1, <2>3, AdvancedStep
    <2>5. r \in Books
      BY <2>3, RightFacts
    <2>6. <<B, r>> \in Inv
      BY <2>3, <2>4, <2>5, <2>a
    <2>7. QED
      BY <2>5, <2>6 DEF r
  <1> DEFINE r == RecreateDelegations(s)
  <1>3. <<s.del, r>> \in Inv
    <2> HIDE DEF Inv, r
    <2>1. QED
      BY <1>0, <1>1, <1>2, RecreateDelegationsFold DEF r
  <1> HIDE DEF r
  <1>4. QED
    BY <1>3 DEF r

IsRecreated(r, t, v) ==
  /\ r \in Books
  /\ Kept(r, t)
  /\ r.bank = t.bank
  /\ r.pool = t.pool + t.outstanding[v]
  /\ r.period[v] = 1 /\ r.commission[v] = 0 /\ r.outstanding[v] = 0
  /\ \A p \in Period : r.refs[v][p] = IF p = 0 THEN 1 ELSE t.refs[v][p]
  /\ \A u \in Validator : u # v => /\ r.period[u] = t.period[u]
                                   /\ r.commission[u] = t.commission[u]
                                   /\ r.outstanding[u] = t.outstanding[u]
                                   /\ r.refs[u] = t.refs[u]

LEMMA RecreatedFields ==
  ASSUME NEW t \in Books, NEW v \in Validator
  PROVE  IsRecreated(Recreated(t, v), t, v)
  <1> DEFINE r == Recreated(t, v)
             refs == [p \in Period |-> IF p = 0 THEN 1 ELSE t.refs[v][p]]
             m == t.pool + t.outstanding[v]
  <1>1. /\ t.refs \in [Validator -> [Period -> Int]] /\ t.period \in [Validator -> Period]
        /\ t.commission \in [Validator -> Nat] /\ t.outstanding \in [Validator -> Int]
        /\ t.pool \in Int
    BY BooksFields
  <1>2. 1 \in Period
    <2>1. Cardinality(Of(Delegation, v)) \in Nat
      BY DelegationSets
    <2>2. QED
      BY <2>1, ExportFacts DEF Period
  <1>3. /\ refs \in [Period -> Int]
        /\ \A p \in Period : refs[p] = IF p = 0 THEN 1 ELSE t.refs[v][p]
    BY <1>1
  <1>4. r = [t EXCEPT !.pool = m,
                      !.refs = [t.refs EXCEPT ![v] = refs],
                      !.period = [t.period EXCEPT ![v] = 1],
                      !.commission = [t.commission EXCEPT ![v] = 0],
                      !.outstanding = [t.outstanding EXCEPT ![v] = 0]]
    BY <1>1 DEF Recreated, AfterValidatorCreated, Books, Period
  <1>5. m \in Int
    BY <1>1
  <1> HIDE DEF refs, r, m
  <1>6. PICK a \in [Validator -> [Period -> Int]], b \in [Validator -> Period],
             c \in [Validator -> Nat], o \in [Validator -> Int] :
          /\ a = [t.refs EXCEPT ![v] = refs] /\ b = [t.period EXCEPT ![v] = 1]
          /\ c = [t.commission EXCEPT ![v] = 0] /\ o = [t.outstanding EXCEPT ![v] = 0]
    <2>1. [t.refs EXCEPT ![v] = refs] \in [Validator -> [Period -> Int]]
      BY <1>1, <1>3
    <2>2. [t.period EXCEPT ![v] = 1] \in [Validator -> Period]
      BY <1>1, <1>2
    <2>3. /\ [t.commission EXCEPT ![v] = 0] \in [Validator -> Nat]
          /\ [t.outstanding EXCEPT ![v] = 0] \in [Validator -> Int]
      BY <1>1
    <2>4. QED
      BY <2>1, <2>2, <2>3
  <1>7. r = [t EXCEPT !.pool = m, !.refs = a, !.period = b, !.commission = c, !.outstanding = o]
    BY <1>4, <1>6
  <1>8. r \in Books
    <2> DEFINE q == [t EXCEPT !.pool = m, !.refs = a]
    <2>1. q \in Books
      BY <1>5 DEF Books
    <2>2. r = [q EXCEPT !.period = b, !.commission = c, !.outstanding = o]
      BY <1>7
    <2> HIDE DEF q
    <2>3. QED
      BY <2>1, <2>2 DEF Books
  <1>9. /\ Kept(r, t) /\ r.bank = t.bank
        /\ r.pool = m /\ r.refs = a /\ r.period = b /\ r.commission = c /\ r.outstanding = o
    BY <1>7 DEF Books, Kept
  <1>10. QED
    BY <1>1, <1>3, <1>6, <1>8, <1>9 DEF IsRecreated, m, r

(* The books when only B has been created anew.                            *)
Renewed(t, z, B) ==
  /\ Kept(t, z)
  /\ t.slashes = {}
  /\ Holdings(t) /\ t.pool >= 0
  /\ \A v \in B : t.period[v] = 1 /\ t.commission[v] = 0 /\ t.outstanding[v] = 0
  /\ \A v \in B : \A p \in Period : t.refs[v][p] = IF p = 0 THEN 1 ELSE 0
  /\ \A v \in Validator \ B : /\ t.outstanding[v] >= 0
                              /\ \A p \in Period : t.refs[v][p] = 0

LEMMA RenewedStep ==
  ASSUME NEW z, NEW B \in SUBSET Validator, NEW v \in B,
         NEW t \in Books, Renewed(t, z, B \ {v}), NEW r, IsRecreated(r, t, v)
  PROVE  Renewed(r, z, B)
  <1>0. v \in Validator /\ r \in Books
    BY DEF IsRecreated
  <1>1. Kept(r, z) /\ r.slashes = {}
    BY DEF Renewed, IsRecreated, Kept
  <1>2. /\ t.outstanding \in [Validator -> Int] /\ t.pool \in Int /\ t.bank \in Int
        /\ r.outstanding \in [Validator -> Int] /\ t.outstanding[v] >= 0
    BY <1>0, BooksFields DEF Renewed
  <1>3. r.pool >= 0
    BY <1>0, <1>2 DEF Renewed, IsRecreated
  <1>4. Holdings(r)
    <2>1. DifferAt(v, t.outstanding, r.outstanding, Validator)
      BY <1>0, <1>2 DEF DifferAt, IsRecreated
    <2>2. Sum(r.outstanding, Validator)
            = Sum(t.outstanding, Validator) - t.outstanding[v] + r.outstanding[v]
      BY <2>1, SumUpdate, ExportFacts
    <2>3. Sum(t.outstanding, Validator) \in Int
      <3>1. \A u \in Validator : t.outstanding[u] \in Int
        BY <1>2
      <3>2. QED
        BY <3>1, SumStep, ExportFacts
    <2>4. PICK m \in Int, o \in Int : m = Sum(t.outstanding, Validator) /\ o = t.outstanding[v]
      BY <1>0, <1>2, <2>3
    <2>5. Sum(r.outstanding, Validator) = m - o
      BY <2>2, <2>4 DEF IsRecreated
    <2>6. t.bank = m + t.pool
      BY <2>4 DEF Renewed, Holdings
    <2>7. r.bank = t.bank /\ r.pool = t.pool + o
      BY <2>4 DEF IsRecreated
    <2>8. QED
      BY <1>2, <2>4, <2>5, <2>6, <2>7 DEF Holdings
  <1>5. \A u \in B : r.period[u] = 1 /\ r.commission[u] = 0 /\ r.outstanding[u] = 0
    BY DEF Renewed, IsRecreated
  <1>6. ASSUME NEW u \in B, NEW p \in Period
        PROVE  r.refs[u][p] = IF p = 0 THEN 1 ELSE 0
    <2>1. CASE u = v
      <3>1. t.refs[v][p] = 0
        BY <1>0 DEF Renewed
      <3>2. QED
        BY <2>1, <3>1 DEF IsRecreated
    <2>2. CASE u # v
      BY <2>2 DEF Renewed, IsRecreated
    <2>3. QED
      BY <2>1, <2>2
  <1>7. \A u \in Validator \ B : /\ r.outstanding[u] >= 0
                                 /\ \A p \in Period : r.refs[u][p] = 0
    BY DEF Renewed, IsRecreated
  <1>8. QED
    BY <1>1, <1>3, <1>4, <1>5, <1>6, <1>7 DEF Renewed

(* A fresh start of the validators has right books.                        *)
LEMMA RecreateValidatorsRight ==
  ASSUME NEW s \in Books, Renewed(s, s, {})
  PROVE  /\ Right(RecreateValidators(s), {})
         /\ Kept(RecreateValidators(s), s)
         /\ \A v \in Validator : RecreateValidators(s).period[v] = 1
  <1> DEFINE Inv == {x \in (SUBSET Validator) \X Books : Renewed(x[2], s, x[1])}
             r == RecreateValidators(s)
  <1>1. <<{}, s>> \in Inv
    OBVIOUS
  <1>2. ASSUME NEW B \in SUBSET Validator, NEW v \in B, NEW t \in Books, <<B \ {v}, t>> \in Inv
        PROVE  Recreated(t, v) \in Books /\ <<B, Recreated(t, v)>> \in Inv
    <2>1. Renewed(t, s, B \ {v})
      BY <1>2
    <2>2. IsRecreated(Recreated(t, v), t, v)
      BY RecreatedFields
    <2>3. Renewed(Recreated(t, v), s, B)
      BY <2>1, <2>2, RenewedStep
    <2>4. Recreated(t, v) \in Books
      BY <2>2 DEF IsRecreated
    <2>5. QED
      BY <2>3, <2>4
  <1>3. r \in Books /\ <<Validator, r>> \in Inv
    <2> HIDE DEF Inv, r
    <2>1. QED
      BY <1>1, <1>2, ExportFacts, RecreateValidatorsFold DEF r
  <1> HIDE DEF r
  <1>4. Renewed(r, s, Validator)
    BY <1>3
  <1>5. r.slashes = {}
    BY <1>4 DEF Renewed
  <1>6. \A v \in Validator : r.period[v] = 1 /\ r.commission[v] = 0 /\ r.outstanding[v] = 0
    BY <1>4 DEF Renewed
  <1>7. Counted(r, {})
    <2>1. ASSUME NEW v \in Validator, NEW p \in Period
          PROVE  r.refs[v][p] = References(r, {}, v, p)
      <3>1. r.refs[v][p] = IF p = 0 THEN 1 ELSE 0
        BY <1>4 DEF Renewed
      <3>2. Starters(r, {}, v, p) = {} /\ Slashed(r, v, p) = {}
        BY <1>5 DEF Starters, Slashed
      <3>3. References(r, {}, v, p) = (IF p = 0 THEN 1 ELSE 0) + 0 + 0
        BY <1>6, <3>2, FS_EmptySet DEF References
      <3>4. QED
        BY <3>1, <3>3
    <2>2. QED
      BY <2>1 DEF Counted
  <1>8. PeriodsEnded(r, {}) /\ StartsBefore(r, {})
    BY <1>5, <1>6 DEF PeriodsEnded, StartsBefore
  <1>9. Covered(r, {})
    <2>1. ASSUME NEW v \in Validator
          PROVE  Claimed(r, {}, v) <= r.outstanding[v]
      <3>1. Of({}, v) = {}
        BY DEF Of
      <3>2. Sum(r.owed, {}) = 0
        BY FS_EmptySet, SumZero
      <3>3. QED
        BY <1>6, <3>1, <3>2 DEF Claimed
    <2>2. QED
      BY <2>1 DEF Covered
  <1>10. QED
    BY <1>3, <1>4, <1>6, <1>7, <1>8, <1>9 DEF Renewed, Right, r

(* Validators and delegations, from nothing.                               *)
LEMMA AllRenewed ==
  ASSUME NEW s \in Books, Renewed(s, s, {}),
         NEW r, r = RecreateDelegations(RecreateValidators(s))
  PROVE  /\ Right(r, s.del) /\ Kept(r, s)
         /\ \A v \in Validator : r.period[v] = 1 + Cardinality(Of(s.del, v))
  <1> DEFINE t == RecreateValidators(s)
  <1>1. /\ Right(t, {}) /\ Kept(t, s)
        /\ \A v \in Validator : t.period[v] = 1
    BY RecreateValidatorsRight
  <1> HIDE DEF t
  <1>2. t.del = s.del /\ s.del \in SUBSET Delegation
    BY <1>1, BooksFields DEF Kept
  <1>3. Room(t)
    <2>1. ASSUME NEW v \in Validator
          PROVE  t.period[v] + Cardinality(Of(t.del, v)) <= MaxPeriod
      <3>1. /\ Cardinality(Of(s.del, v)) <= Cardinality(Of(Delegation, v))
            /\ Cardinality(Of(s.del, v)) \in Nat /\ Cardinality(Of(Delegation, v)) \in Nat
        BY <1>2, OfSubset
      <3>2. QED
        BY <1>1, <1>2, <3>1, ExportFacts
    <2>2. QED
      BY <2>1 DEF Room
  <1>4. Right(r, t.del) /\ Advanced(r, t, t.del)
    BY <1>1, <1>3, RecreateDelegationsRight DEF t
  <1>5. QED
    BY <1>1, <1>2, <1>4 DEF Advanced, Kept

-----------------------------------------------------------------------------
(* A state between two blocks, and the state an export prepares.           *)

(* What the books are about is the same, the rest of the state may differ. *)
SameBooks(r, s) ==
  /\ r.period = s.period /\ r.refs = s.refs /\ r.start = s.start
  /\ r.slashes = s.slashes /\ r.commission = s.commission /\ r.owed = s.owed
  /\ r.outstanding = s.outstanding /\ r.pool = s.pool /\ r.bank = s.bank
  /\ s.height <= r.height

LEMMA SameBooksRight ==
  ASSUME NEW s, NEW ds, Right(s, ds), NEW r \in Books, SameBooks(r, s)
  PROVE  Right(r, ds)
  <1>1. Counted(r, ds) /\ PeriodsEnded(r, ds) /\ Covered(r, ds) /\ Holdings(r)
    BY DEF Right, SameBooks, Counted, References, Starters, Slashed, PeriodsEnded, Covered,
           Claimed, Holdings
  <1>2. StartsBefore(r, ds)
    <2>1. ASSUME NEW d \in ds
          PROVE  r.start[d].height <= r.height
      <3>1. /\ s.start[d].height \in Int /\ s.height \in Int /\ r.height \in Int
            /\ s.start[d].height <= s.height
        BY BooksFields, RightFacts DEF Right, StartsBefore, StartingInfo, Height
      <3>2. QED
        BY <3>1 DEF SameBooks
    <2>2. QED
      BY <2>1 DEF StartsBefore
  <1>3. QED
    BY <1>1, <1>2 DEF Right, SameBooks

(* Nothing else of the state is dated ahead.                               *)
Dated(s) ==
  /\ \A v \in Validator : /\ s.unbondingHeight[v] <= s.height
                          /\ s.infoStart[v] <= s.height
  /\ \A e \in s.leaving : e.height <= s.height
  /\ \A e \in s.slashes : e.height <= s.height

(* A state between two blocks.                                             *)
Sound(s) ==
  /\ Right(s, s.del)
  /\ Room(s)
  /\ Dated(s)
  /\ s.power \cap s.jailed = {}

LEMMA KeptDated ==
  ASSUME NEW s, Dated(s), NEW r, Kept(r, s)
  PROVE  Dated(r)
  BY DEF Dated, Kept

Cleared(w) == [ClearHistory(w) EXCEPT !.height = 0]

(* What is left of the books when the history has been cleared: no         *)
(* references, and all that was held.                                      *)
LEMMA ClearedFields ==
  ASSUME NEW w, Right(w, w.del)
  PROVE  /\ Cleared(w) \in Books /\ Renewed(Cleared(w), Cleared(w), {})
         /\ Cleared(w).height = 0 /\ Cleared(w).del = w.del
         /\ Cleared(w).jailed = w.jailed /\ Cleared(w).power = w.power
         /\ Cleared(w).slashes = {}
  <1> DEFINE z == Cleared(w)
             none == [v \in Validator |-> [p \in Period |-> 0]]
  <1>0. w \in Books /\ w.del \in SUBSET Delegation
    BY RightFacts
  <1>1. none \in [Validator -> [Period -> Int]] /\ 0 \in Height
    BY ExportFacts DEF Height
  <1>2. \A v \in Validator : \A p \in Period : none[v][p] = 0
    OBVIOUS
  <1>3. z = [w EXCEPT !.slashes = {}, !.refs = none, !.height = 0]
    BY <1>0 DEF Cleared, ClearHistory, Books, Period
  <1> HIDE DEF z, none
  <1>4. /\ z \in Books
        /\ z.slashes = {} /\ z.refs = none /\ z.height = 0
    BY <1>0, <1>1, <1>3 DEF Books
  <1>5. /\ z.del = w.del /\ z.jailed = w.jailed /\ z.power = w.power
        /\ z.outstanding = w.outstanding /\ z.pool = w.pool /\ z.bank = w.bank
    BY <1>0, <1>3 DEF Books
  <1>6. ASSUME NEW v \in Validator
        PROVE  w.outstanding[v] >= 0
    <2>1. Claimed(w, w.del, v) <= w.outstanding[v]
      BY DEF Right, Covered
    <2>2. Sum(w.owed, Of(w.del, v)) \in Nat
      <3>1. \A d \in Of(w.del, v) : w.owed[d] \in Nat
        BY RightFacts DEF Of
      <3>2. IsFiniteSet(Of(w.del, v))
        BY <1>0, DelegationSets
      <3>3. QED
        BY <3>1, <3>2, SumNat
    <2>3. w.commission[v] \in Nat /\ w.outstanding[v] \in Int
      BY RightFacts
    <2>4. QED
      BY <2>1, <2>2, <2>3 DEF Claimed
  <1>7. Holdings(z) /\ z.pool >= 0
    BY <1>5 DEF Right, Holdings
  <1>8. Renewed(z, z, {})
    BY <1>2, <1>4, <1>5, <1>6, <1>7 DEF Renewed, Kept
  <1>9. QED
    BY <1>4, <1>5, <1>8 DEF z

LEMMA ResetRight ==
  ASSUME NEW s, Right(s, s.del), s.slashes = {},
         NEW r, r = ResetHeights(s)
  PROVE  /\ Right(r, s.del) /\ Dated(r)
         /\ r.del = s.del /\ r.period = s.period
         /\ r.jailed = s.jailed /\ r.power = s.power
  <1> DEFINE none == [v \in Validator |-> 0]
             left == {[e EXCEPT !.height = 0] : e \in s.leaving}
  <1>0. s \in Books /\ s.leaving \in SUBSET Departure /\ s.height \in Nat
    BY RightFacts, BooksFields DEF Height
  <1>1. 0 \in Height
    BY ExportFacts DEF Height
  <1>2. none \in [Validator -> Height] /\ \A v \in Validator : none[v] = 0
    BY <1>1
  <1>3. left \in SUBSET Departure /\ \A e \in left : e.height = 0
    BY <1>0, <1>1 DEF Departure
  <1>4. r = [s EXCEPT !.leaving = left, !.unbondingHeight = none, !.infoStart = none]
    BY <1>0 DEF ResetHeights, Books
  <1> HIDE DEF none, left
  <1>5. /\ r \in Books
        /\ r.leaving = left /\ r.unbondingHeight = none /\ r.infoStart = none
    BY ONLY <1>0, <1>2, <1>3, <1>4 DEF Books
  <1>6. /\ SameBooks(r, s) /\ r.height = s.height /\ r.slashes = {}
        /\ r.del = s.del /\ r.period = s.period /\ r.jailed = s.jailed /\ r.power = s.power
    BY <1>0, <1>4 DEF Books, SameBooks
  <1>7. Dated(r)
    BY <1>0, <1>2, <1>3, <1>5, <1>6 DEF Dated
  <1>8. QED
    BY <1>5, <1>6, <1>7, SameBooksRight

LEMMA JailOthersRight ==
  ASSUME NEW s, Right(s, s.del), Dated(s), NEW list,
         NEW r, r = JailOthers(s, list)
  PROVE  /\ Right(r, s.del) /\ Dated(r)
         /\ r.del = s.del /\ r.period = s.period /\ r.power = s.power
         /\ r.jailed = s.jailed \cup Others(list)
  <1>0. s \in Books /\ s.jailed \in SUBSET Validator /\ s.height \in Nat
    BY RightFacts, BooksFields DEF Height
  <1>1. Others(list) \subseteq Validator
    BY DEF Others
  <1>2. PICK jailed \in SUBSET Validator : jailed = s.jailed \cup Others(list)
    BY <1>0, <1>1
  <1>3. r = [s EXCEPT !.jailed = jailed]
    BY <1>0, <1>2 DEF JailOthers, Books
  <1>4. r \in Books /\ r.jailed = jailed
    BY <1>0, <1>3 DEF Books
  <1>5. /\ SameBooks(r, s) /\ r.del = s.del /\ r.period = s.period /\ r.power = s.power
        /\ r.height = s.height /\ r.unbondingHeight = s.unbondingHeight
        /\ r.infoStart = s.infoStart /\ r.leaving = s.leaving /\ r.slashes = s.slashes
    BY <1>0, <1>3 DEF Books, SameBooks
  <1>6. QED
    BY <1>2, <1>4, <1>5, SameBooksRight DEF Dated

(* The loops of prepForZeroHeightGenesis, one after the other: the new     *)
(* chain has room for its blocks, and nothing in it is dated ahead.        *)
LEMMA PreparedRight ==
  ASSUME NEW s, Sound(s), NEW list, NEW refused,
         NEW r, r = Prepared(s, list, refused)
  PROVE  /\ Right(r, r.del) /\ Room(r) /\ Dated(r)
         /\ r.power = s.power /\ r.jailed = s.jailed \cup Others(list)
  <1> DEFINE c == WithdrawCommissions(s, refused)
             w == WithdrawRewards(c, refused)
             z == Cleared(w)
             n == RecreateDelegations(RecreateValidators(z))
             h == ResetHeights(n)
  <1>1. Right(s, s.del) /\ Room(s)
    BY DEF Sound
  <1>2. Right(c, c.del) /\ Room(c) /\ Kept(c, s)
    <2>1. Right(c, s.del) /\ Kept(c, s) /\ c.period = s.period
      BY <1>1, CommissionsRight
    <2> HIDE DEF c
    <2>2. QED
      BY <1>1, <2>1 DEF Kept, Room
  <1> HIDE DEF c
  <1>3. Right(w, w.del) /\ Kept(w, c)
    <2>1. Right(w, c.del) /\ Kept(w, c)
      BY <1>2, WithdrawRewardsRight
    <2> HIDE DEF w
    <2>2. QED
      BY <2>1 DEF Kept
  <1> HIDE DEF w
  <1>4. /\ z \in Books /\ Renewed(z, z, {}) /\ z.height = 0 /\ z.del = w.del
        /\ z.jailed = w.jailed /\ z.power = w.power /\ z.slashes = {}
    BY <1>3, ClearedFields
  <1>a. r = JailOthers(h, list)
    BY DEF Prepared, Cleared, c, w
  <1> HIDE DEF z
  <1>5. /\ Right(n, z.del) /\ Kept(n, z)
        /\ \A v \in Validator : n.period[v] = 1 + Cardinality(Of(z.del, v))
    BY <1>4, AllRenewed
  <1> HIDE DEF n
  <1>6. Right(n, n.del) /\ n.slashes = {} /\ n.del = z.del
    BY <1>4, <1>5 DEF Kept
  <1>7. /\ Right(h, n.del) /\ Dated(h) /\ h.del = n.del /\ h.period = n.period
        /\ h.jailed = n.jailed /\ h.power = n.power
    BY <1>6, ResetRight
  <1> HIDE DEF h
  <1>8. /\ Right(r, h.del) /\ Dated(r) /\ r.del = h.del /\ r.period = h.period
        /\ r.power = h.power /\ r.jailed = h.jailed \cup Others(list)
    BY <1>7, <1>a, JailOthersRight
  <1>9. Room(r)
    <2>1. ASSUME NEW v \in Validator
          PROVE  r.period[v] + Cardinality(Of(r.del, v)) <= MaxPeriod
      <3>1. r.del = z.del /\ r.period[v] = 1 + Cardinality(Of(z.del, v)) /\ z.del \in SUBSET Delegation
        BY <1>4, <1>5, <1>6, <1>7, <1>8, BooksFields
      <3>2. /\ Cardinality(Of(z.del, v)) <= Cardinality(Of(Delegation, v))
            /\ Cardinality(Of(z.del, v)) \in Nat /\ Cardinality(Of(Delegation, v)) \in Nat
        BY <3>1, OfSubset
      <3>3. 1 + 2 * Cardinality(Of(Delegation, v)) <= MaxPeriod /\ MaxPeriod \in Nat
        BY ExportFacts
      <3>4. QED
        BY <3>1, <3>2, <3>3
    <2>2. QED
      BY <2>1 DEF Room
  <1>10. r.power = s.power /\ r.jailed = s.jailed \cup Others(list)
    BY <1>2, <1>3, <1>4, <1>5, <1>7, <1>8 DEF Kept
  <1>11. QED
    BY <1>7, <1>8, <1>9, <1>10

-----------------------------------------------------------------------------
(* Blocks.                                                                 *)

Later(s) == [s EXCEPT !.height = @ + 1]

(* The operations of a block.                                              *)
LEMMA LaterRight ==
  ASSUME NEW s, Right(s, s.del), Dated(s), s.height < MaxHeight,
         NEW r, r = Later(s)
  PROVE  /\ Right(r, s.del) /\ Dated(r) /\ r.height = s.height + 1
         /\ r.del = s.del /\ r.period = s.period /\ r.slashes = s.slashes
         /\ r.power = s.power /\ r.jailed = s.jailed
         /\ r.bank = s.bank /\ r.outstanding = s.outstanding
         /\ r.commission = s.commission /\ r.owed = s.owed
  <1>0. s \in Books /\ s.height \in Height
    BY RightFacts, BooksFields
  <1>1. PICK h \in Height : h = s.height + 1
    BY <1>0, ExportFacts DEF Height
  <1>2. r = [s EXCEPT !.height = h]
    BY <1>0, <1>1 DEF Later, Books
  <1>3. r \in Books /\ r.height = h
    BY <1>0, <1>2 DEF Books
  <1>4. /\ r.period = s.period /\ r.refs = s.refs /\ r.start = s.start
        /\ r.slashes = s.slashes /\ r.commission = s.commission /\ r.owed = s.owed
        /\ r.outstanding = s.outstanding /\ r.pool = s.pool /\ r.bank = s.bank
        /\ r.del = s.del /\ r.power = s.power /\ r.jailed = s.jailed
        /\ r.unbondingHeight = s.unbondingHeight /\ r.infoStart = s.infoStart
        /\ r.leaving = s.leaving
    BY <1>0, <1>2 DEF Books
  <1>5. SameBooks(r, s)
    BY <1>0, <1>1, <1>3, <1>4 DEF SameBooks, Height
  <1>6. Dated(r)
    <2>1. \A x \in Height : x <= s.height => x <= h
      BY <1>0, <1>1 DEF Height
    <2>2. /\ s.unbondingHeight \in [Validator -> Height]
          /\ s.infoStart \in [Validator -> Height]
          /\ \A e \in s.leaving : e.height \in Height
          /\ \A e \in s.slashes : e.height \in Height
      BY <1>0, BooksFields DEF Departure, SlashEvent
    <2>3. QED
      BY <1>3, <1>4, <2>1, <2>2 DEF Dated
  <1>7. QED
    BY <1>1, <1>3, <1>4, <1>5, <1>6, SameBooksRight

LEMMA JoinRight ==
  ASSUME NEW s, Right(s, s.del), Dated(s), NEW d \in Delegation \ s.del,
         s.period[d.validator] < MaxPeriod,
         NEW r, r = Join(s, d)
  PROVE  /\ Right(r, r.del) /\ Dated(r)
         /\ r.power = s.power /\ r.jailed = s.jailed
  <1> DEFINE u == [s EXCEPT !.del = @ \cup {d}]
  <1>0. s \in Books /\ s.del \in SUBSET Delegation /\ s.height \in Nat
    BY RightFacts, BooksFields DEF Height
  <1>1. PICK del \in SUBSET Delegation : del = s.del \cup {d}
    BY <1>0
  <1>2. u = [s EXCEPT !.del = del]
    BY <1>0, <1>1 DEF Books
  <1>3. r = CreateDelegation(u, d)
    BY DEF Join
  <1> HIDE DEF u
  <1>4. u \in Books /\ u.del = del
    BY <1>0, <1>2 DEF Books
  <1>5. /\ u.period = s.period /\ u.refs = s.refs /\ u.start = s.start
        /\ u.slashes = s.slashes /\ u.commission = s.commission /\ u.owed = s.owed
        /\ u.outstanding = s.outstanding /\ u.pool = s.pool /\ u.bank = s.bank
        /\ u.height = s.height /\ u.power = s.power /\ u.jailed = s.jailed
        /\ u.unbondingHeight = s.unbondingHeight /\ u.infoStart = s.infoStart
        /\ u.leaving = s.leaving
    BY <1>0, <1>2 DEF Books
  <1>6. Right(u, s.del)
    BY <1>0, <1>4, <1>5, SameBooksRight DEF SameBooks
  <1>7. Right(r, s.del \cup {d}) /\ OnePeriod(r, u, d.validator)
    BY <1>3, <1>5, <1>6, CreateRight
  <1>8. Dated(u)
    BY <1>5 DEF Dated
  <1>9. QED
    BY <1>1, <1>4, <1>5, <1>7, <1>8, KeptDated DEF OnePeriod, Kept

LEMMA LeaveRight ==
  ASSUME NEW s, Right(s, s.del), Dated(s), NEW d \in s.del,
         NEW kind \in {"unbonding", "redelegation"},
         s.period[d.validator] < MaxPeriod,
         NEW r, r = Leave(s, d, kind)
  PROVE  /\ Right(r, r.del) /\ Dated(r) /\ r.del = s.del \ {d}
         /\ r.power = s.power /\ r.jailed = s.jailed
  <1> DEFINE w == WithdrawDelegation(s, d)
             e == [kind |-> kind, d |-> d, height |-> s.height]
  <1>0. /\ s \in Books /\ s.del \in SUBSET Delegation /\ s.height \in Height
        /\ s.leaving \in SUBSET Departure /\ d \in Delegation
    BY RightFacts, BooksFields
  <1>1. Right(w, s.del \ {d}) /\ OnePeriod(w, s, d.validator)
    BY WithdrawRight
  <1>a. r = [w EXCEPT !.del = @ \ {d}, !.leaving = @ \cup {e}]
    BY DEF Leave
  <1>b. e \in Departure /\ e.height = s.height
    BY <1>0 DEF Departure
  <1> HIDE DEF w, e
  <1>2. w \in Books /\ Kept(w, s)
    BY <1>1, RightFacts DEF OnePeriod
  <1>3. /\ w.del = s.del /\ w.leaving = s.leaving /\ w.height = s.height
        /\ w.power = s.power /\ w.jailed = s.jailed
    BY <1>2 DEF Kept
  <1>4. PICK del \in SUBSET Delegation, leaving \in SUBSET Departure :
          del = s.del \ {d} /\ leaving = s.leaving \cup {e}
    BY <1>0, <1>b
  <1>5. r = [w EXCEPT !.del = del, !.leaving = leaving]
    BY <1>a, <1>2, <1>3, <1>4 DEF Books
  <1>6. r \in Books /\ r.del = del /\ r.leaving = leaving
    BY ONLY <1>2, <1>5 DEF Books
  <1>7. /\ r.period = w.period /\ r.refs = w.refs /\ r.start = w.start
        /\ r.slashes = w.slashes /\ r.commission = w.commission /\ r.owed = w.owed
        /\ r.outstanding = w.outstanding /\ r.pool = w.pool /\ r.bank = w.bank
        /\ r.height = w.height /\ r.power = w.power /\ r.jailed = w.jailed
        /\ r.unbondingHeight = w.unbondingHeight /\ r.infoStart = w.infoStart
    BY <1>2, <1>5 DEF Books
  <1>8. Right(r, s.del \ {d})
    <2>1. w.height \in Nat
      BY <1>0, <1>3 DEF Height
    <2>2. SameBooks(r, w)
      BY <1>7, <2>1 DEF SameBooks
    <2>3. QED
      BY <1>1, <1>6, <2>2, SameBooksRight
  <1>9. Dated(r)
    <2>1. Dated(w)
      BY <1>2, KeptDated
    <2>2. \A x \in r.leaving : x \in w.leaving \/ x = e
      BY <1>3, <1>4, <1>6
    <2>3. \A x \in r.leaving : x.height <= r.height
      BY <1>0, <1>3, <1>7, <1>b, <2>1, <2>2 DEF Dated, Height
    <2>4. QED
      BY <1>7, <2>1, <2>3 DEF Dated
  <1>10. QED
    BY <1>3, <1>4, <1>6, <1>7, <1>8, <1>9

LEMMA UnjailRight ==
  ASSUME NEW s, Right(s, s.del), Dated(s), s.power \cap s.jailed = {},
         NEW v \in Validator, NEW n, n = s.height,
         NEW r, r = [s EXCEPT !.jailed = @ \ {v}, !.power = @ \cup {v}, !.infoStart[v] = n]
  PROVE  Right(r, r.del) /\ Dated(r) /\ r.power \cap r.jailed = {}
  <1>0. /\ s \in Books /\ s.height \in Height /\ s.height \in Nat
        /\ s.jailed \in SUBSET Validator /\ s.power \in SUBSET Validator
        /\ s.infoStart \in [Validator -> Height]
    BY RightFacts, BooksFields DEF Height
  <1>1. PICK jailed \in SUBSET Validator, power \in SUBSET Validator,
             infoStart \in [Validator -> Height] :
          /\ jailed = s.jailed \ {v} /\ power = s.power \cup {v}
          /\ infoStart = [s.infoStart EXCEPT ![v] = s.height]
    BY <1>0
  <1>2. r = [s EXCEPT !.jailed = jailed, !.power = power, !.infoStart = infoStart]
    BY <1>0, <1>1 DEF Books
  <1>3. /\ r \in Books
        /\ r.jailed = jailed /\ r.power = power /\ r.infoStart = infoStart
    BY ONLY <1>0, <1>2 DEF Books
  <1>4. /\ r.period = s.period /\ r.refs = s.refs /\ r.start = s.start
        /\ r.slashes = s.slashes /\ r.commission = s.commission /\ r.owed = s.owed
        /\ r.outstanding = s.outstanding /\ r.pool = s.pool /\ r.bank = s.bank
        /\ r.del = s.del /\ r.height = s.height /\ r.leaving = s.leaving
        /\ r.unbondingHeight = s.unbondingHeight
    BY <1>0, <1>2 DEF Books
  <1>5. Right(r, r.del)
    <2>1. SameBooks(r, s)
      BY <1>0, <1>4 DEF SameBooks
    <2>2. QED
      BY <1>3, <1>4, <2>1, SameBooksRight
  <1>6. Dated(r)
    <2>1. \A u \in Validator : r.infoStart[u] <= r.height
      BY <1>0, <1>1, <1>3, <1>4 DEF Dated
    <2>2. QED
      BY <1>4, <2>1 DEF Dated
  <1>7. r.power \cap r.jailed = {}
    <2>1. s.power \cap s.jailed = {} /\ r.power = s.power \cup {v}
          /\ r.jailed = s.jailed \ {v}
      BY <1>1, <1>3
    <2>2. QED
      BY ONLY <2>1
  <1>8. QED
    BY <1>5, <1>6, <1>7

Slashing(s, v, p) ==
  [s EXCEPT !.refs[v][p] = @ + 1,
            !.slashes = @ \cup {[v |-> v, period |-> p, height |-> s.height]},
            !.jailed = @ \cup {v},
            !.power = @ \ {v},
            !.unbondingHeight[v] = s.height]

IsSlashed(r, s, v) ==
  LET p == s.period[v] - 1
      e == [v |-> v, period |-> p, height |-> s.height]
  IN  /\ r \in Books
      /\ r.slashes = s.slashes \cup {e}
      /\ r.jailed = s.jailed \cup {v} /\ r.power = s.power \ {v}
      /\ r.refs[v][p] = s.refs[v][p] + 1
      /\ \A q \in Period : q # p => r.refs[v][q] = s.refs[v][q]
      /\ \A u \in Validator : u # v => r.refs[u] = s.refs[u]
      /\ r.unbondingHeight = [s.unbondingHeight EXCEPT ![v] = s.height]
      /\ r.period = s.period /\ r.start = s.start /\ r.commission = s.commission
      /\ r.owed = s.owed /\ r.outstanding = s.outstanding /\ r.pool = s.pool
      /\ r.bank = s.bank /\ r.del = s.del /\ r.height = s.height
      /\ r.leaving = s.leaving /\ r.infoStart = s.infoStart

LEMMA SlashingFields ==
  ASSUME NEW s \in Books, NEW v \in Validator, 1 <= s.period[v],
         NEW r, r = Slashing(s, v, s.period[v] - 1)
  PROVE  IsSlashed(r, s, v)
  <1> DEFINE p == s.period[v] - 1
             e == [v |-> v, period |-> p, height |-> s.height]
             row == [s.refs[v] EXCEPT ![p] = @ + 1]
  <1>1. /\ p \in Period /\ s.refs[v] \in [Period -> Int] /\ s.height \in Height
        /\ s.refs \in [Validator -> [Period -> Int]]
        /\ s.unbondingHeight \in [Validator -> Height]
        /\ s.slashes \in SUBSET SlashEvent
        /\ s.jailed \in SUBSET Validator /\ s.power \in SUBSET Validator
    <2>1. /\ s.period \in [Validator -> Period] /\ s.height \in Height
          /\ s.refs \in [Validator -> [Period -> Int]]
          /\ s.unbondingHeight \in [Validator -> Height]
          /\ s.slashes \in SUBSET SlashEvent
          /\ s.jailed \in SUBSET Validator /\ s.power \in SUBSET Validator
      BY BooksFields
    <2>2. s.period[v] \in 0..MaxPeriod /\ 1 <= s.period[v] /\ v \in Validator
      BY <2>1 DEF Period
    <2>3. MaxPeriod \in Nat
      BY ExportFacts
    <2>4. p \in Period
      BY ONLY <2>2, <2>3 DEF Period
    <2>5. QED
      BY ONLY <2>1, <2>2, <2>4
  <1>2. /\ row \in [Period -> Int]
        /\ row[p] = s.refs[v][p] + 1
        /\ \A q \in Period : q # p => row[q] = s.refs[v][q]
    <2> HIDE DEF p
    <2>1. QED
      BY <1>1
  <1>3. e \in SlashEvent
    BY <1>1 DEF SlashEvent
  <1>4. r = [s EXCEPT !.refs = [s.refs EXCEPT ![v] = row],
                      !.slashes = s.slashes \cup {e},
                      !.jailed = s.jailed \cup {v},
                      !.power = s.power \ {v},
                      !.unbondingHeight = [s.unbondingHeight EXCEPT ![v] = s.height]]
    BY DEF Slashing, Books
  <1> HIDE DEF row, e
  <1>5. PICK a \in [Validator -> [Period -> Int]], b \in SUBSET SlashEvent,
             c \in SUBSET Validator, o \in SUBSET Validator, h \in [Validator -> Height] :
          /\ a = [s.refs EXCEPT ![v] = row] /\ b = s.slashes \cup {e}
          /\ c = s.jailed \cup {v} /\ o = s.power \ {v}
          /\ h = [s.unbondingHeight EXCEPT ![v] = s.height]
    <2>1. [s.refs EXCEPT ![v] = row] \in [Validator -> [Period -> Int]]
      BY <1>1, <1>2
    <2>2. [s.unbondingHeight EXCEPT ![v] = s.height] \in [Validator -> Height]
      BY <1>1
    <2>3. s.slashes \cup {e} \in SUBSET SlashEvent
      BY <1>1, <1>3
    <2>4. QED
      BY <1>1, <2>1, <2>2, <2>3
  <1>6. r = [s EXCEPT !.refs = a, !.slashes = b, !.jailed = c, !.power = o,
                      !.unbondingHeight = h]
    BY <1>4, <1>5
  <1>7. r \in Books
    <2> DEFINE q == [s EXCEPT !.refs = a, !.slashes = b]
    <2>1. q \in Books
      BY DEF Books
    <2>2. r = [q EXCEPT !.jailed = c, !.power = o, !.unbondingHeight = h]
      BY <1>6
    <2> HIDE DEF q
    <2>3. QED
      BY ONLY <2>1, <2>2 DEF Books
  <1>8. /\ r.refs = a /\ r.slashes = b /\ r.jailed = c /\ r.power = o
        /\ r.unbondingHeight = h
        /\ r.period = s.period /\ r.start = s.start /\ r.commission = s.commission
        /\ r.owed = s.owed /\ r.outstanding = s.outstanding /\ r.pool = s.pool
        /\ r.bank = s.bank /\ r.del = s.del /\ r.height = s.height
        /\ r.leaving = s.leaving /\ r.infoStart = s.infoStart
    BY ONLY <1>6 DEF Books
  <1>9. r.refs[v] = row /\ \A u \in Validator : u # v => r.refs[u] = s.refs[u]
    BY <1>1, <1>5, <1>8
  <1>10. QED
    BY <1>2, <1>5, <1>7, <1>8, <1>9 DEF IsSlashed, e

(* The event refers to a period that has only just ended.                  *)
LEMMA SlashingRight ==
  ASSUME NEW s, Right(s, s.del), Dated(s), s.power \cap s.jailed = {},
         NEW v \in Validator, Cardinality(Slashed(s, v, s.period[v] - 1)) = 0,
         NEW r, r = Slashing(s, v, s.period[v] - 1)
  PROVE  Right(r, r.del) /\ Dated(r) /\ r.power \cap r.jailed = {}
  <1> DEFINE p == s.period[v] - 1
             e == [v |-> v, period |-> p, height |-> s.height]
             ds == s.del
  <1>0. /\ s \in Books /\ ds \in SUBSET Delegation /\ s.height \in Nat
        /\ 1 <= s.period[v] /\ s.period[v] \in Int
    BY RightFacts, BooksFields DEF Height
  <1>1. IsSlashed(r, s, v)
    <2>1. v \in Validator
      OBVIOUS
    <2>2. r = Slashing(s, v, s.period[v] - 1)
      OBVIOUS
    <2>3. QED
      BY ONLY <1>0, <2>1, <2>2, SlashingFields
  <1>2. /\ r \in Books
        /\ r.slashes = s.slashes \cup {e}
        /\ r.jailed = s.jailed \cup {v} /\ r.power = s.power \ {v}
        /\ r.refs[v][p] = s.refs[v][p] + 1
        /\ \A q \in Period : q # p => r.refs[v][q] = s.refs[v][q]
        /\ \A u \in Validator : u # v => r.refs[u] = s.refs[u]
        /\ r.unbondingHeight = [s.unbondingHeight EXCEPT ![v] = s.height]
        /\ r.period = s.period /\ r.start = s.start /\ r.commission = s.commission
        /\ r.owed = s.owed /\ r.outstanding = s.outstanding /\ r.pool = s.pool
        /\ r.bank = s.bank /\ r.del = s.del /\ r.height = s.height
        /\ r.leaving = s.leaving /\ r.infoStart = s.infoStart
    BY ONLY <1>1 DEF IsSlashed
  <1>a. e.v = v /\ e.period = p /\ e.height = s.height
    OBVIOUS
  <1> HIDE DEF e, p
  <1>3. \A u, q : Starters(r, ds, u, q) = Starters(s, ds, u, q)
    BY <1>2 DEF Starters
  <1>4. \A u, q : Slashed(r, u, q)
                    = IF u = v /\ q = p THEN Slashed(s, u, q) \cup {e} ELSE Slashed(s, u, q)
    BY <1>2, <1>a DEF Slashed
  <1>5. Slashed(s, v, p) = {}
    BY <1>0, SlashSets, FS_EmptySet DEF p
  <1>6. ASSUME NEW u \in Validator, NEW q \in Period
        PROVE  r.refs[u][q] = References(r, ds, u, q)
    <2>1. s.refs[u][q] = References(s, ds, u, q)
      BY DEF Right, Counted
    <2>2. PICK m \in Nat, n \in Nat, c \in Int :
            /\ m = Cardinality(Starters(s, ds, u, q)) /\ n = Cardinality(Slashed(s, u, q))
            /\ c = IF q = s.period[u] - 1 THEN 1 ELSE 0
      <3>1. \E c \in Int : c = IF q = s.period[u] - 1 THEN 1 ELSE 0
        OBVIOUS
      <3>2. QED
        BY <1>0, <3>1, DelegationSets, SlashSets
    <2>3. s.refs[u][q] = c + m + n
      BY <2>1, <2>2 DEF References
    <2>4. CASE u = v /\ q = p
      <3>1. Cardinality(Slashed(r, u, q)) = 1 /\ n = 0
        <4>1. Slashed(s, u, q) = {} /\ Slashed(r, u, q) = {e}
          BY <1>4, <1>5, <2>4
        <4>2. Cardinality({e}) = 1
          BY FS_Singleton
        <4>3. Cardinality({}) = 0
          BY ONLY FS_EmptySet
        <4>4. QED
          BY <2>2, <4>1, <4>2, <4>3
      <3>2. References(r, ds, u, q) = c + m + 1
        BY ONLY <1>2, <1>3, <2>2, <3>1 DEF References
      <3>3. QED
        BY <1>2, <2>3, <2>4, <3>1, <3>2
    <2>5. CASE ~(u = v /\ q = p)
      <3>1. References(r, ds, u, q) = c + m + n
        <4>1. Starters(r, ds, u, q) = Starters(s, ds, u, q) /\ r.period = s.period
          BY <1>2, <1>3
        <4>2. Slashed(r, u, q) = Slashed(s, u, q)
          BY <1>4, <2>5
        <4>3. QED
          BY <2>2, <4>1, <4>2 DEF References
      <3>2. QED
        BY <1>2, <2>3, <2>5, <3>1
    <2>6. QED
      BY <2>4, <2>5
  <1>7. PeriodsEnded(r, ds)
    <2>1. \A x \in r.slashes : x.period < r.period[x.v]
      <3>1. \A x \in s.slashes : x.period < s.period[x.v]
        BY DEF Right, PeriodsEnded
      <3>2. e.period < s.period[e.v]
        BY ONLY <1>0, <1>a DEF p
      <3>3. QED
        BY <1>2, <3>1, <3>2
    <2>2. QED
      BY <1>2, <2>1 DEF Right, PeriodsEnded
  <1>8. Covered(r, ds) /\ Holdings(r) /\ StartsBefore(r, ds) /\ r.pool >= 0
    <2>1. Covered(s, ds) /\ Holdings(s) /\ StartsBefore(s, ds) /\ s.pool >= 0
      BY DEF Right
    <2>2. QED
      BY ONLY <1>2, <2>1 DEF Covered, Claimed, Holdings, StartsBefore
  <1>9. Right(r, ds)
    BY ONLY <1>0, <1>2, <1>6, <1>7, <1>8 DEF Right, Counted
  <1>10. Dated(r)
    <2>1. \A u \in Validator : r.unbondingHeight[u] <= r.height
      <3>1. s.unbondingHeight \in [Validator -> Height]
        BY <1>0, BooksFields
      <3>2. QED
        BY <1>0, <1>2, <3>1 DEF Dated
    <2>2. \A x \in r.slashes : x.height <= r.height
      BY <1>0, <1>2, <1>a DEF Dated
    <2>3. QED
      BY <1>2, <2>1, <2>2 DEF Dated
  <1>11. r.power \cap r.jailed = {}
    BY <1>2
  <1>12. QED
    BY <1>2, <1>9, <1>10, <1>11

-----------------------------------------------------------------------------
Allocated(s, v, ds) ==
  [s EXCEPT !.bank = @ + (Cardinality(ds) + 2),
            !.outstanding[v] = @ + (Cardinality(ds) + 2),
            !.commission[v] = @ + 1,
            !.owed = [d \in Delegation |-> IF d \in ds THEN @[d] + 1 ELSE @[d]]]

IsAllocated(r, s, v, ds, n) ==
  /\ r \in Books
  /\ r.bank = s.bank + n
  /\ r.outstanding[v] = s.outstanding[v] + n
  /\ r.commission[v] = s.commission[v] + 1
  /\ \A u \in Validator : u # v => /\ r.outstanding[u] = s.outstanding[u]
                                   /\ r.commission[u] = s.commission[u]
  /\ \A d \in Delegation : r.owed[d] = IF d \in ds THEN s.owed[d] + 1 ELSE s.owed[d]
  /\ Kept(r, s)
  /\ r.period = s.period /\ r.refs = s.refs /\ r.start = s.start /\ r.pool = s.pool

LEMMA AllocatedFields ==
  ASSUME NEW s \in Books, NEW v \in Validator, NEW ds \in SUBSET Delegation,
         NEW r, r = Allocated(s, v, ds)
  PROVE  IsAllocated(r, s, v, ds, Cardinality(ds) + 2)
  <1> DEFINE owed == [d \in Delegation |-> IF d \in ds THEN s.owed[d] + 1 ELSE s.owed[d]]
             m == Cardinality(ds) + 2
  <1>1. /\ s.owed \in [Delegation -> Nat] /\ s.outstanding \in [Validator -> Int]
        /\ s.commission \in [Validator -> Nat] /\ s.bank \in Int
    BY BooksFields
  <1>2. m \in Nat
    <2>1. Cardinality(ds) \in Nat
      BY DelegationSets, FS_CardinalityType
    <2>2. QED
      BY <2>1
  <1>3. r = [s EXCEPT !.bank = s.bank + m,
                      !.outstanding = [s.outstanding EXCEPT ![v] = s.outstanding[v] + m],
                      !.commission = [s.commission EXCEPT ![v] = s.commission[v] + 1],
                      !.owed = owed]
    BY <1>1 DEF Allocated, Books
  <1>4. /\ owed \in [Delegation -> Nat]
        /\ \A d \in Delegation : owed[d] = IF d \in ds THEN s.owed[d] + 1 ELSE s.owed[d]
    BY <1>1
  <1> HIDE DEF owed, m
  <1>5. PICK b \in Int, o \in [Validator -> Int], c \in [Validator -> Nat],
             w \in [Delegation -> Nat] :
          /\ b = s.bank + m
          /\ o = [s.outstanding EXCEPT ![v] = s.outstanding[v] + m]
          /\ c = [s.commission EXCEPT ![v] = s.commission[v] + 1]
          /\ w = owed
    <2>1. s.bank + m \in Int /\ s.outstanding[v] + m \in Int /\ s.commission[v] + 1 \in Nat
      BY <1>1, <1>2
    <2>2. /\ [s.outstanding EXCEPT ![v] = s.outstanding[v] + m] \in [Validator -> Int]
          /\ [s.commission EXCEPT ![v] = s.commission[v] + 1] \in [Validator -> Nat]
      BY <1>1, <2>1
    <2>3. QED
      BY <1>4, <2>1, <2>2
  <1>6. r = [s EXCEPT !.bank = b, !.outstanding = o, !.commission = c, !.owed = w]
    BY <1>3, <1>5
  <1>7. r \in Books
    <2> DEFINE q == [s EXCEPT !.bank = b, !.outstanding = o]
    <2>1. q \in Books
      BY DEF Books
    <2>2. r = [q EXCEPT !.commission = c, !.owed = w]
      BY <1>6
    <2> HIDE DEF q
    <2>3. QED
      BY ONLY <2>1, <2>2 DEF Books
  <1>8. /\ r.bank = b /\ r.outstanding = o /\ r.commission = c /\ r.owed = w
        /\ r.period = s.period /\ r.refs = s.refs /\ r.start = s.start /\ r.pool = s.pool
        /\ Kept(r, s)
    BY <1>6 DEF Books, Kept
  <1>9. /\ o[v] = s.outstanding[v] + m /\ c[v] = s.commission[v] + 1
        /\ \A u \in Validator : u # v => o[u] = s.outstanding[u] /\ c[u] = s.commission[u]
    BY <1>1, <1>5
  <1>10. QED
    BY <1>4, <1>5, <1>7, <1>8, <1>9 DEF IsAllocated, m

(* One coin for each delegation and one of commission, of what is added to *)
(* the outstanding rewards.                                                *)
LEMMA AllocatedRight ==
  ASSUME NEW s, Right(s, s.del), Dated(s), NEW v \in Validator,
         NEW r, r = Allocated(s, v, Of(s.del, v))
  PROVE  /\ Right(r, r.del) /\ Dated(r)
         /\ r.power = s.power /\ r.jailed = s.jailed
  <1> DEFINE ds == Of(s.del, v)
  <1>0. /\ s \in Books /\ s.del \in SUBSET Delegation /\ ds \in SUBSET Delegation
        /\ Cardinality(ds) \in Nat
    BY RightFacts, DelegationSets DEF Of
  <1>1. IsAllocated(r, s, v, ds, Cardinality(ds) + 2)
    <2> HIDE DEF ds
    <2>1. QED
      BY <1>0, AllocatedFields DEF ds
  <1>2. PICK k \in Int : k = Cardinality(ds)
    BY <1>0
  <1>3. IsAllocated(r, s, v, ds, k + 2)
    BY <1>1, <1>2
  <1>4. Kept(r, s) /\ r.del = s.del /\ r \in Books
    BY <1>3 DEF IsAllocated, Kept
  <1>5. /\ s.owed \in [Delegation -> Nat] /\ s.outstanding \in [Validator -> Int]
        /\ s.commission \in [Validator -> Nat] /\ s.bank \in Int /\ s.pool \in Int
        /\ r.outstanding \in [Validator -> Int]
    <2>1. /\ s.owed \in [Delegation -> Nat] /\ s.outstanding \in [Validator -> Int]
          /\ s.commission \in [Validator -> Nat] /\ s.bank \in Int /\ s.pool \in Int
      BY <1>0, BooksFields
    <2>2. r.outstanding \in [Validator -> Int]
      BY <1>4, BooksFields
    <2>3. QED
      BY <2>1, <2>2
  <1>6. Counted(r, s.del) /\ PeriodsEnded(r, s.del) /\ StartsBefore(r, s.del) /\ r.pool >= 0
    <2>1. /\ r.period = s.period /\ r.refs = s.refs /\ r.start = s.start
          /\ r.pool = s.pool /\ r.slashes = s.slashes /\ r.height = s.height
      BY <1>3 DEF IsAllocated, Kept
    <2>2. Counted(s, s.del) /\ PeriodsEnded(s, s.del) /\ StartsBefore(s, s.del) /\ s.pool >= 0
      BY DEF Right
    <2>3. Counted(r, s.del)
      <3>1. \A u, q : References(r, s.del, u, q) = References(s, s.del, u, q)
        BY <2>1 DEF References, Starters, Slashed
      <3>2. QED
        BY <2>1, <2>2, <3>1 DEF Counted
    <2>4. PeriodsEnded(r, s.del) /\ StartsBefore(r, s.del)
      BY <2>1, <2>2 DEF PeriodsEnded, StartsBefore
    <2>5. QED
      BY <2>1, <2>2, <2>3, <2>4
  <1>7. ASSUME NEW u \in Validator
        PROVE  Claimed(r, s.del, u) <= r.outstanding[u]
    <2>1. Claimed(s, s.del, u) <= s.outstanding[u]
      BY DEF Right, Covered
    <2>2. IsFiniteSet(Of(s.del, u)) /\ \A d \in Of(s.del, u) : d \in Delegation /\ s.owed[d] \in Int
      BY <1>0, <1>5, DelegationSets DEF Of
    <2>3. Sum(s.owed, Of(s.del, u)) \in Int
      BY <2>2, SumStep
    <2>4. PICK a \in Int, c \in Int, o \in Int :
            /\ a = Sum(s.owed, Of(s.del, u)) /\ c = s.commission[u] /\ o = s.outstanding[u]
      BY <1>5, <2>3
    <2>5. c + a <= o
      BY <2>1, <2>4 DEF Claimed
    <2>6. CASE u = v
      <3>1. OneMore(r.owed, s.owed, Of(s.del, u))
        BY <1>3, <2>2, <2>6 DEF OneMore, IsAllocated
      <3>2. Sum(r.owed, Of(s.del, u)) = a + k
        BY <1>2, <2>2, <2>4, <2>6, <3>1, SumOneMore
      <3>3. Claimed(r, s.del, u) = (c + 1) + (a + k) /\ r.outstanding[u] = o + (k + 2)
        BY <1>3, <2>4, <2>6, <3>2 DEF Claimed, IsAllocated
      <3>4. QED
        BY <2>5, <3>3
    <2>7. CASE u # v
      <3>1. \A d \in Of(s.del, u) : r.owed[d] = s.owed[d]
        BY <1>3, <2>2, <2>7 DEF IsAllocated, Of
      <3>2. Sum(r.owed, Of(s.del, u)) = a
        BY <2>2, <2>4, <3>1, SumSame
      <3>3. Claimed(r, s.del, u) = c + a /\ r.outstanding[u] = o
        BY <1>3, <2>4, <2>7, <3>2 DEF Claimed, IsAllocated
      <3>4. QED
        BY <2>5, <3>3
    <2>8. QED
      BY <2>6, <2>7
  <1>8. Holdings(r)
    <2>1. DifferAt(v, s.outstanding, r.outstanding, Validator)
      BY <1>3, <1>5 DEF DifferAt, IsAllocated
    <2>2. Sum(r.outstanding, Validator)
            = Sum(s.outstanding, Validator) - s.outstanding[v] + r.outstanding[v]
      BY <2>1, SumUpdate, ExportFacts
    <2>3. Sum(s.outstanding, Validator) \in Int
      <3>1. \A u \in Validator : s.outstanding[u] \in Int
        BY <1>5
      <3>2. QED
        BY <3>1, SumStep, ExportFacts
    <2>4. PICK m \in Int, o \in Int : m = Sum(s.outstanding, Validator) /\ o = s.outstanding[v]
      BY <1>5, <2>3
    <2>5. Sum(r.outstanding, Validator) = m + (k + 2)
      BY <1>3, <2>2, <2>4 DEF IsAllocated
    <2>6. s.bank = m + s.pool
      BY <2>4 DEF Right, Holdings
    <2>7. QED
      BY <1>3, <1>5, <2>4, <2>5, <2>6 DEF Holdings, IsAllocated
  <1>9. Right(r, r.del)
    BY <1>0, <1>4, <1>6, <1>7, <1>8 DEF Right, Covered
  <1>10. QED
    BY <1>4, <1>9, KeptDated DEF Kept

-----------------------------------------------------------------------------
(* The actions of the export, and its theorems.                            *)

(* The guard of a block.                                                   *)
LEMMA BlockRoom ==
  ASSUME NEW s, Right(s, s.del), Block(s)
  PROVE  Room(s)
  <1>1. ASSUME NEW v \in Validator
        PROVE  s.period[v] + Cardinality(Of(s.del, v)) <= MaxPeriod
    <2>1. DelegationsTo(s, v) = Of(s.del, v)
      BY DEF DelegationsTo, Of
    <2>2. s.period[v] <= MaxPeriod - Cardinality(Of(s.del, v))
      BY <2>1 DEF Block
    <2>3. /\ s.period[v] \in Int /\ MaxPeriod \in Int
          /\ Cardinality(Of(s.del, v)) \in Int
      <3>1. s.del \in SUBSET Delegation /\ s.period[v] \in Int
        BY RightFacts
      <3>2. Cardinality(Of(s.del, v)) \in Nat
        BY <3>1, DelegationSets
      <3>3. QED
        BY <3>1, <3>2, ExportFacts
    <2>4. QED
      BY <2>2, <2>3
  <1>2. QED
    BY <1>1 DEF Room

(* A block that lets a delegation in had a period left for it.             *)
LEMMA JoinRoom ==
  ASSUME NEW s, Right(s, s.del), NEW d \in Delegation, Block(Join(s, d))
  PROVE  s.period[d.validator] < MaxPeriod
  <1> DEFINE r == Join(s, d)
             v == d.validator
  <1>0. s \in Books /\ s.del \in SUBSET Delegation /\ v \in Validator /\ s.period[v] \in Int
    <2>1. v \in Validator
      BY ExportFacts
    <2>2. /\ s \in Books /\ s.del \in SUBSET Delegation
          /\ \A u \in Validator : s.period[u] \in Int
      <3>1. Right(s, s.del)
        OBVIOUS
      <3>2. QED
        BY ONLY <3>1, RightFacts
    <2>3. QED
      BY ONLY <2>1, <2>2
  <1>1. r.period[v] = s.period[v] + 1 /\ r.del = s.del \cup {d}
    <2> DEFINE u == [s EXCEPT !.del = @ \cup {d}]
               w == IncrementPeriod(u, v)
    <2>1. PICK del \in SUBSET Delegation : del = s.del \cup {d}
      BY ONLY <1>0
    <2>2. u = [s EXCEPT !.del = del]
      BY ONLY <1>0, <2>1 DEF Books
    <2>3. r = InitializeDelegation(w, d)
      BY DEF Join, CreateDelegation
    <2> HIDE DEF u
    <2>4. u \in Books /\ u.period = s.period /\ u.del = del
      BY ONLY <1>0, <2>2 DEF Books
    <2>5. /\ w.period = [u.period EXCEPT ![v] = @ + 1] /\ w.del = u.del
          /\ {"period", "del"} \subseteq DOMAIN w
      BY ONLY <2>4 DEF IncrementPeriod, Books
    <2> HIDE DEF w, r
    <2>6. r.period = w.period /\ r.del = w.del
      BY ONLY <2>3, <2>5 DEF InitializeDelegation
    <2>7. v \in DOMAIN u.period
      BY ONLY <1>0, <2>4 DEF Books
    <2>8. QED
      BY ONLY <2>1, <2>4, <2>5, <2>6, <2>7
  <1>2. r.period[v] <= MaxPeriod - Cardinality(DelegationsTo(r, v))
    BY <1>0 DEF Block
  <1> HIDE DEF r
  <1>3. DelegationsTo(r, v) = Of(s.del \cup {d}, v)
    BY <1>1 DEF DelegationsTo, Of
  <1>4. Cardinality(Of(s.del \cup {d}, v)) \in Nat
    BY <1>0, DelegationSets
  <1>5. QED
    BY <1>0, <1>1, <1>2, <1>3, <1>4, ExportFacts

LEMMA LeaveRoom ==
  ASSUME NEW s, Right(s, s.del), Room(s), NEW d \in s.del
  PROVE  s.period[d.validator] < MaxPeriod
  <1>0. s \in Books /\ s.del \in SUBSET Delegation /\ s.del \in SUBSET s.del
    BY RightFacts
  <1>1. /\ Cardinality(Of(s.del, d.validator)) \in Nat
        /\ Cardinality(Of(s.del \ {d}, d.validator)) \in Nat
        /\ Cardinality(Of(s.del, d.validator)) = Cardinality(Of(s.del \ {d}, d.validator)) + 1
    BY <1>0, OfStep
  <1>2. /\ d.validator \in Validator
        /\ s.period[d.validator] + Cardinality(Of(s.del, d.validator)) <= MaxPeriod
    BY RightFacts DEF Room
  <1>3. s.period[d.validator] \in Int /\ MaxPeriod \in Int
    BY <1>2, RightFacts, ExportFacts
  <1>4. QED
    BY <1>1, <1>2, <1>3

LEMMA BlockSound ==
  ASSUME NEW s, Block(s), Right(s, s.del), Dated(s), s.power \cap s.jailed = {}
  PROVE  Sound(app')
  <1>1. app' = s /\ Room(s)
    BY BlockRoom DEF Block
  <1>2. QED
    BY <1>1 DEF Sound

LEMMA NowRight ==
  ASSUME Sound(app), app.height < MaxHeight
  PROVE  /\ Right(Now, Now.del) /\ Dated(Now) /\ Now.height = app.height + 1
         /\ Now.del = app.del /\ Now.period = app.period /\ Now.slashes = app.slashes
         /\ Now.power = app.power /\ Now.jailed = app.jailed /\ Room(Now)
         /\ Now.power \cap Now.jailed = {}
  <1>1. Now = Later(app)
    BY DEF Now, Later
  <1>2. /\ Right(Now, app.del) /\ Dated(Now) /\ Now.height = app.height + 1
        /\ Now.del = app.del /\ Now.period = app.period /\ Now.slashes = app.slashes
        /\ Now.power = app.power /\ Now.jailed = app.jailed
    BY <1>1, LaterRight DEF Sound
  <1>3. QED
    BY <1>2 DEF Sound, Room

LEMMA AllocateSound ==
  ASSUME Sound(app), NEW v \in Validator, Allocate(v)
  PROVE  Sound(app')
  <1> DEFINE r == Allocated(Now, v, Of(app.del, v))
  <1>1. Block(r) /\ app.height < MaxHeight
    <2>1. DelegationsTo(app, v) = Of(app.del, v)
      BY DEF DelegationsTo, Of
    <2>2. Block(r)
      BY <2>1 DEF Allocate, Allocated
    <2>3. QED
      BY <2>2 DEF Block
  <1>2. /\ Right(Now, Now.del) /\ Dated(Now) /\ Now.del = app.del
        /\ Now.power \cap Now.jailed = {}
    BY <1>1, NowRight
  <1>3. r = Allocated(Now, v, Of(Now.del, v))
    BY <1>2
  <1> HIDE DEF r
  <1>4. /\ Right(r, r.del) /\ Dated(r)
        /\ r.power = Now.power /\ r.jailed = Now.jailed
    BY <1>2, <1>3, AllocatedRight
  <1>5. QED
    BY <1>1, <1>2, <1>4, BlockSound

LEMMA DelegateSound ==
  ASSUME Sound(app), NEW d \in Delegation, Delegate(d)
  PROVE  Sound(app')
  <1> DEFINE r == Join(Now, d)
  <1>1. Block(r) /\ app.height < MaxHeight /\ d \notin app.del
    BY DEF Delegate, Block
  <1>2. /\ Right(Now, Now.del) /\ Dated(Now) /\ Now.del = app.del
        /\ Now.power \cap Now.jailed = {}
    BY <1>1, NowRight
  <1>3. Now.period[d.validator] < MaxPeriod
    BY <1>1, <1>2, JoinRoom
  <1> HIDE DEF r
  <1>4. /\ Right(r, r.del) /\ Dated(r)
        /\ r.power = Now.power /\ r.jailed = Now.jailed
    BY <1>1, <1>2, <1>3, JoinRight DEF r
  <1>5. QED
    BY <1>1, <1>2, <1>4, BlockSound

LEMMA UndelegateSound ==
  ASSUME Sound(app), NEW d \in Delegation, Undelegate(d)
  PROVE  Sound(app')
  <1> DEFINE r == Leave(Now, d, "unbonding")
  <1>1. Block(r) /\ app.height < MaxHeight /\ d \in app.del
    BY DEF Undelegate, MayLeave, Block
  <1>2. /\ Right(Now, Now.del) /\ Dated(Now) /\ Now.del = app.del /\ Room(Now)
        /\ Now.power \cap Now.jailed = {}
    BY <1>1, NowRight
  <1>3. Now.period[d.validator] < MaxPeriod
    BY <1>1, <1>2, LeaveRoom
  <1> HIDE DEF r
  <1>4. /\ Right(r, r.del) /\ Dated(r)
        /\ r.power = Now.power /\ r.jailed = Now.jailed
    BY <1>1, <1>2, <1>3, LeaveRight DEF r
  <1>5. QED
    BY <1>1, <1>2, <1>4, BlockSound

LEMMA RedelegateSound ==
  ASSUME Sound(app), NEW d \in Delegation, NEW e \in Delegation, Redelegate(d, e)
  PROVE  Sound(app')
  <1> DEFINE t == Leave(Now, d, "redelegation")
             r == Join(t, e)
  <1>1. /\ Block(r) /\ app.height < MaxHeight /\ d \in app.del /\ e \notin app.del
    BY DEF Redelegate, MayLeave, Block
  <1>2. /\ Right(Now, Now.del) /\ Dated(Now) /\ Now.del = app.del /\ Room(Now)
        /\ Now.power \cap Now.jailed = {}
    BY <1>1, NowRight
  <1>3. Now.period[d.validator] < MaxPeriod
    BY <1>1, <1>2, LeaveRoom
  <1> HIDE DEF t
  <1>4. /\ Right(t, t.del) /\ Dated(t) /\ t.del = Now.del \ {d}
        /\ t.power = Now.power /\ t.jailed = Now.jailed
    BY <1>1, <1>2, <1>3, LeaveRight DEF t
  <1>5. t.period[e.validator] < MaxPeriod
    BY <1>1, <1>4, JoinRoom
  <1>6. e \in Delegation \ t.del
    BY <1>1, <1>2, <1>4
  <1> HIDE DEF r
  <1>7. /\ Right(r, r.del) /\ Dated(r)
        /\ r.power = t.power /\ r.jailed = t.jailed
    BY <1>4, <1>5, <1>6, JoinRight DEF r
  <1>8. QED
    BY <1>1, <1>2, <1>4, <1>7, BlockSound

LEMMA SlashSound ==
  ASSUME Sound(app), NEW v \in Validator, Slash(v)
  PROVE  Sound(app')
  <1> DEFINE s == IncrementPeriod(Now, v)
             r == Slashing(s, v, s.period[v] - 1)
  <1>1. Block(r) /\ app.height < MaxHeight
    <2>1. Block(r)
      BY DEF Slash, Slashing
    <2>2. QED
      BY <2>1 DEF Block
  <1>2. /\ Right(Now, Now.del) /\ Dated(Now) /\ Now.del = app.del
        /\ Now.power \cap Now.jailed = {}
    BY <1>1, NowRight
  <1>3. Now.period[v] < MaxPeriod
    <2>0. Now \in Books /\ Now.del \in SUBSET Delegation /\ Now.period[v] \in Int
      BY <1>2, RightFacts
    <2>1. r.period[v] = Now.period[v] + 1 /\ r.del = Now.del
      BY <2>0 DEF Slashing, IncrementPeriod, Books
    <2>2. r.period[v] <= MaxPeriod - Cardinality(DelegationsTo(r, v))
      BY <1>1 DEF Block
    <2> HIDE DEF r
    <2>3. DelegationsTo(r, v) = Of(Now.del, v)
      BY <2>1 DEF DelegationsTo, Of
    <2>4. Cardinality(Of(Now.del, v)) \in Nat
      BY <2>0, DelegationSets
    <2>5. QED
      BY <2>0, <2>1, <2>2, <2>3, <2>4, ExportFacts
  <1>4. /\ Kept(s, Now) /\ s.period[v] = Now.period[v] + 1
        /\ Now.period[v] \in Int /\ 1 <= Now.period[v]
    BY <1>2, <1>3, RightFacts, IncrementFields
  <1>5. Right(s, Now.del)
    BY <1>2, <1>3, IncrementRight
  <1> HIDE DEF s
  <1>6. /\ Right(s, s.del) /\ Dated(s) /\ s.power \cap s.jailed = {}
    BY <1>2, <1>4, <1>5, KeptDated DEF Kept
  <1>7. Cardinality(Slashed(s, v, s.period[v] - 1)) = 0
    <2>1. s.period[v] - 1 = Now.period[v] /\ s.slashes = Now.slashes
      BY <1>4 DEF Kept
    <2>2. Cardinality(Slashed(Now, v, Now.period[v])) = 0
      BY <1>2, NoReferences
    <2>3. Slashed(s, v, s.period[v] - 1) = Slashed(Now, v, Now.period[v])
      BY <2>1 DEF Slashed
    <2>4. QED
      BY <2>2, <2>3
  <1> HIDE DEF r
  <1>8. /\ Right(r, r.del) /\ Dated(r) /\ r.power \cap r.jailed = {}
    BY <1>6, <1>7, SlashingRight DEF r
  <1>9. QED
    BY <1>1, <1>8, BlockSound

LEMMA UnjailSound ==
  ASSUME Sound(app), NEW v \in Validator, Unjail(v)
  PROVE  Sound(app')
  <1> DEFINE r == [Now EXCEPT !.jailed = @ \ {v}, !.power = @ \cup {v},
                              !.infoStart[v] = app.height + 1]
  <1>1. Block(r) /\ app.height < MaxHeight
    BY DEF Unjail, Block
  <1>2. /\ Right(Now, Now.del) /\ Dated(Now) /\ Now.height = app.height + 1
        /\ Now.power \cap Now.jailed = {}
    BY <1>1, NowRight
  <1> HIDE DEF r
  <1>3. Right(r, r.del) /\ Dated(r) /\ r.power \cap r.jailed = {}
    BY <1>2, UnjailRight DEF r
  <1>4. QED
    BY <1>1, <1>3, BlockSound

LEMMA ExportAsIsSound ==
  ASSUME Sound(app), ExportAsIs
  PROVE  Sound(app')
  <1>1. app' = Now /\ app.height < MaxHeight
    BY DEF ExportAsIs, Now
  <1>2. Sound(Now)
    BY <1>1, NowRight DEF Sound
  <1>3. QED
    BY <1>1, <1>2

(* An export leaves a sound state, or the one before; it panics on a       *)
(* jailed validator in the index only if there was a list.                 *)
LEMMA ZeroHeightSound ==
  ASSUME Sound(app), NEW list \in SUBSET (Validator \cup {BadAddr}), NEW refused,
         ExportForZeroHeight(list, refused)
  PROVE  Sound(app') /\ PanicsWithListOnly'
  <1> DEFINE s == Prepared(app, list, refused)
             panic == BadAddr \in list \/ ApplyPanics(s)
  <1>1. /\ app' = IF panic THEN app ELSE s
        /\ outcome' = [list |-> list # {}, panic |-> panic]
    BY DEF ExportForZeroHeight
  <1>2. /\ Right(s, s.del) /\ Room(s) /\ Dated(s)
        /\ s.power = app.power /\ s.jailed = app.jailed \cup Others(list)
    BY PreparedRight
  <1> HIDE DEF s
  <1>3. CASE panic
    <2>1. list # {}
      <3>1. CASE list = {}
        <4>1. s.jailed = app.jailed
          BY <1>2, <3>1 DEF Others
        <4>2. ~ApplyPanics(s)
          BY <1>2, <4>1 DEF ApplyPanics, Sound
        <4>3. QED
          BY <1>3, <3>1, <4>2
      <3>2. QED
        BY <3>1
    <2>2. QED
      BY <1>1, <1>3, <2>1 DEF PanicsWithListOnly
  <1>4. CASE ~panic
    <2>1. Sound(s)
      BY <1>2, <1>4 DEF Sound, ApplyPanics
    <2>2. QED
      BY <1>1, <1>4, <2>1 DEF PanicsWithListOnly
  <1>5. QED
    BY <1>3, <1>4

LEMMA InitSound ==
  ASSUME ExportInit
  PROVE  Sound(app) /\ PanicsWithListOnly
  <1>1. Empty \in Books
    <2>1. 0 \in Height /\ 0 \in Period
      BY ExportFacts DEF Height, Period
    <2>2. /\ Zero(Validator) \in [Validator -> Height]
          /\ Zero(Validator) \in [Validator -> Period]
          /\ Zero(Validator) \in [Validator -> Nat]
          /\ Zero(Validator) \in [Validator -> Int]
          /\ Zero(Delegation) \in [Delegation -> Nat]
          /\ [v \in Validator |-> Zero(0..MaxPeriod)] \in [Validator -> [Period -> Int]]
      BY <2>1 DEF Zero, Period
    <2>3. [d \in Delegation |-> [period |-> 0, height |-> 0]] \in [Delegation -> StartingInfo]
      BY <2>1 DEF StartingInfo
    <2>4. SelfDelegation \in SUBSET Delegation
      BY ExportAssumption
    <2>5. QED
      BY <2>1, <2>2, <2>3, <2>4 DEF Empty, Books
  <1>2. /\ Empty.slashes = {} /\ Empty.pool = 0 /\ Empty.bank = 0 /\ Empty.height = 0
        /\ Empty.outstanding = Zero(Validator) /\ Empty.leaving = {}
        /\ Empty.unbondingHeight = Zero(Validator) /\ Empty.infoStart = Zero(Validator)
        /\ Empty.refs = [v \in Validator |-> Zero(0..MaxPeriod)]
        /\ Empty.del = SelfDelegation /\ Empty.jailed = {}
    BY DEF Empty
  <1>3. Renewed(Empty, Empty, {})
    <2>1. \A v \in Validator : /\ Empty.outstanding[v] >= 0
                               /\ \A p \in Period : Empty.refs[v][p] = 0
      BY <1>2 DEF Zero, Period
    <2>2. Sum(Empty.outstanding, Validator) = 0
      <3>1. \A v \in Validator : Empty.outstanding[v] = 0
        BY <1>2 DEF Zero
      <3>2. QED
        BY <3>1, SumZero, ExportFacts
    <2>3. QED
      BY <1>2, <2>1, <2>2 DEF Renewed, Kept, Holdings
  <1>4. /\ Right(app, Empty.del) /\ Kept(app, Empty)
        /\ \A v \in Validator : app.period[v] = 1 + Cardinality(Of(Empty.del, v))
    BY <1>1, <1>3, AllRenewed DEF ExportInit
  <1>5. Dated(app)
    <2>1. Dated(Empty)
      BY <1>2 DEF Dated, Zero
    <2>2. QED
      BY <1>4, <2>1, KeptDated
  <1>6. app.del = Empty.del /\ app.jailed = {}
    BY <1>2, <1>4 DEF Kept
  <1>7. Room(app)
    <2>1. ASSUME NEW v \in Validator
          PROVE  app.period[v] + Cardinality(Of(app.del, v)) <= MaxPeriod
      <3>1. app.del \in SUBSET Delegation /\ app.del \in SUBSET Delegation
        BY <1>1, <1>6, BooksFields
      <3>2. /\ Cardinality(Of(app.del, v)) <= Cardinality(Of(Delegation, v))
            /\ Cardinality(Of(app.del, v)) \in Nat /\ Cardinality(Of(Delegation, v)) \in Nat
        BY <3>1, OfSubset
      <3>3. 1 + 2 * Cardinality(Of(Delegation, v)) <= MaxPeriod /\ MaxPeriod \in Nat
        BY ExportFacts
      <3>4. QED
        BY <1>4, <1>6, <3>2, <3>3
    <2>2. QED
      BY <2>1 DEF Room
  <1>8. PanicsWithListOnly
    BY DEF ExportInit, PanicsWithListOnly
  <1>9. QED
    BY <1>4, <1>5, <1>6, <1>7, <1>8 DEF Sound

ExportInv == Sound(app) /\ PanicsWithListOnly

LEMMA NextExportInv ==
  ASSUME ExportInv, [ExportNext]_exportVars
  PROVE  ExportInv'
  <1>0. Sound(app) /\ PanicsWithListOnly
    BY DEF ExportInv
  <1>1. CASE UNCHANGED exportVars
    BY <1>0, <1>1 DEF exportVars, ExportInv, PanicsWithListOnly
  <1>2. ASSUME NEW list \in SUBSET (Validator \cup {BadAddr}), NEW refused,
               ExportForZeroHeight(list, refused)
        PROVE  ExportInv'
    BY <1>0, <1>2, ZeroHeightSound DEF ExportInv
  <1>3. CASE ExportAsIs
    <2>1. PanicsWithListOnly'
      BY <1>3 DEF ExportAsIs, PanicsWithListOnly
    <2>2. QED
      BY <1>0, <1>3, <2>1, ExportAsIsSound DEF ExportInv
  <1>4. ASSUME NEW s, Block(s)
        PROVE  PanicsWithListOnly'
    BY <1>0, <1>4 DEF Block, PanicsWithListOnly
  <1>5. ASSUME NEW v \in Validator, Allocate(v) \/ Slash(v) \/ Unjail(v)
        PROVE  ExportInv'
    <2>1. PanicsWithListOnly'
      BY <1>4, <1>5 DEF Allocate, Slash, Unjail
    <2>2. QED
      BY <1>0, <1>5, <2>1, AllocateSound, SlashSound, UnjailSound DEF ExportInv
  <1>6. ASSUME NEW d \in Delegation, Delegate(d) \/ Undelegate(d)
        PROVE  ExportInv'
    <2>1. PanicsWithListOnly'
      BY <1>4, <1>6 DEF Delegate, Undelegate
    <2>2. QED
      BY <1>0, <1>6, <2>1, DelegateSound, UndelegateSound DEF ExportInv
  <1>7. ASSUME NEW d \in Delegation, NEW e \in Delegation, Redelegate(d, e)
        PROVE  ExportInv'
    <2>1. PanicsWithListOnly'
      BY <1>4, <1>7 DEF Redelegate
    <2>2. QED
      BY <1>0, <1>7, <2>1, RedelegateSound DEF ExportInv
  <1>8. QED
    BY <1>1, <1>2, <1>3, <1>5, <1>6, <1>7 DEF ExportNext

LEMMA AlwaysExportInv == Spec => []ExportInv
  <1>1. Init => ExportInv
    BY InitSound DEF Init, ExportInv
  <1>2. ExportInv /\ [Next]_<<command, exportVars, multiNodeVars, inPlaceVars>> => ExportInv'
    <2> SUFFICES ASSUME ExportInv, [Next]_<<command, exportVars, multiNodeVars, inPlaceVars>>
                 PROVE  ExportInv'
      OBVIOUS
    <2>1. [ExportNext]_exportVars
      BY DEF Next, Export, MultiNode, InPlace
    <2>2. QED
      BY <2>1, NextExportInv
  <1>3. QED
    BY <1>1, <1>2, PTL DEF Spec

(* The distribution module holds exactly what is outstanding and the       *)
(* community pool, after any blocks and any exports, whichever payments    *)
(* the bank refused on the way (prepForZeroHeightGenesis).                 *)
THEOREM ExportHoldingsMatch == Spec => []HoldingsMatch
  <1>1. ExportInv => HoldingsMatch
    <2> SUFFICES ASSUME ExportInv
                 PROVE  HoldingsMatch
      OBVIOUS
    <2>1. Holdings(app) /\ app \in Books
      BY DEF ExportInv, Sound, Right
    <2>2. SumFunction(app.outstanding) = Sum(app.outstanding, Validator)
      BY <2>1, BooksFields DEF SumFunction, Sum
    <2>3. QED
      BY <2>1, <2>2 DEF Holdings, HoldingsMatch
  <1>2. QED
    BY <1>1, AlwaysExportInv, PTL

(* What the delegations and a validator would get is covered by what is    *)
(* outstanding for it, on every chain an export starts                     *)
(* (prepForZeroHeightGenesis).                                             *)
THEOREM ExportClaimsCovered == Spec => []ClaimsCovered
  <1>1. ExportInv => ClaimsCovered
    <2> SUFFICES ASSUME ExportInv
                 PROVE  ClaimsCovered
      OBVIOUS
    <2>1. \A v : DelegationsTo(app, v) = Of(app.del, v)
      BY DEF DelegationsTo, Of
    <2>2. Covered(app, app.del)
      BY DEF ExportInv, Sound, Right
    <2>3. QED
      BY <2>1, <2>2 DEF Covered, Claimed, Sum, ClaimsCovered
  <1>2. QED
    BY <1>1, AlwaysExportInv, PTL

(* No count and no coins are below zero.                                   *)
LEMMA SoundState ==
  ASSUME Sound(app)
  PROVE  app \in State
  <1>0. Right(app, app.del) /\ app \in Books /\ app.del \in SUBSET Delegation
    BY RightFacts DEF Sound
  <1>1. ASSUME NEW v \in Validator, NEW p \in Period
        PROVE  app.refs[v][p] \in Nat
    <2>1. app.refs[v][p] = References(app, app.del, v, p)
      BY <1>0 DEF Right, Counted
    <2>2. PICK m \in Nat, n \in Nat : /\ m = Cardinality(Starters(app, app.del, v, p))
                                      /\ n = Cardinality(Slashed(app, v, p))
      BY <1>0, DelegationSets, SlashSets
    <2>3. References(app, app.del, v, p) = (IF p = app.period[v] - 1 THEN 1 ELSE 0) + m + n
      BY <2>2 DEF References
    <2>4. QED
      BY <2>1, <2>3
  <1>2. app.refs \in [Validator -> [Period -> Nat]]
    <2>1. app.refs \in [Validator -> [Period -> Int]]
      BY <1>0, BooksFields
    <2>2. QED
      BY <1>1, <2>1
  <1>3. Sum(app.outstanding, Validator) \in Nat /\ app.outstanding \in [Validator -> Nat]
    <2>1. ASSUME NEW v \in Validator
          PROVE  app.outstanding[v] \in Nat
      <3>1. Claimed(app, app.del, v) <= app.outstanding[v]
        BY <1>0 DEF Right, Covered
      <3>2. Sum(app.owed, Of(app.del, v)) \in Nat
        <4>1. \A d \in Of(app.del, v) : app.owed[d] \in Nat
          BY <1>0, RightFacts DEF Of
        <4>2. IsFiniteSet(Of(app.del, v))
          BY <1>0, DelegationSets
        <4>3. QED
          BY <4>1, <4>2, SumNat
      <3>3. app.commission[v] \in Nat /\ app.outstanding[v] \in Int
        BY <1>0, RightFacts
      <3>4. QED
        BY <3>1, <3>2, <3>3 DEF Claimed
    <2>2. app.outstanding \in [Validator -> Int]
      BY <1>0, BooksFields
    <2>3. QED
      BY <2>1, <2>2, SumNat, ExportFacts
  <1>4. app.pool \in Nat /\ app.bank \in Nat
    <2>1. app.pool \in Int /\ app.pool >= 0
      BY <1>0, BooksFields DEF Right
    <2>2. app.bank = Sum(app.outstanding, Validator) + app.pool
      BY <1>0 DEF Right, Holdings
    <2>3. QED
      BY <1>3, <2>1, <2>2
  <1>5. QED
    BY <1>0, <1>2, <1>3, <1>4
       DEF Books, State, Height, Period, StartingInfo, Departure, SlashEvent

(* Every ended period has as many references as its record says, and no    *)
(* count and no coins fall below zero, in any order of delegations,        *)
(* slashes and exports (prepForZeroHeightGenesis and the hooks it calls).  *)
THEOREM ExportReferencesCounted == Spec => []ReferencesCounted
  <1>1. ExportInv => ReferencesCounted
    <2> SUFFICES ASSUME ExportInv
                 PROVE  ReferencesCounted
      OBVIOUS
    <2>1. app \in State
      BY SoundState DEF ExportInv
    <2>2. ASSUME NEW v \in Validator, NEW p \in Period
          PROVE  app.refs[v][p] =
                   (IF p = app.period[v] - 1 THEN 1 ELSE 0)
                   + Cardinality({d \in DelegationsTo(app, v) : app.start[d].period = p})
                   + Cardinality({e \in app.slashes : e.v = v /\ e.period = p})
      <3>1. app.refs[v][p] = References(app, app.del, v, p)
        BY DEF ExportInv, Sound, Right, Counted
      <3>2. Starters(app, app.del, v, p) = {d \in DelegationsTo(app, v) : app.start[d].period = p}
        BY DEF Starters, DelegationsTo
      <3>3. QED
        BY <3>1, <3>2 DEF References, Slashed
    <2>3. QED
      BY <2>1, <2>2 DEF ReferencesCounted, Period
  <1>2. QED
    BY <1>1, AlwaysExportInv, PTL

(* No record of the state is dated ahead of its chain, whether an export   *)
(* was for height zero or not (prepForZeroHeightGenesis, the loops that    *)
(* reset heights).                                                         *)
THEOREM ExportNoFutureHeight == Spec => []NoFutureHeight
  <1>1. ExportInv => NoFutureHeight
    BY DEF ExportInv, Sound, Right, Dated, StartsBefore, NoFutureHeight
  <1>2. QED
    BY <1>1, AlwaysExportInv, PTL

(* An export without a list of addresses never panics, whoever is jailed   *)
(* (ExportAppStateAndValidators, prepForZeroHeightGenesis).                *)
THEOREM ExportPanicsWithListOnly == Spec => []PanicsWithListOnly
  <1>1. ExportInv => PanicsWithListOnly
    BY DEF ExportInv
  <1>2. QED
    BY <1>1, AlwaysExportInv, PTL
=============================================================================
