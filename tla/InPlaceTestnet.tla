--------------------------- MODULE InPlaceTestnet ---------------------------
(***************************************************************************)
(* feicoind in-place-testnet (testnet.go), in the life of a stopped        *)
(* mainnet node: the command replaces the validators of the application by *)
(* one of its own, funds accounts and starts the node, whose CometBFT      *)
(* state then has that validator only.                                     *)
(*                                                                         *)
(* The command writes to the store without committing it: that is left to  *)
(* the first block.  CometBFT's state is on disk before that.  Blocks, the *)
(* node's start and its end are external: what the staking, distribution   *)
(* and slashing modules look up in a block, and where they fail if it is   *)
(* not there.  All validators fit in the active set.                       *)
(***************************************************************************)
EXTENDS Integers, Sequences, Functions, FiniteSets, SequencesExt

CONSTANTS
  Operator,   \* operator addresses, the first argument
  MainnetKey, \* the consensus key of each, on the mainnet
  NewKey,     \* one more
  Account,    \* addresses that may be funded
  Lists,      \* values of --accounts-to-fund, cut at commas
  NoText,     \* the text without characters
  Nobody,     \* no operator
  MaxCommands \* bound: commands that succeed

ASSUME InPlaceAssumption ==
  /\ Operator # {} /\ IsFiniteSet(Account)
  /\ MainnetKey \in [Operator -> Range(MainnetKey)]
  /\ IsInjective(MainnetKey) /\ NewKey \notin Range(MainnetKey)
  /\ \A list \in Lists : list \in Seq(Range(list))
  /\ Nobody \notin Operator /\ NoText \notin Account
  /\ MaxCommands \in Nat

Key == Range(MainnetKey) \cup {NewKey}

(* The state of the application: the staking module's validators, by       *)
(* operator and by consensus key, its indexes and queue, and the signing   *)
(* infos; coins in units of a funding.                                     *)
VARIABLES
  chain,    \* the state the running node works on
  disk,     \* the state of the last commit
  comet,    \* CometBFT's validators
  node,     \* "stopped", "running", "halted" by a block that fails
  lost,     \* history: the node ended before the new validator was committed
  commands  \* commands that have succeeded

inPlaceVars == <<chain, disk, comet, node, lost, commands>>

-----------------------------------------------------------------------------
(* initAppForTestnet.                                                      *)

(* Mutant of RemoveValidators: the unbonding queue stays.                  *)
KeepQueue(s) ==
  [s EXCEPT !.power = {}, !.last = {}, !.status = [o \in Operator |-> "none"],
            !.jailed = {}]

(* Four loops, over the index by power, the last validators, the           *)
(* validators and the unbonding queue.  Keys and signing infos stay.       *)
RemoveValidators(s) ==
  [s EXCEPT !.power = {}, !.last = {}, !.status = [o \in Operator |-> "none"],
            !.jailed = {}, !.queue = {}]

AddValidator(s, o, key) ==
  [s EXCEPT !.status[o] = "bonded", !.key[o] = key,
            !.owner[key] = o,
            !.power = @ \cup {o},
            !.last = @ \cup {o},
            !.infos = @ \cup {key}]

(* Mutant of Fund: what is no address is passed over.                      *)
FundAddresses(s, text) ==
  LET minted == [s EXCEPT !.supply = @ + 1]
  IN  IF text \in Account THEN [minted EXCEPT !.balance[text] = @ + 1] ELSE minted

(* Coins are minted before it is known whether the text is an address of   *)
(* an account that may receive them.                                       *)
Fund(s, text) ==
  LET minted == [s EXCEPT !.supply = @ + 1]
  IN  IF s.exit THEN s
      ELSE IF text \in Account THEN [minted EXCEPT !.balance[text] = @ + 1]
      ELSE [minted EXCEPT !.exit = TRUE]

InitAppForTestnet(s, o, key, accounts) ==
  IF o \notin Operator THEN [s EXCEPT !.exit = TRUE]
  ELSE FoldLeft(Fund, AddValidator(RemoveValidators(s), o, key), accounts)

(* getCommandArgs: a flag that is not given is one empty text.             *)
AccountsToFund(list) == IF list = << >> THEN <<NoText>> ELSE list

(* History: what those who ran the command have asked for.                 *)
Asked(s, accounts) ==
  [s EXCEPT !.asked = [a \in Account |-> @[a] + Cardinality({i \in DOMAIN accounts : accounts[i] = a})]]

(* The command; it exits at the first error, also of its arguments         *)
(* (badArgs), and nothing of what it has written is kept.                  *)
InPlaceTestnet(o, key, list, badArgs) ==
  LET accounts == AccountsToFund(list)
      s == InitAppForTestnet(disk, o, key, accounts)
  IN  /\ node = "stopped"
      /\ commands < MaxCommands
      /\ IF badArgs \/ s.exit
         THEN UNCHANGED inPlaceVars
         ELSE /\ chain' = Asked(s, accounts)
              /\ comet' = {key}
              /\ node' = "running"
              /\ lost' = FALSE
              /\ commands' = commands + 1
              /\ UNCHANGED disk

-----------------------------------------------------------------------------
(* Blocks.                                                                 *)

Exists(s, o) == o \in Operator /\ s.status[o] # "none"

(* Distribution and slashing look up who has signed the last block.        *)
BeginBlockFails(s) ==
  \E k \in comet : ~Exists(s, s.owner[k]) \/ k \notin s.infos

(* Staking looks up those of the index, which must not be jailed, those    *)
(* that are no longer in it, and those whose unbonding is over; CometBFT   *)
(* refuses an empty set.                                                   *)
EndBlockFails(s, mature) ==
  \/ \E o \in s.power : ~Exists(s, o) \/ o \in s.jailed
  \/ \E o \in (s.last \ s.power) \cup mature : ~Exists(s, o)
  \/ s.power = {}

EndBlock(s, mature) ==
  LET leaving == s.last \ s.power
  IN  [s EXCEPT !.last = s.power,
                !.status = [o \in Operator |-> IF o \in s.power THEN "bonded"
                                               ELSE IF o \in leaving THEN "unbonding"
                                               ELSE IF o \in mature THEN "unbonded" ELSE @[o]],
                !.queue = (@ \cup leaving) \ mature]

(* A block whose transactions have led to the state s.                     *)
NextBlock(s, mature) ==
  /\ node = "running"
  /\ IF BeginBlockFails(chain) \/ EndBlockFails(s, mature)
     THEN node' = "halted" /\ UNCHANGED <<chain, disk, comet>>
     ELSE /\ chain' = EndBlock(s, mature)
          /\ disk' = chain'
          /\ comet' = (comet \cup {s.key[o] : o \in s.power})
                        \ {s.key[o] : o \in s.last \ s.power}
          /\ UNCHANGED node
  /\ UNCHANGED <<lost, commands>>

(* A validator has missed too many blocks, another one goes on.            *)
Jailed(o) == [chain EXCEPT !.power = @ \ {o}, !.jailed = @ \cup {o}]

(* An operator creates a validator with its key of the mainnet.            *)
Joined(o) ==
  LET k == MainnetKey[o]
  IN  [chain EXCEPT !.status[o] = "unbonded", !.key[o] = k, !.owner[k] = o,
                    !.power = @ \cup {o}, !.infos = @ \cup {k}]

MayJoin(o) == ~Exists(chain, o) /\ ~Exists(chain, chain.owner[MainnetKey[o]])

TxBlock(mature) ==
  \/ NextBlock(chain, mature)
  \/ \E o \in chain.power : chain.power # {o} /\ NextBlock(Jailed(o), mature)
  \/ \E o \in Operator : MayJoin(o) /\ NextBlock(Joined(o), mature)

(* The node ends, or is killed; what is not committed is gone.             *)
Kill ==
  /\ node # "stopped"
  /\ node' = "stopped"
  /\ lost' = (lost \/ chain # disk)
  /\ chain' = disk
  /\ UNCHANGED <<disk, comet, commands>>

(* feicoind start                                                          *)
StartNode ==
  /\ node = "stopped"
  /\ node' = "running"
  /\ UNCHANGED <<chain, disk, comet, lost, commands>>

-----------------------------------------------------------------------------
(* The mainnet starts with one validator.                                  *)
Genesis(o) ==
  LET k == MainnetKey[o]
  IN  [status |-> [q \in Operator |-> IF q = o THEN "bonded" ELSE "none"],
       jailed |-> {}, key |-> MainnetKey,
       owner |-> [q \in Key |-> IF q = k THEN o ELSE Nobody],
       power |-> {o}, last |-> {o}, queue |-> {}, infos |-> {k},
       supply |-> 0, balance |-> [a \in Account |-> 0], asked |-> [a \in Account |-> 0],
       exit |-> FALSE]

InPlaceInit ==
  /\ \E o \in {CHOOSE o \in Operator : TRUE} :
       chain = Genesis(o) /\ comet = {MainnetKey[o]}
  /\ disk = chain
  /\ node = "stopped"
  /\ lost = FALSE
  /\ commands = 0

InPlaceNext ==
  \/ \E o \in Operator \cup {NoText}, key \in Key, list \in Lists, badArgs \in BOOLEAN :
       InPlaceTestnet(o, key, list, badArgs)
  \/ \E mature \in SUBSET chain.queue : TxBlock(mature)
  \/ Kill \/ StartNode

InPlaceSpec == InPlaceInit /\ [][InPlaceNext]_inPlaceVars

-----------------------------------------------------------------------------
(* A testnet goes on: whatever the mainnet's validators were doing, and    *)
(* whichever operator and key are taken over, no block fails for want of a *)
(* record.  The only node that halts is one that was ended before its      *)
(* first block and then started without the command: CometBFT has the new  *)
(* validator already, the application the old ones.                        *)
BlocksGoOn == node = "halted" => lost

(* The committed coins are those that committed runs of the command were   *)
(* asked for, each account's and all of them together: a run that ended in *)
(* the middle of its list has left nothing.                                *)
FundedAsAsked ==
  /\ disk.balance = disk.asked
  /\ disk.supply = SumFunction(disk.balance)
=============================================================================
