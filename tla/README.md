# feicoin in TLA+

feicoin is a Cosmos SDK chain with one module of its own (`x/feicoin`), a Node
HTTP server that turns requests into `feicoind` command lines
(`wallet-manager.js`), and a single-page explorer and wallet
(`blockchain-explorer.html`). This directory holds TLA+ models of the parts of
the system that carry its own logic, TLC configurations that check them on
small instances, and proofs checked by TLAPS for all values of the constants.

    tlc -workers 2 -config MCMintKeeper.cfg MCMintKeeper     # one run
    tlapm MintKeeperProofs.tla                               # one module of proofs

`PROJECT.json` lists the components, runs, mutants, findings, hazards, theorems
and, under `map`, the source lines each definition stands for.

## 1. The system

    explorer page --HTTP--> wallet-manager.js --child process--> feicoind CLI
        |                                                            |
        |  LCD / RPC queries                                broadcast_tx_sync
        +-----------------------------------> feicoind node <--------+
                                              mempool -> CometBFT -> app
                                                        MintTokens --child
                                                        process--> keyring

| Component | State | Operations | Hard behaviour |
|---|---|---|---|
| `x/feicoin/keeper` | params; through the bank: supply, balances | `MintTokens`, `UpdateParams`, `InitGenesis`; query `Params`, `ExportGenesis` read only | a handler that runs a child process; several messages that succeed or fail together; panics of `sdk.NewCoin`/`math.Int`; who may mint |
| `app` under CometBFT | one state per height and validator, optimistic execution | process proposal, finalize, restart | the outcome depends on a directory outside the state; an execution used later, or lost |
| `wallet-manager.js` | none in memory but pending callbacks; temporary files | POST handlers, each one or two child processes; GET lists | concurrent child processes sign with the same sequence; restarts; exit status 0 for rejected transactions; file names by millisecond |
| transaction listing (same file) | none | list, search | early stop, early return, sort and pagination |
| explorer: transfer form | button, a flow per click | `sendTransfer` with five exits | polls, timeouts, lost answers, balances that others change |
| explorer: batch withdrawal | the list of rewards, a counter | `withdrawAllRewards` | requests faster than blocks |
| explorer: mint forms | form visible, button, timers | `mintTokens`, `realMintTokens`, `show...` and `hide...` of both forms | timers that fire during the next mint |
| explorer: log panel | list of entries | `addLog`, `addTransferLog`, `addSuccessLog`, separators, `clearLogs` | insertion and trimming at different ends |
| explorer: rewards list | the global `allRewards` | `refreshRewards`, `withdrawSpecificReward` | overlapping refreshes of one global |
| explorer: transaction table | current page, rows | list, search, next, previous | replies out of order |
| explorer: automatic refresh, lists of wallets and validators | interval handle, last height, lists | `toggleAutoRefresh`, `monitorBlockchainEvents` | rounds that overlap |
| wire codec (`x/feicoin/types/*.pb.go`) | none between calls; an index into a byte slice | `Unmarshal`, `skip...`, `Size`, `Marshal` of nine messages | machine integers that overflow; unknown fields and groups; sizes computed twice |
| `app/export.go` | the staking, distribution and slashing stores | `prepForZeroHeightGenesis` | several passes, ignored errors |
| `cmd/feicoind/cmd/testnet*.go` | node directories, in-place state | `initTestnetFiles`, `initAppForTestnet` | failure in the middle |
| command wiring, IBC, module wiring, scripts | none of their own | | |

What makes each of them correct, and where it is stated:

- **keeper.** What the module adds to the supply is what its events announce, and
  never makes it pass `math.Int` (other modules of the app mint and burn the same
  denominations without such an event); only a key that was bob's authorizes a mint; a
  transaction mints all or nothing; coins sent to the module account are never
  passed on. (`MintKeeper`)
- **replicas.** Validators that execute the same blocks get the same outcome.
  This holds when all keyrings agree and fails when they do not; even then
  histories differ at their end only. (`ReplicatedMint`)
- **wallet server.** An error answer is true unless the node's reply was lost;
  one transaction per sequence; whatever is in the mempool will pass its
  sequence check; every request is answered, except one that makes a wallet
  under a name that exists and those a restart of the server cuts off; temporary
  files mix within one millisecond only, and one is left over only by a request
  that a restart or an exception has cut off before the file was removed.
  (`WalletServer`, `CreateValidator`)
- **listing.** Pages in order; the first page is the newest, and a search finds
  everything, of what the node's queries give and the server can parse; both are
  empty without the latest block. (`TxListing`)
- **explorer.** Flows never overlap, the button always comes back, messages and
  counts say what is true (not all of them do). (`TransferPage`, `WithdrawAll`,
  `MintForm` with `LogPanel`); the bar under the table of transactions belongs to
  what the table shows (`TxTable`); rewards are listed and withdrawn once unless
  refreshes overlap (`RewardsList`).
- **codec.** No index or slice is ever out of bounds, every call returns, what is
  accepted is what the wire format says, and what Marshal writes Unmarshal reads.
  (`WireDecoder`, `Messages`, `MessageEncoder`)
- **export.** A chain that starts from an export for height zero can pay what it
  owes, counts its reward periods right and refers to no height of the old
  chain. (`ZeroHeightExport`)
- **testnet.** A run that succeeds gives all nodes one genesis with the gentxs of
  that run only, whatever earlier runs have left (`TestnetInit`). A mainnet that is
  turned into a testnet goes on to make blocks, and funds exactly what was asked
  for (`InPlaceTestnet`).

## 2. The modules

### FeicoinState, MintKeeper, MintLedger (`x/feicoin/keeper`)

`FeicoinState` is the part of the store the module touches and the handlers as
functions from a state to a state. `MintSucceeds` has one conjunct per way
`MintTokens` can fail: `getBobAddress` fails, the authority is not bob's string,
the recipient does not decode, `sdk.NewCoin` panics, `MintCoins` overflows, the
recipient is blocked. The authority is compared as a *string* in `MintTokens`
and as *bytes* in `UpdateParams`; `Decode` and `Encode` keep the difference, so
a second spelling of bob's address signs for bob and is still refused.

`MintKeeper` executes transactions of up to `MaxMsgs` messages on a branch of
the store. `MintTokens` is two actions, `GetBobAddress` (the child process reads
the keyring) and `MintTokens` (the rest), and `ChangeKeyring` may come before,
between and after them. A failure or panic drops the branch (`FailTx`), the end
of the messages writes it (`CommitTx`). Gov proposals run the same way, signed
by the gov account only.

`OtherModules` is what the rest of the app does to the supply between those
transactions: `x/mint` inflates `stake` at the beginning of every block
(`app_config.go:118-120`), slashing and gov burn, IBC mints and burns vouchers, all
without a `token_minted` event. The history variable `others` adds it up, so that
`SupplyMatchesEvents` speaks of what is left: the coins of x/feicoin. `OnlyBobMints`
and `AllMintsOrNone` are about steps that are not another module's. These modules are
external: an account gains or loses coins, within the range of `math.Int` and never
below zero, and nobody burns coins of the feicoin module account.

`MintLedger` is what the module promises with transactions as single steps:
they only add to the supply, by as much as the events say, only if somebody was
appointed to mint, never past `MaxInt`; what the module account holds stays; and
the other modules add and burn coins without events. `MintKeeper`
implements it (`KeepsLedger`).

### ReplicatedMint (`app` with CometBFT)

Validators of equal power, each with its own keyring. A block has at most one
transaction (`None` for none) and carries the outcome of the height before it
in its header: the state stands for the app hash, the success of the
transaction for the last results hash. `ProcessProposal` checks the header,
executes ahead (`app.go` calls `SetOptimisticExecution`) and votes;
`FinalizeBlock` uses the execution ahead if it was of the same block, and
otherwise executes; a validator whose own outcome is not the header's stops.
`Restart` drops what was executed ahead. `ChangeKeyring` puts another key under
`bob` on one validator at any time; the history variable `agreed` stays true as
long as every keyring has had the same string. `AgreedOutcome` says what
follows from that, `DivergenceIsConfined` what holds without it.

### WalletServer, TxService, CreateValidator (`wallet-manager.js`)

`WalletServer` has, per request, the answer and the child process. `Receive` is
routing, the JSON body and the handlers' field checks; `Sign`, `Broadcast` and
`CommandFails` are what the command line does; `AnswerRequest` is the callback
of `exec`. `AddKey` is `keys add`: on an existing key it asks for a confirmation,
which an import answers with its mnemonic (no) and a new wallet never gets, as
nobody writes to the pipe (`WaitsForReply`). The keyring starts with any set of
keys. The node is a mempool with the sequence check of `CheckTx`, committed
sequences and balances. Command line and node are external: they are modelled
from how the server uses them (`--yes`, the default broadcast mode, the exit
status). Exit status 0 says that the node replied, not that it accepted.
`TxService` is the abstract service: a refused request is never executed, any
other at most once and as a whole, whatever is answered and when.

`CreateValidator` is `handleCreateValidator`: two child processes with a
temporary file between them that is named by the clock. `clock` is the
millisecond clock; two callbacks between two ticks share a name. `OnShown` has the
catch block, which answers without removing a file, also when the file has been
written and `exec` throws. `RestartServer` loses the requests and callbacks that are
at work, while a second child process that runs goes on (`"orphan"`) and reads
its file; a restart takes longer than a millisecond. The history variable `cut`
has the requests whose file nobody will remove.

### TransferPage, WithdrawAll (`blockchain-explorer.html`)

Each extends `WalletServer` with a page; the compositions are `PageSpec` and
`BatchSpec`. `TransferPage` is `sendTransfer`:
`CheckBalance`, `OnAnswer`, `Poll` (up to `MaxAttempts`), `Verify` and the
ten-second `TimerFires`, any fetch of which may fail. `WithdrawAll` is
`withdrawAllRewards`: one request, one answer, one pause per entry. A
`ServerStep` is any step of `WalletServer`, restricted only so that a request
of the page is received while the page waits for its answer.

### MintForm, LogPanel (`blockchain-explorer.html`), TxListing (`wallet-manager.js`)

`TxListing` has `getTransactionsFromBlockchain` and
`searchTransactionsFromBlockchain` as operators and a `Reference` to compare
them with. A transaction is its height, its place in the block and what the
request tells apart; parsing is abstracted to `Kind`, which says whether it succeeds.
A block query fails or gives the first `BlockLimit` transactions of the block, and
without the latest block (`up`) the answer is empty, as the catch block makes it.
A search filters by type and by a query string, either of which it may lack
(`SearchFor`). Filters and the sort are joins of what each transaction or block gives.
`MintForm` has both mint forms: a click (`Post`, `RefuseClick`), the answer, the
three-second timer after a success, `Show` and `Cancel`. Each of the last three
enables the button whatever is under way, so mints of a form can overlap;
`OverlapsWereCut` says when. The answers of the server are arbitrary here. The
forms write to the log panel, whose functions are the operators of `LogPanel`;
`Others` is the rest of the page that writes to it.

### TxTable, RewardsList, ExplorerTabs (`blockchain-explorer.html`)

`TxTable` is the table of transactions: listings and searches in flight, the
search timer, the page number, and the bar with its two buttons. An answer of
any request, in any order, is shown when it arrives, as the page shows it;
requests may also fail. Of an answer only the number of its rows matters.
`RewardsList` has the arrays that `allRewards` has been, the refreshes that fill
the current one, wallet after wallet, and the loops of `withdrawAllRewards`,
each of which goes on with the array it has started with. `ExplorerTabs` is
the page opened at one of three tabs. The parts have no variable in common, so
behaviours of one of them at a time have every state of each.

### WireDecoder, Messages, MessageEncoder, WireFormat (`x/feicoin/types/*.pb.go`)

`WireDecoder` has the steps of an `Unmarshal` function and of a skip function, as
they are in every generated file: one byte of a varint, the tag, a length, the
contents, a group. An index is a machine integer (`Plus`, `AsInt`), of any width
(`MaxInt`), and an index or a slice out of bounds ends in `"panic"`. `Call` and
`Return` are the nested calls: `Params.Unmarshal` on a part of the slice, skip on
the rest of it. `Messages` has the fields of the nine messages, one action per
function, and a behaviour per call. `MessageEncoder` has `Size`, the buffer that
`MarshalToSizedBuffer` fills from its end, and `Marshal`. `WireFormat` is a
grammar of the format, written without the code, to compare what is decoded
with. `math.Int` is external: the texts it accepts are a constant.

### ZeroHeightExport (`app/export.go`)

`Prepared` is `prepForZeroHeightGenesis`, one operator per loop, over the records
it rewrites: reward periods and the references that keep them, starts of
delegations, slash events, heights, jailed flags and the index by power, and the
coins of the distribution module. The withdrawals whose errors the code drops
may fail for any set of validators and delegations (`refused`). Blocks of the old
chain and of the new one are external actions for what the staking,
distribution and slashing modules do with those records. An export takes any list
of addresses; a validator that is not on a non-empty list is jailed in its
record and stays in the index, so the export panics (`ApplyPanics`) unless every
validator in the index is listed.

### TestnetInit (`cmd/feicoind/cmd/testnet_multi_node.go`)

The multi-node command, run several times with one output directory: `InitNode`
per node, `SaveGenesis` (`initGenFiles`), `CopyGentxs`, `Collect`
(`collectGenFiles`), each of which may fail or be interrupted, leaving files torn.
`RemoveAll` is the failure of the three steps that remove the output directory.
A gentx is the node it is named after and the run whose account it pays from. A
genesis file has a time: none at first, one of its own when the gentxs have been
collected (`OwnGenesis`), and then the time of the run (`CanonicalGenesis`).

### InPlaceTestnet (`cmd/feicoind/cmd/testnet.go`), NodeCommands

`InPlaceTestnet` is the command in the life of a mainnet node that is stopped,
killed and started: `RemoveValidators` and `AddValidator` on the staking and
slashing records, `Fund` per account, each of which may end the process
(`handleErr`), arguments of the wrong kind. What it writes is in `chain` and
not on `disk` until the first block commits it, while CometBFT's validators
(`comet`) are on disk at once. Blocks, with an operator that joins with its
mainnet key or a validator that is jailed, are external: they say which records
a block looks up and on which missing ones it fails. `NodeCommands` is the choice
between this command, the multi-node command and an export; the three work on
different files, so one at a time is enough.

## 3. The runs

| Run | Shows | Bounds and why they are enough |
|---|---|---|
| `keeper` | the invariants and action properties of `MintKeeper`, and `KeepsLedger` | 2 messages: one that succeeds before one that fails; `MaxInt = 5` with a genesis supply of 2 and mints of up to 2, so that overflow happens within one transaction and over several; two accounts that may be bob; every reason to fail occurs; other modules pay alice a coin or burn one of hers, to one coin more or less than the genesis supply |
| `validators` | `AgreedOutcome`: with one keyring for all, equal outcomes and nobody stops; `DivergenceIsConfined` with keyrings that change freely | 4 validators of which 3 decide, so that one can be behind or different; 2 blocks: an outcome and a header that carries it; a keyring holds bob's key or none; symmetric in validators |
| `validators_diverge` | *violation* of `SameOutcome` | as above |
| `wallet_server` | `MempoolInSequence`, `OnePerSequence`, `ErrorsAreTrue`, `KeepsService`, `EveryRequestAnswered` | five requests: two transactions of bob (the transfer can be paid after the mint only), the import of his key, a wallet for a name that may exist, a refused request; every set of keys at the start |
| `create_validator` | `InterfereAtSameTimeOnly`, `FilesHaveRemover`, `EveryRequestAnswered` | three requests, three times: same name twice and once different, with up to two restarts of the server between; a failure at each place of both callbacks |
| `transfer_page` | `ButtonGuardsFlow`, `SuccessMeansSomethingSpent`, `ButtonComesBack` | two clicks and another client of the same account, two polls instead of 30: a poll that is the last and one that is not |
| `transfer_success_false` | *violation* of `SuccessIsConfirmed` | as above |
| `withdraw_all` | `CountedAreAccepted` | two rewards of alice and another client |
| `tx_listing` | `PageInOrder`, `FirstPageIsNewest` (also of a search) | 4 blocks of up to 2 transactions (three in all), one block or the latest one not to be had, a block query that gives one transaction, so that one of two is cut off, a search in a listing of two, window 1 (two blocks scanned), pages of 1 and 2: known blocks in and below the window, a scan that stops early and one that does not |
| `explorer_tabs` | `OverlapsWereCut`, `ButtonComesBack`, `PanelInOrder`; `BarLeadsOn`; `RewardsOnce` | two forms, three clicks: one that succeeds, one its timer cuts, one that overlaps; two showings; a panel of 2 entries instead of 100 and two entries from elsewhere, so that separators exceed the limit by more than one. Four requests of the table with pages of one row: two pages clicked before the first answer, a search between. Two wallets, three refreshes (two that overlap and one after them), two loops |
| `node_commands` | export: `HoldingsMatch`, `ClaimsCovered`, `ReferencesCounted`, `NoFutureHeight`, `PanicsWithListOnly`; multi-node: `OneGenesis`, `RetryWorks`; in place: `BlocksGoOn`, `FundedAsAsked` | two validators, a delegator of both beside their own; three blocks of each chain and one export in between, with every list and every set of refused payments: slashed, jailed, unbonding and redelegated before and after. Three runs of one to three nodes: fewer nodes than before, and as many, after a run that has ended anywhere. Three operators, their keys and a new one, two successful commands: one on a mainnet and one on its testnet, with any of the operators and keys, in any state of jailing and unbonding |
| `messages` | `NoPanic`, `DecodesFormat`, `RoundTrip`, `ComesCloser` | words of 11 bits: a varint of two bytes overflows them and a length can be negative or reach past the largest integer, as ten bytes do with 64 bits. All sequences of up to three of eleven bytes for every function; all sequences of up to three records of 25 kinds, 27 bytes at most, for the two messages of the transaction service; every encoding of contents with 0, 1, 127 and 128 bytes |

The violated properties are what the repository says of itself: the
determinism assertion of `app/sim_test.go`, the page's own messages, its
comments and its documentation. `findings` in `PROJECT.json` quotes each line
and says what the counterexample shows:

- two validators with different keys under `bob` execute the same mint with
  different outcomes;
- the transfer form announces a confirmed transfer when some other transaction
  has lowered the balance, or the balance could not be read.

More limits of the code are visible in the models:

- the batch withdrawal counts withdrawals that the node has rejected
  (`CountedAreAccepted` says which) and those that were accepted and failed when they
  were executed, also where it announces their number;
- a restart of the server, or an exception behind `writeFileSync`, leaves the temporary
  file of a request to create a validator for good (`cut` in `FilesHaveRemover`);
- a listing that could not get the latest block is an empty list with
  `success: true`, and what a block has beyond 100 transactions is never listed;
- a run of the multi-node command that ends between lines 441 and 463 leaves a final
  genesis file with a time of its own beside those of the other nodes (`OneGenesis`);
- the supply of a denomination cannot be followed from the `token_minted` events
  alone where other modules mint or burn it, as `x/mint` does with `stake`;
- a full log panel drops its newest entries when one is added at the other end,
  although its comments say it keeps them: the line of a successful mint is gone
  with the next one;
- the timer of a successful mint hides a form that is in use again;
- the transfer form shows the same command to repeat by hand whatever has failed,
  also when the transfer is executed later;
- the listing collects transactions for two pages at most, so later pages are
  short whatever the last 50 blocks hold;
- an export for height zero with a list of addresses panics unless all validators
  in the index by power are on it;
- after a run with more nodes whose gentxs were copied, a run of the multi-node
  command with fewer nodes fails on them (`RetryWorks`), and an early failure
  removes the directories of earlier testnets as well;
- `in-place-testnet` without `--accounts-to-fund` exits: the flag's empty text is cut
  into one empty address (testnet.go:224), so the command's default never works;
- a node that `in-place-testnet` has prepared and that ends before its first block
  halts when it is started again without the command (`lost` in `BlocksGoOn`);
- overlapping refreshes list rewards twice, and the loop then posts a withdrawal
  twice (`RewardsOnce` says that nothing else makes it do so);
- a page button clicked twice before an answer asks for the page after next; the
  last answer wins, whichever it is (`BarLeadsOn` says what remains true); the
  "next" button after a search leads to the second page of the unfiltered list;
- the decoders cut a field number to 32 bits, so a tag beyond them stands for a known
  field, and a group ends at the end tag of any number. An empty amount text
  keeps the amount that an earlier field of the message has set. All three are
  properties of the generator, and `WireFormat` states them.

Type invariants are checked where proofs rest on them or where they bound
arithmetic: `MintKeeper`, in `ReferencesCounted` of `ZeroHeightExport`, and, by
proof, `ReplicatedMint`, `WalletServer`, `Messages`, `CreateValidator`, `TransferPage`
and the parts of `ExplorerTabs`; the other modules give the values of their
variables where they declare them.

Runs that say `CHECK_DEADLOCK FALSE` are of systems that stop: the blocks, the
requests, the clicks or the runs of the instance are used up. `keeper` never
stops and is checked for deadlock, as is `messages`, where only a call that has
ended may stop (`Returned`).

### Fairness

- `WalletServer`: a child process makes steps until it ends, and the event loop
  then runs its callback. No fairness of restarts, of the node, or of clients.
- `CreateValidator`: the same, without the clock.
- `TransferPage`, `MintForm`: replies and timers arrive (a `fetch`
  resolves or rejects), on top of the server's fairness where it is modelled.
  The user need not click, and the node need not make blocks: the poll's limit
  ends the wait.
- `Messages` needs none: `ComesCloser` holds of the steps themselves.

## 4. The proofs

| Theorem | Module | Establishes |
|---|---|---|
| `TypeCorrect`, `SupplyIsEvents`, `ModuleKeepsItsCoins`, `MintsAreAuthorized`, `KeeperImplementsLedger` | `MintKeeperProofs` | the type invariant, `SupplyMatchesEvents`, `ModuleNeverSpends`, `OnlyBobMints`, and `KeepsLedger`, with any changes by other modules in between: the detailed keeper implements the abstract ledger |
| `ReplicasTypeCorrect`, `DivergenceStaysAtTheEnd` | `ReplicatedMintProofs` | `TypeOK` and `DivergenceIsConfined` for any number of validators and any keyrings |
| `MintsAllOrNone` | `MintKeeperProofs` | `AllMintsOrNone`: a transaction of any number of messages mints the sum of its mints' amounts or nothing |
| `SameKeyringSameOutcome` | `ReplicatedMintProofs` | `AgreedOutcome` for any number of validators: while all have had the same key they agree and nobody stops |
| `WalletTypeCorrect`, `MempoolStaysInSequence`, `OneExecutionPerSequence`, `ErrorsStayTrue`, `WalletImplementsService` | `WalletServerProofs` | the safety properties of the wallet server for any requests, and that it implements `TxService` |
| `CountedWithdrawalsAccepted` | `WalletServerProofs` | `CountedAreAccepted` of the batch withdrawal: a reward counted as withdrawn was accepted by the node, unless another accepted transaction of the delegator had its sequence or the node had forgotten its mempool |
| `DecodersDoNotPanic` | `MessagesProofs` | `NoPanic` for words of any width and arguments of any bytes, as long as an argument is no longer than the largest integer |
| `DecodersComeCloser` | `MessagesProofs` | `ComesCloser` for the same words and arguments: every step ends the call or makes its rank smaller, in an order without infinite descents |
| `RequestsInterfereAtSameTimeOnly`, `OnlyCutOffLeaveFiles` | `HandlerProofs` | `InterfereAtSameTimeOnly` and `FilesHaveRemover` for any number of requests, times and restarts of the server |
| `PagesInOrder`, `FirstPagesAreNewest` | `HandlerProofs` | `PageInOrder` and `FirstPageIsNewest` of the listing for any chain, window, limits (of a page, a search and a block query) and known blocks, any blocks that cannot be queried and any transactions that do not parse |
| `FlowsNeverOverlap`, `SuccessIsOfSomething` | `WalletServerProofs` | `ButtonGuardsFlow` and `SuccessMeansSomethingSpent` for any requests, clicks and polls, with all that `WalletServer` does in between |
| `MintsOverlapIfCut`, `PanelStaysInOrder`, `PagesLeadOn`, `RewardsCountOnce` | `ExplorerTabsProofs` | `OverlapsWereCut`, `PanelInOrder`, `BarLeadsOn` and `RewardsOnce` for any forms, panel size, pages, wallets and bounds |
| `ExportHoldingsMatch`, `ExportClaimsCovered`, `ExportReferencesCounted`, `ExportNoFutureHeight`, `ExportPanicsWithListOnly` | `NodeCommandsProofs` | the five invariants of the zero-height export for any finite sets of validators and delegations, any withdrawals that fail, and any number of exports with blocks in between |
| `TestnetHasOneGenesis`, `TestnetRetryWorks` | `NodeCommandsProofs` | `OneGenesis` and `RetryWorks` of the multi-node command for any number of nodes and runs, each of which may fail anywhere |
| `InPlaceBlocksGoOn`, `InPlaceFundedAsAsked` | `NodeCommandsProofs` | `BlocksGoOn` and `FundedAsAsked` of the in-place testnet for any operators, accounts and lists of accounts |

The assumptions are those the modules name (`AddressAssumption`,
`ModuleAssumption`, `NumberAssumption`, `KeeperAssumption`,
`ReplicationAssumption`, `WalletAssumption`, `WireAssumption`, `CallsAssumption`,
`CreateAssumption`, `ListingAssumption`, `RewardsAssumption`, `PageAssumption`, `PanelAssumption`,
`FormAssumption`, `TableAssumption`, `RewardsListAssumption`, `ExportAssumption`,
`TestnetAssumption`, `InPlaceAssumption`). The ones that carry weight: the
feicoin module account is not blocked (`app_config.go` does not list it) and
signs nothing; `Decode` inverts `Encode`; genesis supplies fit `math.Int`. In
`ExportAssumption` every validator has a delegation of its own operator, sets are
finite, and `MaxPeriod` leaves room for what an export itself does: a period when
a validator is created again and two for each of its delegations. `ListingAssumption` has
the heights known in advance falling, as the code lists them. The room for periods is
about the bound, not about the code, whose periods are 64 bits wide.

The arguments:

- **`MintKeeperProofs`.** `SupplyMatchesEvents` is not inductive: it speaks of
  the committed store, and the next store is the branch. `IInv` adds
  `BranchAhead` (what holds of the store holds of the branch, and the branch's
  module account never holds less than the store's), `Position` (where `pc` and
  `next` may be), `BobKnown` and `HandledByBob` (every mint already handled in
  this transaction named a key that has been bob's) and `Granted` (a branch
  whose supply has grown has an appointed minter). `OnlyBobMints` and
  `KeepsLedger` then follow from `IInv` and one step. For `AllMintsOrNone`,
  `BranchAheadBy` says by how much the branch is ahead of the store: by the sum of
  the amounts of the mints handled so far. `OthersStep` is what a change by another
  module does, and `SupplySteps` that any other step which changes the supply is a commit.
- **`ReplicatedMintProofs`.** `RInv` is `TypeOK` and `Prefix`: a validator has
  executed block `h + 1` only if the header of that block was its outcome of
  height `h`; two validators past a height therefore had one outcome there.
  For `AgreedOutcome`, `SInv` adds under `agreed` that whatever was executed ahead is what
  executing now would give, that outcomes of one height are equal, and that
  headers carry them.
- **`WalletServerProofs`.** `MempoolInSequence` and `OnePerSequence` speak of
  sequences only and are not inductive: a process that signed again would move
  a sequence in the mempool. `WInv` adds `Stages` (how far a request's answer
  and process may be apart), `Broadcasted` (what is in the mempool or executed
  comes from a process that has ended, with an error only if its reply was
  lost) and `Once` (a request is in the mempool once at most, and when it is
  executed it is not there and its sequence is used up). `BeforeTail` counts a
  sender's transactions when the head leaves the mempool. With `WInv` each step
  is a step of `TxService` or a stutter. For the batch withdrawal, `BatchInv` adds what
  exit status 0 means: no sequence below the mempool's is skipped (`NoneSkipped`), a
  process never signs above it (`SignedLow`), so a broadcast that the node did not
  accept met another transaction of its sequence (`ExitsExplained`), and only an
  answer that said ok was counted (`CountedOk`).
- **`MessagesProofs`.** `NoPanic` says nothing of the index. `IInv` relates it to the
  slice: within it at all times in `Unmarshal` (`UnmarshalWithin`), while in skip it
  may be anywhere after a fixed-size value or a length (`SkipWithin`), where the
  next step looks at its sign and every loop at the end of the slice before it
  reads; a suspended function will go on within its own slice (`Frame`), which
  is what the caller's check of what was skipped gives. `PlusChecks` is the arithmetic:
  a sum of two integers that overflows is negative, so one comparison with zero
  and one with the length are enough.

  `ComesCloser` is why every call returns: a rank that every step makes
  smaller. The rank has a pair of natural numbers for each function that runs or
  waits. Unmarshal has less left with every field, and within a field, which counts
  from its start, with every byte; skip has less left with every byte, and an index
  that has overflowed counts as the end because the next step refuses it. A call
  and a return change the rank at the caller: what the callee does is below it in
  the order. `Advanced` is why a caller goes on behind the start of its field: skip
  has read at least the tag when it returns. `Nested` bounds the rank to three
  pairs: `Params` is the only message in a message, and has no fields. That a step
  is possible until the call has ended is TLC's check for deadlocks.

- **`HandlerProofs`, creating a validator.** `IInv` adds who may have a name (`Stamped`), that a
  file has the name its writer gave it (`FilesOwned`) and that whoever has read a
  file had its writer's name (`ReadsStamped`). A file is then removed under
  another request only by one of the same time, and who is cut off has no callback
  left (`CutIsOver`), so that nobody else is charged with its file.
- **`HandlerProofs`, the listing.** The invariants are about what one answer computes, so the
  work is in the operators. Whatever is collected, sorted or filtered is a sequence of
  blocks that are joined (`FlattenSeq`); `JoinedInduction` is the rule for such joins,
  `BlocksDescend` says that blocks of falling heights join to falling transactions, and
  `AmongBlocks` and `AmongBoth` that a filter goes into the blocks. `ScanIs` describes a
  scan that has stopped: it has the blocks down to some height `g`, which is the last of the
  window or is where there was enough. The sorted transactions and `Reference` then agree
  on the blocks down to `g`, which are more than a page (`FirstPage`), because what the
  known blocks gave is less than one page of the two the scan waits for. A search
  filters a listing that has everything (`SearchFinds`). `NothingFound` is the case without
  the latest block.
- **`WalletServerProofs`, the transfer form.** `PageInv` adds `Spent`: from the first reading of a balance
  on, the sender's sequence has grown or its balance is no lower. `ServerMoves`
  shows it of every step of the server and the node, and is where the composition
  enters: a balance falls only with a transaction of its account (`EffectOnOthers`),
  which uses up a sequence (`SequenceRises`).
- **`ExplorerTabsProofs`.** One invariant per tab. `FormInv`: a button is enabled during
  a mint, and two mints overlap, only if the form was hidden. `PanelInv`: no entry is
  newer than the count of entries, so that one added at either end extends its
  run. `RewardsInv`: a refresh that started alone stays the only one until the next
  one starts (`Alone`), has counted the wallets it has been at (`Counted`), and a
  loop is a prefix of its list, which only grows (`AskedInOrder`).
- **`FoldTheorems`**, which `MintKeeperProofs`, `NodeCommandsProofs` and `HandlerProofs` use. The loops of the export and the payment of
  accounts are `FoldSet`, `FoldLeft` and `SumFunction`, which the library defines as the
  `CHOOSE` of a function that is recursive over subsets. `FoldExists` shows by
  well-founded induction over the subsets of a finite set that there is one, and
  `FoldInduction` is the rule for loops: a set of pairs (what has been handled, the state)
  that holds the start and is closed under the loop's body holds the end. It takes the
  invariant as a set, not an operator. `SumStep`, `SumUpdate`, `SumDifference` and
  `SumOneMore` are the arithmetic of sums over finite sets.
- **`NodeCommandsProofs`, the multi-node command.** `TestnetInv` says how far each
  directory is (`Progress`), that gentxs have distinct names and those of an
  earlier run are below the number of nodes it had (`GentxsNamed`), and that final
  genesis files of any run have the same accounts and gentxs, at most one of them a
  time of its own, and are from nodes whose gentx the first
  directory has (`FinalsAgree`, `OldFinalsGone`): that is why files of two testnets
  never stand side by side, and why a run meets a gentx that is not its own only if
  it has fewer nodes than one before it.
- **`NodeCommandsProofs`, the in-place testnet.** `BlocksGoOn` is not inductive: a
  block halts the node on a missing record. `InPlaceInv` adds that every operator on
  the chain and on disk has the records a block looks up (`RecordsThere`) and,
  unless the node ended before the new validator was committed (`lost`), every
  validator of CometBFT has them on the chain (`SignersThere`). Funding is `CoinsAsAsked` for both, with the supply as a sum.
- **`NodeCommandsProofs`, the export.** `Right(s, ds)` is what holds of the books when the
  delegations `ds` have started: references are counted (`Counted`), a period that
  starts a delegation has ended (`PeriodsEnded`), claims are covered (`Covered`), the module's
  coins are the sum of what is outstanding and the pool (`Holdings`). Half-way in the
  export `ds` shrinks to nothing and grows again, which is why it is a parameter.
  `PreparedRight` takes the loops one by one; a lemma per block event
  (`JoinRight`, `LeaveRight`, `SlashingRight`, `AllocatedRight`...) does the blocks.
  `Sound` adds `Room` (periods left), `Dated` (no record is dated ahead of the height,
  which is what `NoFutureHeight` needs before the export has cleared it) and that
  the index by power has no jailed validator.

Only model-checked:

- liveness, which rests on fairness: `EveryRequestAnswered` of both modules,
  `ButtonComesBack` of both pages. That calls of the codec return follows from
  `ComesCloser`, which is proved, and from the absence of deadlocks, which TLC checks;
- `DecodesFormat` and `RoundTrip`: they compare the code with what `RECURSIVE` operators
  compute, which is induction over data and out of the provers' reach.

## 5. Not modelled

- The explorer's automatic refresh, its lists of wallets and validators and the
  token statistics: every round overwrites what is displayed, and no later step
  of the page depends on it but on the lists, which are constants of the modules
  that use them.
- In the in-place testnet: the delegations and reward periods of an operator that
  is taken over, the upgrade it can trigger, and the rest of CometBFT's state.
- In the wire codec: descriptors, registration, the gRPC stubs, and the `XXX_` methods,
  which call what is modelled; the gateway (`query.pb.gw.go`).
- In `app/export.go`, the early return when an iterator cannot be closed; in the
  multi-node command, a removal of the output directory that itself fails
  half-way, and a run with no nodes.
- Read-only commands (wallet list, validator list, balances): they change no
  state; a page that reads them is modelled at the page.
- Formatting, wording, layout and logging, except for the messages that a
  property is about.
- Gas and fees: the repository configures none that its logic depends on.
  Staking and distribution are `OtherPath`: they use up a sequence and may fail.
- `auto-transfer.js`: a cut-down copy of the server's transfer handler.
- Command wiring, IBC registration, module wiring and scripts: no state of
  their own.

## 6. Plan

Done, in this order: `FeicoinState`, `MintKeeper` with `MintLedger`,
`ReplicatedMint`, `WalletServer` with `TxService`, `CreateValidator`,
`TransferPage`, `WithdrawAll`, `TxListing`, `MintForm` with `LogPanel`,
`ZeroHeightExport`, `TestnetInit`; then the codec with its proof,
`InPlaceTestnet`, `RewardsList`, `TxTable`, and the compositions
`NodeCommands` and `ExplorerTabs`; the proofs listed above.

What could follow:

1. Blocks of several transactions in `ReplicatedMint`.
2. The distribution records of `InPlaceTestnet`, by way of `ZeroHeightExport`.
