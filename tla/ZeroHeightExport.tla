-------------------------- MODULE ZeroHeightExport --------------------------
(***************************************************************************)
(* feicoind export (app/export.go) in the life of a chain.  An export for  *)
(* height zero ends all periods of the reward distribution, starts them    *)
(* anew, and rewrites every height the state holds; a new chain starts     *)
(* from the exported state.  An export as it is keeps heights and records. *)
(*                                                                         *)
(* Blocks are external: those actions are what the staking, distribution   *)
(* and slashing modules do with the records an export rewrites.  A block   *)
(* has one of them; blocks without are not told apart.  All validators fit *)
(* in the active set, and the last delegation of one stays.                *)
(*                                                                         *)
(* The distribution module counts in periods.  A period of a validator     *)
(* that has ended has a record for as long as somebody refers to it: the   *)
(* period after it, the delegations that started then, the slash events.   *)
(***************************************************************************)
EXTENDS Integers, FiniteSets, Functions, FiniteSetsExt

CONSTANTS
  Validator,
  Delegation,   \* pairs of delegator and validator that there may be
  SelfDelegation,  \* those of the genesis file
  BadAddr,      \* an argument that is no validator address
  MaxHeight,    \* bound: blocks of a chain
  MaxPeriod,    \* bound: periods of a validator
  MaxExports    \* bound: exports for height zero

ASSUME ExportAssumption ==
  /\ IsFiniteSet(Validator) /\ IsFiniteSet(Delegation)
  /\ \A d \in Delegation : d.validator \in Validator
  /\ SelfDelegation \subseteq Delegation
  /\ \A v \in Validator : \E d \in SelfDelegation : d.validator = v
  /\ BadAddr \notin Validator
  /\ MaxHeight \in Nat /\ MaxPeriod \in Nat /\ MaxExports \in Nat
  /\ \A v \in Validator :
       1 + 2 * Cardinality({d \in Delegation : d.validator = v}) <= MaxPeriod

VARIABLES
  app,      \* the state of the application
  exports,  \* exports for height zero so far
  outcome   \* of the last export: whether it had a list and whether it panicked

exportVars == <<app, exports, outcome>>

DelegationsTo(s, v) == {d \in s.del : d.validator = v}

State ==
  [height : 0..MaxHeight,
   jailed : SUBSET Validator,
   power : SUBSET Validator,                   \* the index by power
   unbondingHeight : [Validator -> 0..MaxHeight],
   infoStart : [Validator -> 0..MaxHeight],    \* start of the signing info
   del : SUBSET Delegation,
   leaving : SUBSET [kind : {"unbonding", "redelegation"},
                     d : Delegation, height : 0..MaxHeight],
   period : [Validator -> 0..MaxPeriod],       \* the current one
   refs : [Validator -> [0..MaxPeriod -> Nat]], \* references; none, no record
   start : [Delegation -> [period : 0..MaxPeriod, height : 0..MaxHeight]],
   slashes : SUBSET [v : Validator, period : 0..MaxPeriod, height : 0..MaxHeight],
   commission : [Validator -> Nat],
   owed : [Delegation -> Nat],                 \* what a delegation would get
   outstanding : [Validator -> Nat],
   pool : Nat,                                 \* the community pool
   bank : Nat]                                 \* balance of the distribution module

-----------------------------------------------------------------------------
(* The distribution module.                                                *)

(* End the current period of v.                                            *)
IncrementPeriod(s, v) ==
  [s EXCEPT !.refs[v][s.period[v] - 1] = @ - 1,
            !.refs[v][s.period[v]] = 1,
            !.period[v] = @ + 1]

(* A delegation starts at the period that has just ended.                  *)
InitializeDelegation(s, d) ==
  LET v == d.validator
      p == s.period[v] - 1
  IN  [s EXCEPT !.refs[v][p] = @ + 1,
                !.start[d] = [period |-> p, height |-> s.height],
                !.owed[d] = 0]

(* Pay a delegation out and drop its start.                                *)
WithdrawDelegation(s, d) ==
  LET v == d.validator
  IN  [IncrementPeriod(s, v) EXCEPT
         !.refs[v][s.start[d].period] = @ - 1,
         !.start[d] = [period |-> 0, height |-> 0],
         !.owed[d] = 0,
         !.outstanding[v] = @ - s.owed[d],
         !.bank = @ - s.owed[d]]

(* The hook for a new validator overwrites its records.                    *)
AfterValidatorCreated(s, v) ==
  [s EXCEPT !.refs[v] = [p \in 0..MaxPeriod |-> IF p = 0 THEN 1 ELSE @[p]],
            !.period[v] = 1,
            !.commission[v] = 0,
            !.outstanding[v] = 0]

CreateDelegation(s, d) ==
  InitializeDelegation(IncrementPeriod(s, d.validator), d)

-----------------------------------------------------------------------------
(* prepForZeroHeightGenesis, one operator per loop.                        *)

(* Errors are ignored: the bank may refuse a payment.                      *)
WithdrawCommissions(s, refused) ==
  LET paid == [v \in Validator |-> IF v \in refused.commission THEN 0 ELSE s.commission[v]]
  IN  [s EXCEPT !.outstanding = [v \in Validator |-> @[v] - paid[v]],
                !.commission = [v \in Validator |-> @[v] - paid[v]],
                !.bank = @ - SumFunction(paid)]

(* When the bank refuses, the period has ended already.                    *)
WithdrawRewards(s, refused) ==
  LET withdraw(d, t) == IF d \in refused.rewards THEN IncrementPeriod(t, d.validator)
                        ELSE InitializeDelegation(WithdrawDelegation(t, d), d)
  IN  FoldSet(withdraw, s, s.del)

(* Mutant of ClearHistory: the records of ended periods stay.              *)
KeepPeriods(s) == [s EXCEPT !.slashes = {}]

ClearHistory(s) ==
  [s EXCEPT !.slashes = {},
            !.refs = [v \in Validator |-> [p \in 0..MaxPeriod |-> 0]]]

(* Mutant of RecreateValidators: the donation is read after the hook.      *)
DonateAfterHook(s) ==
  LET recreate(v, t) ==
        LET u == AfterValidatorCreated(t, v)
        IN  [u EXCEPT !.pool = @ + u.outstanding[v]]
  IN  FoldSet(recreate, s, Validator)

(* What could not be withdrawn goes to the community pool.                 *)
RecreateValidators(s) ==
  LET recreate(v, t) ==
        AfterValidatorCreated([t EXCEPT !.pool = @ + t.outstanding[v]], v)
  IN  FoldSet(recreate, s, Validator)

(* Mutant of RecreateDelegations: those that were withdrawn keep the start *)
(* they have got then, and the others theirs.                              *)
KeepDelegations(s) == s

RecreateDelegations(s) ==
  LET recreate(d, t) == CreateDelegation(t, d)
  IN  FoldSet(recreate, s, s.del)

(* Mutant of ResetHeights: the redelegations are forgotten.                *)
ResetUnbondingOnly(s) ==
  [s EXCEPT !.leaving = {IF e.kind = "unbonding" THEN [e EXCEPT !.height = 0] ELSE e : e \in @},
            !.unbondingHeight = [v \in Validator |-> 0],
            !.infoStart = [v \in Validator |-> 0]]

(* Redelegations, unbonding delegations, validators, signing infos.        *)
ResetHeights(s) ==
  [s EXCEPT !.leaving = {[e EXCEPT !.height = 0] : e \in @},
            !.unbondingHeight = [v \in Validator |-> 0],
            !.infoStart = [v \in Validator |-> 0]]

(* Mutant of Others: the list is applied also if it is empty.              *)
AllOthers(list) == Validator \ list

(* Without a list nobody is jailed.                                        *)
Others(list) == IF list = {} THEN {} ELSE Validator \ list

(* A validator is jailed in its record only and stays in the index.        *)
JailOthers(s, list) == [s EXCEPT !.jailed = @ \cup Others(list)]

Prepared(s, list, refused) ==
  LET settled == WithdrawRewards(WithdrawCommissions(s, refused), refused)
      zero == [ClearHistory(settled) EXCEPT !.height = 0]
  IN  JailOthers(ResetHeights(RecreateDelegations(RecreateValidators(zero))), list)

(* ApplyAndReturnValidatorSetUpdates panics on a jailed validator in the   *)
(* index.                                                                  *)
ApplyPanics(s) == s.power \cap s.jailed # {}

ExportForZeroHeight(list, refused) ==
  LET s == Prepared(app, list, refused)
      panic == BadAddr \in list \/ ApplyPanics(s)
  IN  /\ exports < MaxExports
      /\ exports' = exports + 1
      /\ app' = IF panic THEN app ELSE s
      /\ outcome' = [list |-> list # {}, panic |-> panic]

(* CometBFT starts the new chain at the next height.                       *)
ExportAsIs ==
  /\ app.height < MaxHeight
  /\ app' = [app EXCEPT !.height = @ + 1]
  /\ outcome' = [list |-> FALSE, panic |-> FALSE]
  /\ UNCHANGED exports

-----------------------------------------------------------------------------
(* Blocks.                                                                 *)

Block(s) ==
  /\ app.height < MaxHeight
  /\ \A v \in Validator : s.period[v] <= MaxPeriod - Cardinality(DelegationsTo(s, v))
  /\ app' = s
  /\ UNCHANGED <<exports, outcome>>

Now == [app EXCEPT !.height = @ + 1]

(* Fees and inflation: one coin of commission, one for each delegation,    *)
(* and one that is lost to rounding until the validator ends.              *)
Allocate(v) ==
  LET ds == DelegationsTo(app, v)
      n == Cardinality(ds) + 2
  IN  /\ v \in app.power
      /\ Block([Now EXCEPT !.bank = @ + n,
                           !.outstanding[v] = @ + n,
                           !.commission[v] = @ + 1,
                           !.owed = [d \in Delegation |-> IF d \in ds THEN @[d] + 1 ELSE @[d]]])

Join(s, d) == CreateDelegation([s EXCEPT !.del = @ \cup {d}], d)

Leave(s, d, kind) ==
  [WithdrawDelegation(s, d) EXCEPT
     !.del = @ \ {d},
     !.leaving = @ \cup {[kind |-> kind, d |-> d, height |-> s.height]}]

MayLeave(d) == d \in app.del /\ Cardinality(DelegationsTo(app, d.validator)) > 1

Delegate(d) == d \notin app.del /\ Block(Join(Now, d))

Undelegate(d) == MayLeave(d) /\ Block(Leave(Now, d, "unbonding"))

Redelegate(d, e) ==
  /\ MayLeave(d)
  /\ e \notin app.del /\ e.delegator = d.delegator
  /\ Block(Join(Leave(Now, d, "redelegation"), e))

(* A validator missed blocks: it is slashed, jailed and unbonded.          *)
Slash(v) ==
  LET s == IncrementPeriod(Now, v)
      p == s.period[v] - 1
  IN  /\ v \in app.power
      /\ Block([s EXCEPT !.refs[v][p] = @ + 1,
                         !.slashes = @ \cup {[v |-> v, period |-> p, height |-> s.height]},
                         !.jailed = @ \cup {v},
                         !.power = @ \ {v},
                         !.unbondingHeight[v] = s.height])

Unjail(v) ==
  /\ v \in app.jailed
  /\ Block([Now EXCEPT !.jailed = @ \ {v},
                       !.power = @ \cup {v},
                       !.infoStart[v] = app.height + 1])

-----------------------------------------------------------------------------
Zero(S) == [x \in S |-> 0]

Empty ==
  [height |-> 0, jailed |-> {}, power |-> Validator,
   unbondingHeight |-> Zero(Validator), infoStart |-> Zero(Validator),
   del |-> SelfDelegation, leaving |-> {},
   period |-> Zero(Validator), refs |-> [v \in Validator |-> Zero(0..MaxPeriod)],
   start |-> [d \in Delegation |-> [period |-> 0, height |-> 0]], slashes |-> {},
   commission |-> Zero(Validator), owed |-> Zero(Delegation),
   outstanding |-> Zero(Validator), pool |-> 0, bank |-> 0]

(* The validators of the genesis file, with their own delegations.         *)
ExportInit ==
  /\ app = RecreateDelegations(RecreateValidators(Empty))
  /\ exports = 0
  /\ outcome = [list |-> FALSE, panic |-> FALSE]

ExportNext ==
  \/ \E list \in SUBSET (Validator \cup {BadAddr}) :
       \E refused \in [commission : SUBSET Validator, rewards : SUBSET app.del] :
         ExportForZeroHeight(list, refused)
  \/ ExportAsIs
  \/ \E v \in Validator : Allocate(v) \/ Slash(v) \/ Unjail(v)
  \/ \E d \in Delegation : Delegate(d) \/ Undelegate(d)
  \/ \E d, e \in Delegation : Redelegate(d, e)

ExportSpec == ExportInit /\ [][ExportNext]_exportVars

-----------------------------------------------------------------------------
(* The distribution module holds exactly what it owes: a new chain refuses *)
(* to start from an export that has lost or made coins, whichever payments *)
(* failed on the way.                                                      *)
HoldingsMatch == app.bank = SumFunction(app.outstanding) + app.pool

(* Everybody can be paid: what the delegations and the validator would get *)
(* is covered by what is outstanding for it.                               *)
ClaimsCovered ==
  \A v \in Validator :
    app.commission[v] + SumFunctionOnSet(app.owed, DelegationsTo(app, v))
      <= app.outstanding[v]

(* The records keep their ranges (no count and no coins below zero), and   *)
(* every ended period is referred to as often as its record says, by the   *)
(* current period, the delegations that started with it and the slash      *)
(* events; later withdrawals on the new chain would panic otherwise.       *)
ReferencesCounted ==
  /\ app \in State
  /\ \A v \in Validator, p \in 0..MaxPeriod :
       app.refs[v][p] =
         (IF p = app.period[v] - 1 THEN 1 ELSE 0)
         + Cardinality({d \in DelegationsTo(app, v) : app.start[d].period = p})
         + Cardinality({e \in app.slashes : e.v = v /\ e.period = p})

(* No record of the state has a height that its chain has yet to reach.    *)
NoFutureHeight ==
  /\ \A v \in Validator : /\ app.unbondingHeight[v] <= app.height
                          /\ app.infoStart[v] <= app.height
  /\ \A d \in app.del : app.start[d].height <= app.height
  /\ \A e \in app.leaving \cup app.slashes : e.height <= app.height

(* An export that was given no list of addresses works, whoever is jailed. *)
(* (With a list it panics unless all active validators are on it.)         *)
PanicsWithListOnly == outcome.panic => outcome.list
=============================================================================
