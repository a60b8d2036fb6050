---------------------------- MODULE RewardsList ----------------------------
(***************************************************************************)
(* The rewards of blockchain-explorer.html (refreshRewards,                *)
(* withdrawAllRewards).  A refresh assigns a new array to the global       *)
(* allRewards and then asks for the rewards of one wallet after another;   *)
(* what it gets it puts into the array that allRewards is by then.  The    *)
(* loop over all rewards goes on with the array it has started with.       *)
(*                                                                         *)
(* Refreshes start at any time: from the button, the tab, and timers after *)
(* withdrawals.  What the node answers is external.                        *)
(***************************************************************************)
EXTENDS Integers, Sequences, SequencesExt

CONSTANTS
  Wallets,      \* allWallets
  MaxRefreshes, \* bound: refreshes
  MaxLoops      \* bound: clicks on "withdraw all"

ASSUME RewardsListAssumption ==
  /\ Wallets \in Seq(Range(Wallets)) /\ IsInjective(Wallets)
  /\ MaxRefreshes \in Nat /\ MaxLoops \in Nat

VARIABLES
  arrays,     \* the values allRewards has had, the last one is current: the
              \* entries, and, as history, whether two refreshes ran meanwhile
  refreshes,  \* the refreshes: the wallet each is at, and its total
  loops,      \* the loops: array, place, and the delegators asked for
  display     \* the list and the total that are shown

rewardsVars == <<arrays, refreshes, loops, display>>

NoRewards == [entries |-> << >>, mixed |-> FALSE]

RewardsInit ==
  /\ arrays = <<NoRewards>>
  /\ refreshes = << >>
  /\ loops = << >>
  /\ display = [entries |-> << >>, total |-> 0]

-----------------------------------------------------------------------------
allRewards == Last(arrays)

Runs(r) == refreshes[r].at <= Len(Wallets)

SomeRefreshRuns == \E r \in DOMAIN refreshes : Runs(r)

Change(array) == [arrays EXCEPT ![Len(arrays)] = array]

(* Mutant of Emptied: the list is not emptied.                             *)
GoOn == Change([allRewards EXCEPT !.mixed = @ \/ SomeRefreshRuns])

Emptied == Append(arrays, [NoRewards EXCEPT !.mixed = SomeRefreshRuns])

StartRefresh ==
  /\ Len(refreshes) < MaxRefreshes
  /\ refreshes' = Append(refreshes, [at |-> 1, total |-> 0])
  /\ arrays' = Emptied
  /\ UNCHANGED <<loops, display>>

(* An answer with a reward, or without one, or none.                       *)
OnReward(r, amount) ==
  LET next == [at |-> refreshes[r].at + 1, total |-> refreshes[r].total + amount]
      entry == [delegator |-> Wallets[refreshes[r].at], amount |-> amount]
      array == IF amount = 0 THEN allRewards
               ELSE [allRewards EXCEPT !.entries = Append(@, entry)]
  IN  /\ Runs(r)
      /\ refreshes' = [refreshes EXCEPT ![r] = next]
      /\ arrays' = Change(array)
      /\ display' = IF next.at > Len(Wallets)
                    THEN [entries |-> array.entries, total |-> next.total]
                    ELSE display
      /\ UNCHANGED loops

(* The button is enabled if the total is not zero; an empty list is only   *)
(* warned of.                                                              *)
WithdrawAllRewards ==
  /\ Len(loops) < MaxLoops
  /\ display.total > 0
  /\ allRewards.entries # << >>
  /\ loops' = Append(loops, [array |-> Len(arrays), at |-> 1, asked |-> << >>])
  /\ UNCHANGED <<arrays, refreshes, display>>

(* The loop's next entry is there, perhaps only by now.                    *)
WithdrawNext(i) ==
  LET loop == loops[i]
      entries == arrays[loop.array].entries
  IN  /\ loop.at <= Len(entries)
      /\ loops' = [loops EXCEPT ![i].at = @ + 1,
                                ![i].asked = Append(@, entries[loop.at].delegator)]
      /\ UNCHANGED <<arrays, refreshes, display>>

RewardsNext ==
  \/ StartRefresh
  \/ \E r \in DOMAIN refreshes : \E amount \in 0..1 : OnReward(r, amount)
  \/ WithdrawAllRewards
  \/ \E i \in DOMAIN loops : WithdrawNext(i)

-----------------------------------------------------------------------------
(* A loop asks for the same rewards twice, and the page shows more or less *)
(* than the total beside it, only if two refreshes were under way at once; *)
(* a refresh that is alone makes up for those before it.                   *)
RewardsOnce ==
  /\ \A i \in DOMAIN loops :
       IsInjective(loops[i].asked) \/ arrays[loops[i].array].mixed
  /\ SomeRefreshRuns \/ allRewards.mixed
     \/ (display.entries = allRewards.entries /\ display.total = Len(display.entries))
=============================================================================
