---------------------------- MODULE WithdrawAll ----------------------------
(***************************************************************************)
(* "Withdraw all rewards" of blockchain-explorer.html (withdrawAllRewards) *)
(* at work with the wallet server and the node: one request after another, *)
(* a second apart, each counted as a success if the server says so.        *)
(***************************************************************************)
EXTENDS WalletServer

CONSTANT
  Rewards   \* the list the click finds: withdrawal requests, in their order

ASSUME RewardsAssumption ==
  /\ Rewards \in Seq(Req)
  /\ \A i, j \in 1..Len(Rewards) : Rewards[i] = Rewards[j] => i = j
  /\ \A i \in 1..Len(Rewards) :
       /\ Request[Rewards[i]].path = "/rewards/withdraw"
       /\ Missing \notin {Request[Rewards[i]].from, Request[Rewards[i]].to}

VARIABLES
  turn,     \* the entry of the list the loop is at
  stage,    \* "idle", "post" (waiting for an answer), "pause", "end"
  counted,  \* the requests counted as successes
  forgot    \* history: the node has lost its mempool

batchVars == <<vars, turn, stage, counted, forgot>>

BatchInit ==
  /\ Init
  /\ turn = 1
  /\ stage = "idle"
  /\ counted = {}
  /\ forgot = FALSE

-----------------------------------------------------------------------------
Current == Rewards[turn]

(* Without rewards there is only a warning.                                *)
ClickWithdrawAll ==
  /\ stage = "idle"
  /\ Rewards # << >>
  /\ stage' = "post"
  /\ UNCHANGED <<vars, turn, counted, forgot>>

MoreToDo == turn < Len(Rewards)

(* The loop goes on with the next entry, or announces the count.           *)
NextEntry ==
  /\ turn' = turn + 1
  /\ stage' = IF MoreToDo THEN "post" ELSE "end"

(* Mutant of Counts: an answer of any kind is a success.                   *)
CountsAnswers(a) == a # "unasked"

Counts(a) == a = "ok"

(* An answer; after an exception there is no pause.                        *)
OnBatchAnswer ==
  /\ stage = "post"
  /\ answer[Current] # "waiting"
  /\ counted' = IF Counts(answer[Current]) THEN counted \cup {Current} ELSE counted
  /\ \/ /\ answer[Current] \in {"ok", "error", "refused"}
        /\ stage' = "pause"
        /\ UNCHANGED turn
     \/ /\ answer[Current] \in {"unasked", "lost"}
        /\ NextEntry
  /\ UNCHANGED <<vars, forgot>>

Resume ==
  /\ stage = "pause"
  /\ NextEntry
  /\ UNCHANGED <<vars, counted, forgot>>

(* A step of the server or the node.  The server receives a request of the *)
(* loop while the loop waits for its answer.                               *)
BatchServerStep ==
  /\ Next
  /\ \A i \in 1..Len(Rewards) :
       answer[Rewards[i]] = "unasked" /\ answer'[Rewards[i]] # "unasked" =>
         stage = "post" /\ i = turn
  /\ forgot' = (forgot \/ (mempool # << >> /\ mempool' = << >> /\ fate' = fate))
  /\ UNCHANGED <<turn, stage, counted>>

BatchNext == ClickWithdrawAll \/ OnBatchAnswer \/ Resume \/ BatchServerStep

BatchSpec == BatchInit /\ [][BatchNext]_batchVars

-----------------------------------------------------------------------------
Accepted(r) ==
  fate[r] # "none" \/ \E i \in 1..Len(mempool) : mempool[i] = r

(* Another transaction of its sender with the sequence r was signed with   *)
(* has been accepted.                                                      *)
TakenByOther(r) ==
  \E s \in Req \ {r} :
    Accepted(s) /\ Sender(s) = Sender(r) /\ signedSeq[s] = signedSeq[r]

(* A withdrawal that the loop counts as a success has been accepted by the *)
(* node, though the exit status it goes by does not say so: the exceptions *)
(* are one signed with the sequence of another transaction of the          *)
(* delegator that was accepted, and a node that has lost its mempool.      *)
(* That an accepted one succeeds the loop cannot know: one that fails when *)
(* it is executed is counted too.                                          *)
CountedAreAccepted ==
  \A r \in counted : Accepted(r) \/ forgot \/ TakenByOther(r)
=============================================================================
