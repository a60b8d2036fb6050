---------------------------- MODULE TransferPage ----------------------------
(***************************************************************************)
(* The transfer form of blockchain-explorer.html (sendTransfer) at work    *)
(* with the wallet server and the node.  A click reads the sender's        *)
(* balance, posts the transfer, polls for its transaction, reads the       *)
(* balance again and says what has come of it.  Other clients use the same *)
(* accounts; any fetch of the page may fail.                               *)
(***************************************************************************)
EXTENDS WalletServer

CONSTANTS
  Flow,        \* the requests that clicks on this page post
  MaxAttempts  \* polls before the page stops waiting (30 in the code)

ASSUME PageAssumption ==
  /\ Flow \subseteq Req
  /\ \A r \in Flow : /\ Request[r].path = "/transfer"
                     /\ Request[r].from \in Account
                     /\ Request[r].to \in Account \ {Request[r].from}
  /\ MaxAttempts \in Nat \ {0}

VARIABLES
  button,   \* whether the transfer button is enabled
  step,     \* per flow: where sendTransfer is ("unclicked", "balance",
            \* "post", "poll", "verify", "timer", "end")
  old,      \* per flow: the sender's balance read before the transfer
  attempts, \* per flow: polls made, at most MaxAttempts
  shown,    \* per flow: the outcome the page shows ("nothing", "success",
            \* "submitted", "manual command", "failed")
  oldSeq,   \* history, per flow: the sender's sequence when old was read
  unread    \* history: the flows that failed to read the new balance

page == <<button, step, old, attempts, shown, oldSeq, unread>>
pageVars == <<vars, page>>

PageInit ==
  /\ Init
  /\ button = TRUE
  /\ step = [r \in Flow |-> "unclicked"]
  /\ old = [r \in Flow |-> 0]
  /\ attempts = [r \in Flow |-> 0]
  /\ shown = [r \in Flow |-> "nothing"]
  /\ oldSeq = [r \in Flow |-> 0]
  /\ unread = {}

-----------------------------------------------------------------------------
From(r) == Request[r].from

Go(r, from, to) == step[r] = from /\ step' = [step EXCEPT ![r] = to]

Show(r, message) == shown' = [shown EXCEPT ![r] = message]

Click(r) ==
  /\ button
  /\ Go(r, "unclicked", "balance")
  /\ button' = FALSE
  /\ UNCHANGED <<vars, old, attempts, shown, oldSeq, unread>>

(* The first step: enough coins, or the flow is over.  A balance that      *)
(* cannot be read counts as none.                                          *)
CheckBalance(r) ==
  /\ \/ /\ bal[From(r)] >= Request[r].amount
        /\ bal[From(r)] > 0
        /\ Go(r, "balance", "post")
        /\ old' = [old EXCEPT ![r] = bal[From(r)]]
        /\ oldSeq' = [oldSeq EXCEPT ![r] = seq[From(r)]]
        /\ UNCHANGED <<button, shown>>
     \/ /\ Go(r, "balance", "end")
        /\ Show(r, "failed")
        /\ button' = TRUE
        /\ UNCHANGED <<old, oldSeq>>
  /\ UNCHANGED <<vars, attempts, unread>>

(* Mutant of FailTransfer: the button is enabled at once.                  *)
FailAndEnable(r, from) ==
  /\ Go(r, from, "timer")
  /\ Show(r, "manual command")
  /\ button' = TRUE

(* The inner catch block: a command to run by hand is shown, and the       *)
(* button stays disabled for ten seconds.                                  *)
FailTransfer(r, from) ==
  /\ Go(r, from, "timer")
  /\ Show(r, "manual command")
  /\ UNCHANGED button

(* The transfer was answered, or could not be posted.                      *)
OnAnswer(r) ==
  /\ \/ /\ answer[r] = "ok"
        /\ Go(r, "post", "poll")
        /\ UNCHANGED <<button, shown>>
     \/ /\ answer[r] \in {"unasked", "refused", "error", "lost"}
        /\ FailTransfer(r, "post")
  /\ UNCHANGED <<vars, old, attempts, oldSeq, unread>>

UsedUp(n) == n >= MaxAttempts

(* Mutant of Attempted: a poll that fails does not count.                  *)
AttemptedIfSeen(r, seen) == IF seen THEN attempts[r] + 1 ELSE attempts[r]

Attempted(r, seen) == attempts[r] + 1

(* One poll; the transaction is seen at the earliest when it has been      *)
(* executed, well or not, and the query may fail.                          *)
Poll(r) ==
  \E seen \in {FALSE, fate[r] # "none"} :
    LET n == Attempted(r, seen)
    IN  /\ Go(r, "poll", IF seen \/ UsedUp(n) THEN "verify" ELSE "poll")
        /\ attempts' = [attempts EXCEPT ![r] = n]
        /\ UNCHANGED <<vars, button, old, shown, oldSeq, unread>>

(* Mutant of LooksSpent: an unchanged balance will do.                     *)
LooksUnchanged(r, new) == new <= old[r]

LooksSpent(r, new) == new < old[r]

(* The last step.  A balance that cannot be read counts as 0; an answer    *)
(* without balances throws into the inner catch block.                     *)
Verify(r) ==
  /\ \/ \E new \in {bal[From(r)], 0} :
          /\ Go(r, "verify", "end")
          /\ Show(r, IF LooksSpent(r, new) THEN "success" ELSE "submitted")
          /\ button' = TRUE
          /\ unread' = IF new = bal[From(r)] THEN unread ELSE unread \cup {r}
     \/ FailTransfer(r, "verify") /\ UNCHANGED unread
  /\ UNCHANGED <<vars, old, attempts, oldSeq>>

TimerFires(r) ==
  /\ Go(r, "timer", "end")
  /\ button' = TRUE
  /\ UNCHANGED <<vars, old, attempts, shown, oldSeq, unread>>

(* A step of the server, the node or another client.  The server receives  *)
(* a transfer of this page while the page waits for its answer.            *)
ServerStep ==
  /\ Next
  /\ \A r \in Flow : answer[r] = "unasked" /\ answer'[r] # "unasked" => step[r] = "post"
  /\ UNCHANGED page

PageStep(r) ==
  CheckBalance(r) \/ OnAnswer(r) \/ Poll(r) \/ Verify(r) \/ TimerFires(r)

PageNext ==
  \/ \E r \in Flow : Click(r) \/ PageStep(r)
  \/ ServerStep

PageSpec == PageInit /\ [][PageNext]_pageVars

(* Replies and timers arrive.                                              *)
PageFairSpec ==
  /\ PageSpec
  /\ \A r \in Flow : WF_pageVars(PageStep(r))
  /\ Fairness

-----------------------------------------------------------------------------
Busy(r) == step[r] \notin {"unclicked", "end"}

(* The button is enabled only when no transfer is under way, so two flows  *)
(* of the page never run at once, whichever of its five exits each takes   *)
(* and however late the timer of a failed one fires.                       *)
ButtonGuardsFlow ==
  /\ button => \A r \in Flow : ~Busy(r)
  /\ \A r, s \in Flow : Busy(r) /\ Busy(s) => r = s

(* When the page says success, some transaction of the sender has been     *)
(* executed since the balance was first read, or the balance could not be  *)
(* read again: all the comparison of balances can tell.                    *)
SuccessMeansSomethingSpent ==
  \A r \in Flow :
    shown[r] = "success" => r \in unread \/ seq[From(r)] > oldSeq[r]

(* The button is enabled again after every click.                          *)
ButtonComesBack == ~button ~> button

(* "Transfer successful!  The transaction is confirmed on the chain."      *)
SuccessIsConfirmed == \A r \in Flow : shown[r] = "success" => fate[r] = "done"
=============================================================================
