------------------------------ MODULE MintForm ------------------------------
(***************************************************************************)
(* The two forms of blockchain-explorer.html that mint, mintTokens with    *)
(* show/hideMintTokenForm and realMintTokens with show/hideRealMint(Token) *)
(* Form, which differ in who may mint, and the log panel they write to.    *)
(* A click posts a request and disables the button until the answer.  A    *)
(* success hides the form three seconds later.  Hiding a form enables its  *)
(* button, whatever is under way.                                          *)
(***************************************************************************)
EXTENDS LogPanel, FiniteSets

CONSTANTS
  Form,
  BobOnly,     \* the forms that refuse any account but bob's
  MaxClicks,   \* bound: clicks
  MaxShows,    \* bound: times a form is shown
  MaxOthers    \* bound: entries that other parts of the page log

ASSUME FormAssumption ==
  /\ BobOnly \subseteq Form
  /\ MaxClicks \in Nat /\ MaxShows \in Nat /\ MaxOthers \in Nat

VARIABLES
  visible,  \* per form: whether it is shown
  button,   \* per form: whether its button is enabled
  clicks,   \* the clicks so far: their form, and their step, "post",
            \* "timer" (after a success) or "end"
  panel,    \* the log panel
  loaded,   \* allWallets is not empty
  shows,    \* times a form was shown
  others,   \* entries of other parts
  cut       \* history: the clicks whose form was hidden before their answer

formVars == <<visible, button, clicks, panel, loaded, shows, others, cut>>

InFlight(f) == {c \in DOMAIN clicks : clicks[c] = [form |-> f, step |-> "post"]}

FormInit ==
  /\ visible = [f \in Form |-> FALSE]
  /\ button = [f \in Form |-> TRUE]
  /\ clicks = << >>
  /\ panel = NewPanel
  /\ loaded \in BOOLEAN
  /\ shows = 0
  /\ others = 0
  /\ cut = {}

-----------------------------------------------------------------------------
(* hideMintTokenForm, hideRealMintTokenForm.                               *)
Hide(f, shown) ==
  /\ visible' = [visible EXCEPT ![f] = shown]
  /\ button' = [button EXCEPT ![f] = TRUE]
  /\ cut' = cut \cup InFlight(f)

(* The form is hidden and shown; wallets are loaded if there are none.     *)
Show(f) ==
  /\ shows < MaxShows
  /\ shows' = shows + 1
  /\ Hide(f, TRUE)
  /\ panel' = IF loaded THEN panel ELSE AddLog(panel)
  /\ UNCHANGED <<clicks, loaded, others>>

Cancel(f) ==
  /\ visible[f]
  /\ Hide(f, FALSE)
  /\ UNCHANGED <<clicks, panel, loaded, shows, others>>

(* What the form holds: a field is empty, the recipient is no address, the *)
(* account is not bob's, or none of these.                                 *)
Input == {"incomplete", "no address", "not bob", "good"}

Accepted(f, input) == input = "good" \/ (input = "not bob" /\ f \notin BobOnly)

Click(f, step) ==
  /\ visible[f] /\ button[f]
  /\ Len(clicks) < MaxClicks
  /\ clicks' = Append(clicks, [form |-> f, step |-> step])

RefuseClick(f, input) ==
  /\ ~Accepted(f, input)
  /\ Click(f, "end")
  /\ panel' = AddLog(panel)
  /\ UNCHANGED <<visible, button, loaded, shows, others, cut>>

(* Mutant of Disabled: the button stays enabled.                           *)
StillEnabled(f) == button

Disabled(f) == [button EXCEPT ![f] = FALSE]

(* Two lines are logged before the request.                                *)
Post(f, input) ==
  /\ Accepted(f, input)
  /\ Click(f, "post")
  /\ button' = Disabled(f)
  /\ panel' = AddLog(AddLog(panel))
  /\ UNCHANGED <<visible, loaded, shows, others, cut>>

(* Mutant of ButtonAfter: an error leaves the button disabled.             *)
ButtonIfSuccess(f, ok) == [button EXCEPT ![f] = ok]

ButtonAfter(f, ok) == [button EXCEPT ![f] = TRUE]

(* The answer, or an error of the fetch.                                   *)
Answer(c, ok) ==
  /\ c \in DOMAIN clicks /\ clicks[c].step = "post"
  /\ clicks' = [clicks EXCEPT ![c].step = IF ok THEN "timer" ELSE "end"]
  /\ button' = ButtonAfter(clicks[c].form, ok)
  /\ panel' = AddLog(IF ok THEN AddSuccessLog(panel) ELSE panel)
  /\ UNCHANGED <<visible, loaded, shows, others, cut>>

(* Three seconds after a success.                                          *)
TimerFires(c) ==
  /\ c \in DOMAIN clicks /\ clicks[c].step = "timer"
  /\ clicks' = [clicks EXCEPT ![c].step = "end"]
  /\ Hide(clicks[c].form, FALSE)
  /\ UNCHANGED <<panel, loaded, shows, others>>

(* Other parts of the page log, and load the wallets.                      *)
Others ==
  /\ others < MaxOthers
  /\ others' = others + 1
  /\ panel' \in {AddLog(panel), AddSuccessLog(panel), AddSeparator(panel), ClearLogs(panel)}
  /\ loaded' \in {loaded, TRUE}
  /\ UNCHANGED <<visible, button, clicks, shows, cut>>

FormNext ==
  \/ \E f \in Form : Show(f) \/ Cancel(f)
  \/ \E f \in Form, input \in Input : RefuseClick(f, input) \/ Post(f, input)
  \/ \E c \in 1..MaxClicks : TimerFires(c) \/ \E ok \in BOOLEAN : Answer(c, ok)
  \/ Others

(* A fetch resolves or rejects, and timers fire.                           *)
FormFairness ==
  /\ \A c \in 1..MaxClicks : WF_formVars(\E ok \in BOOLEAN : Answer(c, ok))
  /\ \A c \in 1..MaxClicks : WF_formVars(TimerFires(c))

-----------------------------------------------------------------------------
(* Two mints of a form are under way at once only if the form was hidden   *)
(* while one of its mints was: by the user, by showing it again, or by the *)
(* timer of a mint before.                                                 *)
OverlapsWereCut ==
  \A f \in Form : Cardinality(InFlight(f)) > 1 =>
    \E c \in cut : clicks[c].form = f

(* A disabled button is enabled again, whatever becomes of the mint.       *)
ButtonComesBack == \A f \in Form : ~button[f] ~> button[f]

(* However the calls interleave, and from whichever end the panel is       *)
(* trimmed, it is read in two runs, and the next entry makes good for all  *)
(* separators that exceed the limit.                                       *)
PanelInOrder == IsTwoRuns(panel) /\ IsBounded(panel)
=============================================================================
