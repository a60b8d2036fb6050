-------------------------- MODULE ExplorerTabsProofs --------------------------
(***************************************************************************)
(* For any forms, pages, wallets and bounds, and every interleaving of     *)
(* clicks, answers and timers: mints of a form overlap only after the form *)
(* was hidden, the bar under the table leads on from the page that is      *)
(* shown, the log panel stays in order, and rewards are asked for and      *)
(* counted once unless refreshes overlapped.  Each tab has an invariant of *)
(* its own.                                                                *)
(***************************************************************************)
EXTENDS ExplorerTabs, FiniteSetTheorems, SequenceTheorems, TLAPS

-----------------------------------------------------------------------------
(* The forms that mint.                                                    *)

Clicked == [form : Form, step : {"post", "timer", "end"}]

FormTypes ==
  /\ button \in [Form -> BOOLEAN]
  /\ clicks \in Seq(Clicked)
  /\ cut \subseteq DOMAIN clicks

WasCut(f) == \E c \in cut : clicks[c].form = f

(* The button is enabled during a mint only if the form was hidden.        *)
EnabledIfCut == \A f \in Form : button[f] /\ InFlight(f) # {} => WasCut(f)

TwoIfCut == \A f \in Form : \A c, d \in InFlight(f) : c # d => WasCut(f)

FormInv == FormTypes /\ EnabledIfCut /\ TwoIfCut

LEMMA FormInvInit == FormInit => FormInv
  BY DEF FormInit, FormInv, FormTypes, Clicked, EnabledIfCut, TwoIfCut, InFlight

LEMMA ClickIsOfForm ==
  ASSUME FormInv, NEW c \in DOMAIN clicks
  PROVE  clicks[c] \in Clicked /\ clicks[c].form \in Form
  <1>1. clicks[c] \in Clicked
    BY DEF FormInv, FormTypes
  <1>2. QED
    BY <1>1 DEF Clicked

(* What becomes of the clicks as one of them moves on.                     *)
LEMMA ClickMovesOn ==
  ASSUME FormTypes, NEW c \in DOMAIN clicks, NEW end \in {"timer", "end"},
         clicks' = [clicks EXCEPT ![c].step = end]
  PROVE  /\ clicks' \in Seq(Clicked)
         /\ DOMAIN clicks' = DOMAIN clicks
         /\ clicks'[c] = [form |-> clicks[c].form, step |-> end]
         /\ clicks[c].form \in Form
         /\ \A d \in DOMAIN clicks \ {c} : clicks'[d] = clicks[d]
  <1> DEFINE e == [clicks[c] EXCEPT !.step = end]
  <1>1. clicks \in Seq(Clicked) /\ clicks[c] \in Clicked
    BY DEF FormTypes
  <1>2. e = [form |-> clicks[c].form, step |-> end] /\ e \in Clicked /\ clicks[c].form \in Form
    BY <1>1 DEF Clicked
  <1>3. clicks' = [clicks EXCEPT ![c] = e]
    BY <1>1
  <1> HIDE DEF e
  <1>4. clicks \in Seq(Clicked) /\ c \in 1..Len(clicks) /\ e \in Clicked
    BY <1>1, <1>2
  <1>5. /\ [clicks EXCEPT ![c] = e] \in Seq(Clicked)
        /\ Len([clicks EXCEPT ![c] = e]) = Len(clicks)
    BY <1>4, ExceptSeq
  <1>6. clicks' \in Seq(Clicked) /\ Len(clicks') = Len(clicks)
    BY <1>3, <1>5
  <1>7. clicks'[c] = e /\ \A d \in DOMAIN clicks \ {c} : clicks'[d] = clicks[d]
    BY <1>1, <1>3
  <1>8. QED
    BY <1>1, <1>2, <1>6, <1>7

(* A form is hidden, perhaps by the timer of a click.                      *)
LEMMA HideKeepsFormInv ==
  ASSUME FormInv, NEW f \in Form, NEW shown, Hide(f, shown),
         \/ clicks' = clicks
         \/ \E c \in DOMAIN clicks :
              clicks[c].step = "timer" /\ clicks' = [clicks EXCEPT ![c].step = "end"]
  PROVE  FormInv'
  <1>1. /\ button' = [button EXCEPT ![f] = TRUE]
        /\ cut' = cut \cup InFlight(f)
    BY DEF Hide
  <1>2. /\ clicks' \in Seq(Clicked)
        /\ DOMAIN clicks' = DOMAIN clicks
        /\ \A c \in DOMAIN clicks : /\ clicks'[c].form = clicks[c].form
                                    /\ clicks'[c].step = "post" <=> clicks[c].step = "post"
    <2>1. CASE clicks' = clicks
      BY <2>1 DEF FormInv, FormTypes
    <2>2. CASE clicks' # clicks
      <3>1. PICK c \in DOMAIN clicks :
              clicks[c].step = "timer" /\ clicks' = [clicks EXCEPT ![c].step = "end"]
        BY <2>2
      <3>2. PICK end \in {"timer", "end"} : end = "end"
        OBVIOUS
      <3>3. /\ clicks' \in Seq(Clicked)
            /\ DOMAIN clicks' = DOMAIN clicks
            /\ clicks'[c] = [form |-> clicks[c].form, step |-> end]
            /\ \A d \in DOMAIN clicks \ {c} : clicks'[d] = clicks[d]
        BY <3>1, <3>2, ClickMovesOn DEF FormInv
      <3>4. clicks'[c].form = clicks[c].form /\ clicks'[c].step = "end"
        BY <3>2, <3>3
      <3>5. QED
        BY <3>1, <3>3, <3>4
    <2>3. QED
      BY <2>1, <2>2
  <1>3. \A g \in Form : InFlight(g)' = InFlight(g)
    <2> SUFFICES ASSUME NEW g \in Form, NEW c \in DOMAIN clicks
                 PROVE  clicks'[c] = [form |-> g, step |-> "post"] <=>
                        clicks[c] = [form |-> g, step |-> "post"]
      BY <1>2 DEF InFlight
    <2>1. clicks[c] \in Clicked /\ clicks'[c] \in Clicked
      BY <1>2 DEF FormInv, FormTypes
    <2>2. QED
      BY <1>2, <2>1 DEF Clicked
  <1>4. InFlight(f) \subseteq DOMAIN clicks
        /\ \A c \in InFlight(f) : clicks[c].form = f
    BY DEF InFlight
  <1>5. FormTypes'
    BY <1>1, <1>2, <1>4 DEF FormInv, FormTypes
  <1>6. ASSUME NEW g \in Form, WasCut(g) PROVE WasCut(g)'
    BY <1>1, <1>2, <1>6 DEF WasCut, FormInv, FormTypes
  <1>7. InFlight(f) # {} => WasCut(f)'
    BY <1>1, <1>2, <1>4 DEF WasCut
  <1>8. EnabledIfCut'
    <2> SUFFICES ASSUME NEW g \in Form, button'[g], InFlight(g)' # {}
                 PROVE  WasCut(g)'
      BY DEF EnabledIfCut
    <2>1. CASE g = f
      BY <1>3, <1>7, <2>1
    <2>2. CASE g # f
      BY <1>1, <1>3, <1>6, <2>2 DEF FormInv, FormTypes, EnabledIfCut
    <2>3. QED
      BY <2>1, <2>2
  <1>9. TwoIfCut'
    <2> SUFFICES ASSUME NEW g \in Form, NEW c \in InFlight(g)', NEW d \in InFlight(g)', c # d
                 PROVE  WasCut(g)'
      BY DEF TwoIfCut
    <2>1. WasCut(g)
      BY <1>3 DEF FormInv, TwoIfCut
    <2>2. QED
      BY <1>6, <2>1
  <1>10. QED
    BY <1>5, <1>8, <1>9 DEF FormInv

(* A click is made.                                                        *)
LEMMA ClickKeepsFormInv ==
  ASSUME FormInv, NEW f \in Form, NEW step \in {"post", "end"}, Click(f, step),
         cut' = cut,
         button' = IF step = "post" THEN [button EXCEPT ![f] = FALSE] ELSE button
  PROVE  FormInv'
  <1> DEFINE n == Len(clicks) + 1
  <1>1. /\ button[f]
        /\ clicks' = Append(clicks, [form |-> f, step |-> step])
    BY DEF Click
  <1>2. /\ clicks' \in Seq(Clicked)
        /\ DOMAIN clicks' = DOMAIN clicks \cup {n}
        /\ n \notin DOMAIN clicks
        /\ clicks'[n] = [form |-> f, step |-> step]
        /\ \A c \in DOMAIN clicks : clicks'[c] = clicks[c]
    BY <1>1 DEF FormInv, FormTypes, Clicked
  <1> HIDE DEF n
  <1>3. FormTypes'
    BY <1>2 DEF FormInv, FormTypes
  <1>4. \A g \in Form :
          InFlight(g)' = IF step = "post" /\ g = f THEN InFlight(g) \cup {n} ELSE InFlight(g)
    BY <1>2 DEF InFlight
  <1>5. ASSUME NEW g \in Form, WasCut(g) PROVE WasCut(g)'
    BY <1>2, <1>5 DEF WasCut, FormInv, FormTypes
  <1>6. EnabledIfCut'
    <2> SUFFICES ASSUME NEW g \in Form, button'[g], InFlight(g)' # {}
                 PROVE  WasCut(g)'
      BY DEF EnabledIfCut
    <2>1. button[g] /\ ~(step = "post" /\ g = f)
      BY DEF FormInv, FormTypes
    <2>2. WasCut(g)
      BY <1>4, <2>1 DEF FormInv, EnabledIfCut
    <2>3. QED
      BY <1>5, <2>2
  <1>7. TwoIfCut'
    <2> SUFFICES ASSUME NEW g \in Form, NEW c \in InFlight(g)', NEW d \in InFlight(g)', c # d
                 PROVE  WasCut(g)'
      BY DEF TwoIfCut
    <2>1. WasCut(g)
      <3>1. CASE c \in InFlight(g) /\ d \in InFlight(g)
        BY <3>1 DEF FormInv, TwoIfCut
      <3>2. CASE ~(c \in InFlight(g) /\ d \in InFlight(g))
        <4>1. g = f /\ InFlight(g) # {}
          BY <1>4, <3>2
        <4>2. QED
          BY <1>1, <4>1 DEF FormInv, EnabledIfCut
      <3>3. QED
        BY <3>1, <3>2
    <2>2. QED
      BY <1>5, <2>1
  <1>8. QED
    BY <1>3, <1>6, <1>7 DEF FormInv

(* A mint is answered: the button is enabled, and if another is under way  *)
(* there were two.                                                         *)
LEMMA AnswerKeepsFormInv ==
  ASSUME FormInv, NEW c \in DOMAIN clicks, NEW ok \in BOOLEAN, Answer(c, ok)
  PROVE  FormInv'
  <1> DEFINE f == clicks[c].form
             end == IF ok THEN "timer" ELSE "end"
  <1>1. /\ clicks[c].step = "post" /\ f \in Form
        /\ clicks' = [clicks EXCEPT ![c].step = end]
        /\ end \in {"timer", "end"}
        /\ button' = [button EXCEPT ![f] = TRUE]
        /\ cut' = cut
    BY ClickIsOfForm DEF Answer, ButtonAfter
  <1> HIDE DEF end
  <1>2. /\ clicks' \in Seq(Clicked)
        /\ DOMAIN clicks' = DOMAIN clicks
        /\ \A d \in DOMAIN clicks : clicks'[d].form = clicks[d].form
        /\ \A d \in DOMAIN clicks \ {c} : clicks'[d] = clicks[d]
        /\ clicks'[c].step # "post"
    <2>1. /\ clicks' \in Seq(Clicked)
          /\ DOMAIN clicks' = DOMAIN clicks
          /\ clicks'[c] = [form |-> clicks[c].form, step |-> end]
          /\ \A d \in DOMAIN clicks \ {c} : clicks'[d] = clicks[d]
      BY <1>1, ClickMovesOn DEF FormInv
    <2>2. clicks'[c].form = clicks[c].form /\ clicks'[c].step = end
      BY <2>1
    <2>3. QED
      BY <1>1, <2>1, <2>2
  <1>3. c \in InFlight(f)
    <2>1. clicks[c] \in Clicked
      BY ClickIsOfForm
    <2>2. clicks[c] = [form |-> f, step |-> "post"]
      BY <1>1, <2>1 DEF Clicked
    <2>3. QED
      BY <2>2 DEF InFlight
  <1> HIDE DEF f
  <1>4. \A g \in Form : InFlight(g)' \subseteq InFlight(g) \ {c}
    BY <1>2 DEF InFlight
  <1>5. FormTypes'
    BY <1>1, <1>2 DEF FormInv, FormTypes
  <1>6. ASSUME NEW g \in Form, WasCut(g) PROVE WasCut(g)'
    BY <1>1, <1>2, <1>6 DEF WasCut, FormInv, FormTypes
  <1>7. EnabledIfCut'
    <2> SUFFICES ASSUME NEW g \in Form, button'[g], InFlight(g)' # {}
                 PROVE  WasCut(g)
      BY <1>6 DEF EnabledIfCut
    <2>1. CASE g = f
      <3>1. PICK d \in InFlight(f) : d # c
        BY <1>4, <2>1
      <3>2. QED
        BY <1>1, <1>3, <2>1, <3>1 DEF FormInv, TwoIfCut
    <2>2. CASE g # f
      BY <1>1, <1>4, <2>2 DEF FormInv, FormTypes, EnabledIfCut
    <2>3. QED
      BY <2>1, <2>2
  <1>8. TwoIfCut'
    BY <1>4, <1>6 DEF FormInv, TwoIfCut
  <1>9. QED
    BY <1>5, <1>7, <1>8 DEF FormInv

LEMMA FormInvStep ==
  ASSUME FormInv, FormNext \/ UNCHANGED formVars
  PROVE  FormInv'
  <1>1. ASSUME UNCHANGED <<button, clicks, cut>>
        PROVE  FormInv'
    BY <1>1 DEF FormInv, FormTypes, EnabledIfCut, TwoIfCut, InFlight, WasCut
  <1>2. CASE UNCHANGED formVars \/ Others
    BY <1>1, <1>2 DEF formVars, Others
  <1>3. ASSUME NEW f \in Form, Show(f) \/ Cancel(f)
        PROVE  FormInv'
    BY <1>3, HideKeepsFormInv DEF Show, Cancel
  <1>4. ASSUME NEW f \in Form, NEW input \in Input, RefuseClick(f, input)
        PROVE  FormInv'
    <2>1. Click(f, "end") /\ cut' = cut /\ button' = button
      BY <1>4 DEF RefuseClick
    <2>2. PICK step \in {"post", "end"} : step = "end"
      OBVIOUS
    <2>3. QED
      BY <2>1, <2>2, ClickKeepsFormInv
  <1>5. ASSUME NEW f \in Form, NEW input \in Input, Post(f, input)
        PROVE  FormInv'
    <2>1. Click(f, "post") /\ cut' = cut /\ button' = [button EXCEPT ![f] = FALSE]
      BY <1>5 DEF Post, Disabled
    <2>2. PICK step \in {"post", "end"} : step = "post"
      OBVIOUS
    <2>3. QED
      BY <2>1, <2>2, ClickKeepsFormInv
  <1>6. ASSUME NEW c, TimerFires(c)
        PROVE  FormInv'
    <2>1. /\ c \in DOMAIN clicks /\ clicks[c].step = "timer"
          /\ clicks' = [clicks EXCEPT ![c].step = "end"]
          /\ Hide(clicks[c].form, FALSE)
          /\ clicks[c].form \in Form
      BY <1>6, ClickIsOfForm DEF TimerFires, FormInv
    <2>2. QED
      BY <2>1, HideKeepsFormInv
  <1>7. ASSUME NEW c, NEW ok \in BOOLEAN, Answer(c, ok)
        PROVE  FormInv'
    <2>1. c \in DOMAIN clicks
      BY <1>7 DEF Answer
    <2>2. QED
      BY <1>7, <2>1, AnswerKeepsFormInv
  <1>8. QED
    BY <1>2, <1>3, <1>4, <1>5, <1>6, <1>7 DEF FormNext

LEMMA FormInvSuffices == FormInv => OverlapsWereCut
  <1> SUFFICES ASSUME FormInv, NEW f \in Form, Cardinality(InFlight(f)) > 1
               PROVE  WasCut(f)
    BY DEF OverlapsWereCut, WasCut
  <1>1. InFlight(f) # {}
    BY FS_EmptySet
  <1>2. PICK c : c \in InFlight(f)
    BY <1>1
  <1>3. InFlight(f) # {c}
    <2>1. Cardinality({c}) = 1
      BY FS_Singleton
    <2>2. QED
      BY <2>1
  <1>4. PICK d \in InFlight(f) : d # c
    BY <1>2, <1>3
  <1>5. QED
    BY <1>2, <1>4 DEF FormInv, TwoIfCut

-----------------------------------------------------------------------------
(* The log panel.                                                          *)

Logged == [n : Nat, kind : {"log", "top"}]

InRuns(s) == \A i, j \in 1..Len(s) : i < j => InOrder(s[i], s[j])

(* A panel that is read in two runs, with no entry newer than the last.    *)
PanelInv(p) ==
  /\ p \in [children : Seq(Logged), added : Nat, separators : Nat]
  /\ \A i \in 1..Len(p.children) : p.children[i].n <= p.added
  /\ InRuns(p.children)
  /\ IsBounded(p)

(* The newest entry may be put at the bottom, or on top.                   *)
LEMMA LogIsLast ==
  ASSUME NEW e, NEW f, f.kind = "log", e.kind = "log" \/ e.kind = "top", ~(e.n > f.n)
  PROVE  InOrder(e, f)
  BY DEF InOrder

LEMMA TopIsFirst ==
  ASSUME NEW e, NEW f, e.kind = "top", e.n > f.n
  PROVE  InOrder(e, f)
  BY DEF InOrder

(* What is left after entries were removed from one end.                   *)
LEMMA PartKeepsRuns ==
  ASSUME NEW s \in Seq(Logged), InRuns(s), NEW N \in Nat,
         \A i \in 1..Len(s) : s[i].n <= N,
         NEW m \in Nat \ {0}, NEW n \in Nat, n <= Len(s)
  PROVE  LET t == SubSeq(s, m, n)
         IN  /\ t \in Seq(Logged) /\ InRuns(t)
             /\ Len(t) = IF m <= n THEN n - m + 1 ELSE 0
             /\ \A i \in 1..Len(t) : t[i].n <= N
  <1> DEFINE t == SubSeq(s, m, n)
  <1>1. \A i \in m..n : s[i] \in Logged
    OBVIOUS
  <1>2. /\ t \in Seq(Logged)
        /\ Len(t) = IF m <= n THEN n - m + 1 ELSE 0
        /\ \A i \in 1..(n - m + 1) : t[i] = s[m + i - 1]
    BY <1>1, SubSeqProperties
  <1> HIDE DEF t
  <1>3. \A i \in 1..Len(t) : m + i - 1 \in 1..Len(s) /\ t[i] = s[m + i - 1]
    BY <1>2
  <1>4. InRuns(t)
    <2> SUFFICES ASSUME NEW i \in 1..Len(t), NEW j \in 1..Len(t), i < j
                 PROVE  InOrder(t[i], t[j])
      BY DEF InRuns
    <2>1. m + i - 1 \in 1..Len(s) /\ t[i] = s[m + i - 1]
      BY <1>3
    <2>2. m + j - 1 \in 1..Len(s) /\ t[j] = s[m + j - 1]
      BY <1>3
    <2>3. i \in Int /\ j \in Int
      BY <1>2
    <2>4. m + i - 1 < m + j - 1
      BY <2>3
    <2>5. InOrder(s[m + i - 1], s[m + j - 1])
      BY <2>1, <2>2, <2>4 DEF InRuns
    <2>6. QED
      BY <2>1, <2>2, <2>5
  <1>5. QED
    BY <1>2, <1>3, <1>4 DEF t

(* An entry that is newer than all goes to the bottom, or to the top.      *)
LEMMA EntryKeepsRuns ==
  ASSUME NEW s \in Seq(Logged), InRuns(s), NEW N \in Nat,
         \A i \in 1..Len(s) : s[i].n <= N,
         NEW t, \/ t = Append(s, [n |-> N + 1, kind |-> "log"])
                \/ t = <<[n |-> N + 1, kind |-> "top"]>> \o s
  PROVE  /\ t \in Seq(Logged) /\ InRuns(t) /\ Len(t) = Len(s) + 1
         /\ \A i \in 1..Len(t) : t[i].n <= N + 1
  <1>1. \A i \in 1..Len(s) : s[i].n \in Nat /\ s[i].kind \in {"log", "top"}
    <2>1. \A i \in 1..Len(s) : s[i] \in Logged
      OBVIOUS
    <2>2. QED
      BY <2>1 DEF Logged
  <1>2. CASE t = Append(s, [n |-> N + 1, kind |-> "log"])
    <2> DEFINE e == [n |-> N + 1, kind |-> "log"]
    <2>1. e \in Logged /\ e.n = N + 1 /\ e.kind = "log"
      BY DEF Logged
    <2>2. t = Append(s, e)
      BY <1>2
    <2> HIDE DEF e
    <2>3. /\ t \in Seq(Logged) /\ Len(t) = Len(s) + 1 /\ t[Len(s) + 1] = e
          /\ \A i \in 1..Len(s) : t[i] = s[i]
      BY <2>1, <2>2
    <2>4. InRuns(t)
      <3> SUFFICES ASSUME NEW i \in 1..Len(t), NEW j \in 1..Len(t), i < j
                   PROVE  InOrder(t[i], t[j])
        BY DEF InRuns
      <3>1. i \in 1..Len(s) /\ t[i] = s[i]
        BY <2>3
      <3>2. CASE j = Len(s) + 1
        <4>1. t[j].kind = "log" /\ t[j].n = N + 1
          BY <2>1, <2>3, <3>2
        <4>2. t[i].n <= N /\ t[i].n \in Nat /\ t[i].kind \in {"log", "top"}
          BY <1>1, <3>1
        <4>3. ~(t[i].n > t[j].n)
          BY <4>1, <4>2
        <4>4. QED
          BY ONLY <4>1, <4>2, <4>3, LogIsLast
      <3>3. CASE j # Len(s) + 1
        <4>1. j \in 1..Len(s) /\ t[j] = s[j]
          BY ONLY <2>3, <3>3
        <4>2. InOrder(s[i], s[j])
          BY <3>1, <4>1 DEF InRuns
        <4>3. QED
          BY <3>1, <4>1, <4>2
      <3>4. QED
        BY <3>2, <3>3
    <2>5. \A i \in 1..Len(t) : t[i].n <= N + 1
      BY <1>1, <2>1, <2>3
    <2>6. QED
      BY <2>3, <2>4, <2>5
  <1>3. CASE t = <<[n |-> N + 1, kind |-> "top"]>> \o s
    <2> DEFINE e == [n |-> N + 1, kind |-> "top"]
    <2>1. e \in Logged /\ e.n = N + 1 /\ e.kind = "top"
      BY DEF Logged
    <2>2. t = <<e>> \o s
      BY <1>3
    <2> HIDE DEF e
    <2>3. <<e>> \in Seq(Logged) /\ Len(<<e>>) = 1 /\ <<e>>[1] = e
      BY <2>1
    <2>4. /\ t \in Seq(Logged) /\ Len(t) = Len(s) + 1
          /\ \A i \in 1..(1 + Len(s)) : t[i] = IF i <= 1 THEN <<e>>[i] ELSE s[i - 1]
      BY <2>2, <2>3, ConcatProperties
    <2>5. t[1] = e /\ \A i \in 1..Len(t) : i # 1 => i - 1 \in 1..Len(s) /\ t[i] = s[i - 1]
      BY <2>3, <2>4
    <2>6. InRuns(t)
      <3> SUFFICES ASSUME NEW i \in 1..Len(t), NEW j \in 1..Len(t), i < j
                   PROVE  InOrder(t[i], t[j])
        BY DEF InRuns
      <3>1. j - 1 \in 1..Len(s) /\ t[j] = s[j - 1]
        BY <2>4, <2>5
      <3>2. CASE i = 1
        <4>1. t[i].kind = "top" /\ t[i].n = N + 1
          BY <2>1, <2>5, <3>2
        <4>2. t[j].n <= N /\ t[j].n \in Nat /\ t[j].kind \in {"log", "top"}
          BY <1>1, <3>1
        <4>3. t[i].n > t[j].n
          BY <4>1, <4>2
        <4>4. QED
          BY ONLY <4>1, <4>2, <4>3, TopIsFirst
      <3>3. CASE i # 1
        <4>1. i - 1 \in 1..Len(s) /\ t[i] = s[i - 1]
          BY <2>5, <3>3
        <4>2. PICK a \in 1..Len(s), b \in 1..Len(s) : a = i - 1 /\ b = j - 1
          BY <3>1, <4>1
        <4>3. a < b /\ t[i] = s[a] /\ t[j] = s[b]
          BY <3>1, <4>1, <4>2
        <4>4. InOrder(s[a], s[b])
          BY <4>3 DEF InRuns
        <4>5. QED
          BY <4>3, <4>4
      <3>4. QED
        BY <3>2, <3>3
    <2>7. \A i \in 1..Len(t) : t[i].n <= N + 1
      <3> SUFFICES ASSUME NEW i \in 1..Len(t) PROVE t[i].n <= N + 1
        OBVIOUS
      <3>1. CASE i = 1
        BY <2>1, <2>5, <3>1
      <3>2. CASE i # 1
        <4>1. i - 1 \in 1..Len(s) /\ t[i] = s[i - 1]
          BY <2>5, <3>2
        <4>2. s[i - 1].n <= N /\ s[i - 1].n \in Nat
          BY <1>1, <4>1
        <4>3. QED
          BY <4>1, <4>2
      <3>3. QED
        BY <3>1, <3>2
    <2>8. QED
      BY <2>4, <2>6, <2>7
  <1>4. QED
    BY <1>2, <1>3

(* A panel that was trimmed is in order and within the limit.              *)
LEMMA TrimmedInOrder ==
  ASSUME NEW p, PanelInv(p), NEW s \in Seq(Logged), InRuns(s),
         \A i \in 1..Len(s) : s[i].n <= p.added + 1
  PROVE  PanelInv(Trimmed(p, WithoutTop(s))) /\ PanelInv(Trimmed(p, WithoutBottom(s)))
  <1> DEFINE N == p.added + 1
             k == Excess(s)
  <1>1. N \in Nat /\ Len(s) \in Nat /\ MaxChildren \in Nat
    BY PanelAssumption DEF PanelInv
  <1>2. k \in Nat /\ k <= Len(s) /\ Len(s) - k <= MaxChildren
    BY <1>1 DEF Excess
  <1> HIDE DEF k, N
  <1>3. ASSUME NEW t \in Seq(Logged), InRuns(t), Len(t) <= MaxChildren,
               \A i \in 1..Len(t) : t[i].n <= N
        PROVE  PanelInv(Trimmed(p, t))
    <2>1. Trimmed(p, t) = [children |-> t, added |-> N, separators |-> 0]
      BY DEF Trimmed, N
    <2>2. PICK r \in [children : Seq(Logged), added : Nat, separators : Nat] :
            r.children = t /\ r.added = N /\ r.separators = 0 /\ r = Trimmed(p, t)
      BY <1>1, <1>3, <2>1
    <2>3. Len(t) <= MaxChildren + 0
      BY <1>1, <1>3
    <2>4. PanelInv(r)
      BY ONLY <1>3, <2>2, <2>3 DEF PanelInv, IsBounded
    <2>5. QED
      BY <2>2, <2>4
  <1>4. \A i \in 1..Len(s) : s[i].n <= N
    BY DEF N
  <1>5. PanelInv(Trimmed(p, WithoutTop(s)))
    <2>1. k + 1 \in Nat \ {0}
      BY <1>2
    <2> DEFINE t == SubSeq(s, k + 1, Len(s))
    <2>2. /\ t \in Seq(Logged) /\ InRuns(t)
          /\ Len(t) = IF k + 1 <= Len(s) THEN Len(s) - (k + 1) + 1 ELSE 0
          /\ \A i \in 1..Len(t) : t[i].n <= N
      <3>1. s \in Seq(Logged) /\ InRuns(s) /\ Len(s) <= Len(s)
        BY <1>1
      <3>2. QED
        BY ONLY <1>1, <1>4, <2>1, <3>1, PartKeepsRuns
    <2>3. t = WithoutTop(s)
      BY DEF WithoutTop, k
    <2> HIDE DEF t
    <2>4. Len(t) <= MaxChildren
      BY <1>1, <1>2, <2>2
    <2>5. QED
      BY <1>3, <2>2, <2>3, <2>4
  <1>6. PanelInv(Trimmed(p, WithoutBottom(s)))
    <2>1. Len(s) - k \in Nat /\ Len(s) - k <= Len(s)
      BY <1>1, <1>2
    <2> DEFINE t == SubSeq(s, 1, Len(s) - k)
    <2>2. /\ t \in Seq(Logged) /\ InRuns(t)
          /\ Len(t) = IF 1 <= Len(s) - k THEN Len(s) - k - 1 + 1 ELSE 0
          /\ \A i \in 1..Len(t) : t[i].n <= N
      <3>1. s \in Seq(Logged) /\ InRuns(s) /\ 1 \in Nat \ {0}
        OBVIOUS
      <3>2. QED
        BY ONLY <1>1, <1>4, <2>1, <3>1, PartKeepsRuns
    <2>3. t = WithoutBottom(s)
      BY DEF WithoutBottom, k
    <2> HIDE DEF t
    <2>4. Len(t) <= MaxChildren
      BY <1>1, <1>2, <2>2
    <2>5. QED
      BY <1>3, <2>2, <2>3, <2>4
  <1>7. QED
    BY <1>5, <1>6

LEMMA PanelCallsKeepOrder ==
  ASSUME NEW p, PanelInv(p)
  PROVE  /\ PanelInv(AddLog(p)) /\ PanelInv(AddSuccessLog(p))
         /\ PanelInv(AddSeparator(p)) /\ PanelInv(ClearLogs(p))
  <1>1. ASSUME NEW q, PanelInv(q) PROVE PanelInv(AddLog(q))
    <2> DEFINE t == Append(q.children, [n |-> q.added + 1, kind |-> "log"])
    <2>1. q.children \in Seq(Logged) /\ q.added \in Nat
      BY <1>1 DEF PanelInv
    <2>2. t \in Seq(Logged) /\ InRuns(t) /\ \A i \in 1..Len(t) : t[i].n <= q.added + 1
      BY <1>1, <2>1, EntryKeepsRuns DEF PanelInv
    <2>3. AddLog(q) = Trimmed(q, WithoutTop(t))
      BY DEF AddLog, NewEntry
    <2> HIDE DEF t
    <2>4. QED
      BY <1>1, <2>2, <2>3, TrimmedInOrder
  <1> DEFINE t == <<[n |-> p.added + 1, kind |-> "top"]>> \o p.children
  <1>2. p.children \in Seq(Logged) /\ p.added \in Nat /\ p.separators \in Nat
    BY DEF PanelInv
  <1>3. /\ t \in Seq(Logged) /\ InRuns(t) /\ Len(t) = Len(p.children) + 1
        /\ \A i \in 1..Len(t) : t[i].n <= p.added + 1
    BY <1>2, EntryKeepsRuns DEF PanelInv
  <1>4. /\ AddSuccessLog(p) = Trimmed(p, WithoutBottom(t))
        /\ AddSeparator(p) =
             [children |-> t, added |-> p.added + 1, separators |-> p.separators + 1]
    BY DEF AddSuccessLog, AddSeparator, NewEntry
  <1> HIDE DEF t
  <1>5. PanelInv(AddSuccessLog(p))
    BY <1>3, <1>4, TrimmedInOrder
  <1>6. PanelInv(AddSeparator(p))
    <2>1. Len(t) <= MaxChildren + (p.separators + 1)
      BY <1>2, <1>3, PanelAssumption DEF PanelInv, IsBounded
    <2>2. QED
      BY <1>2, <1>3, <1>4, <2>1 DEF PanelInv, IsBounded
  <1>7. PanelInv(ClearLogs(p))
    <2> DEFINE q == [p EXCEPT !.children = << >>]
    <2>1. q = [children |-> << >>, added |-> p.added, separators |-> p.separators]
      BY DEF PanelInv
    <2> HIDE DEF q
    <2>2. PanelInv(q)
      <3>1. q.children = << >> /\ q.added = p.added /\ q.separators = p.separators
        BY <2>1
      <3>2. q \in [children : Seq(Logged), added : Nat, separators : Nat]
        <4>1. << >> \in Seq(Logged)
          OBVIOUS
        <4>2. QED
          BY <1>2, <2>1, <4>1
      <3>3. QED
        BY <1>2, <3>1, <3>2, PanelAssumption DEF PanelInv, InRuns, IsBounded
    <2>3. QED
      BY <1>1, <2>2 DEF ClearLogs, q
  <1>8. QED
    BY <1>1, <1>5, <1>6, <1>7

LEMMA NewPanelInOrder == PanelInv(NewPanel)
  BY PanelAssumption DEF NewPanel, PanelInv, InRuns, IsBounded

LEMMA PanelInvStep ==
  ASSUME PanelInv(panel), FormNext \/ UNCHANGED formVars
  PROVE  PanelInv(panel')
  <1>1. CASE UNCHANGED panel
    BY <1>1
  <1>2. CASE panel' \in {AddLog(panel), AddSuccessLog(panel), AddSeparator(panel), ClearLogs(panel)}
    BY <1>2, PanelCallsKeepOrder
  <1>3. CASE panel' \in {AddLog(AddLog(panel)), AddLog(AddSuccessLog(panel))}
    BY <1>3, PanelCallsKeepOrder
  <1>4. \/ panel' = panel
        \/ panel' \in {AddLog(panel), AddSuccessLog(panel), AddSeparator(panel), ClearLogs(panel)}
        \/ panel' \in {AddLog(AddLog(panel)), AddLog(AddSuccessLog(panel))}
    BY DEF FormNext, formVars, Show, Cancel, RefuseClick, Post, Answer, TimerFires, Others
  <1>5. QED
    BY <1>1, <1>2, <1>3, <1>4

-----------------------------------------------------------------------------
(* The table of transactions.                                              *)

LEMMA RemoveAtIsSeq ==
  ASSUME NEW S, NEW s \in Seq(S), NEW i \in 1..Len(s)
  PROVE  RemoveAt(s, i) \in Seq(S)
  <1>1. SubSeq(s, 1, i - 1) \in Seq(S)
    BY SubSeqProperties
  <1>2. SubSeq(s, i + 1, Len(s)) \in Seq(S)
    BY SubSeqProperties
  <1>3. QED
    BY <1>1, <1>2, ConcatProperties DEF RemoveAt

Asked == [kind : {"list", "search"}, filter : Filter, page : Int]

(* What is known of the bar and the requests without their types.          *)
TableTypes ==
  /\ "shown" \in DOMAIN bar
  /\ flight \in Seq(Asked)
  /\ filter \in Filter
  /\ page \in Int

TableInv == TableTypes /\ BarLeadsOn

LEMMA TableInvInit == TableInit => TableInv
  BY DEF Asked, TableInit, TableInv, TableTypes, BarLeadsOn, NoFilter, Filter

(* While an answer is outstanding the bar need not lead on.                *)
LEMMA RequestKeepsTableInv ==
  ASSUME TableInv, NEW kind \in {"list", "search"}, NEW f \in Filter, NEW p \in Int,
         Request(kind, f, p), bar' = bar, filter' \in Filter, page' \in Int
  PROVE  TableInv'
  <1> DEFINE r == [kind |-> kind, filter |-> f, page |-> p]
  <1>1. /\ flight' = Append(flight, r)
        /\ r \in Asked
    BY DEF Request, Asked
  <1> HIDE DEF r
  <1>2. /\ flight' \in Seq(Asked)
        /\ flight' # << >>
    BY <1>1 DEF TableInv, TableTypes
  <1>3. QED
    BY <1>2 DEF TableInv, TableTypes, BarLeadsOn

LEMMA ListKeepsTableInv ==
  ASSUME TableInv, NEW f \in Filter, NEW p \in Int, List(f, p),
         bar' = bar, filter' \in Filter, page' \in Int
  PROVE  TableInv'
  <1>1. [f EXCEPT !.text = FALSE] \in Filter
    BY DEF Filter
  <1>2. PICK g \in Filter, kind \in {"list", "search"} : Request(kind, g, p)
    BY <1>1 DEF List
  <1>3. QED
    BY <1>2, RequestKeepsTableInv

LEMMA TableInvStep ==
  ASSUME TableInv, TableNext \/ UNCHANGED tableVars
  PROVE  TableInv'
  <1>1. filter \in Filter /\ page \in Int
    BY DEF TableInv, TableTypes
  <1>2. CASE UNCHANGED tableVars
    BY <1>2 DEF tableVars, TableInv, TableTypes, BarLeadsOn
  <1>3. CASE RefreshTransactionList
    BY <1>1, <1>3, ListKeepsTableInv DEF RefreshTransactionList
  <1>4. CASE OpenTab
    <2>1. filter' \in Filter
      BY <1>1, <1>4 DEF OpenTab, Filter
    <2>2. PICK f \in Filter : f = filter' /\ List(f, page)
      BY <1>4, <2>1 DEF OpenTab
    <2>3. QED
      BY <1>1, <1>4, <2>1, <2>2, ListKeepsTableInv DEF OpenTab
  <1>5. ASSUME NEW direction, LoadTransactionPage(direction)
        PROVE  TableInv'
    <2>1. page' \in Int
      BY <1>1, <1>5 DEF LoadTransactionPage
    <2>2. PICK p \in Int : p = page' /\ List(filter, p)
      BY <1>5, <2>1 DEF LoadTransactionPage
    <2>3. QED
      BY <1>1, <1>5, <2>1, <2>2, ListKeepsTableInv DEF LoadTransactionPage
  <1>6. ASSUME NEW f \in Filter, HandleTransactionSearch(f)
        PROVE  TableInv'
    BY <1>6 DEF HandleTransactionSearch, TableInv, TableTypes, BarLeadsOn
  <1>7. CASE PerformTransactionSearch
    BY <1>1, <1>7, RequestKeepsTableInv DEF PerformTransactionSearch
  <1>8. CASE ClearTransactionSearch
    <2>1. NoFilter \in Filter
      BY DEF NoFilter, Filter
    <2>2. QED
      BY <1>8, <2>1, ListKeepsTableInv DEF ClearTransactionSearch
  <1>9. ASSUME NEW i \in DOMAIN flight, OnReply(i)
        PROVE  TableInv'
    <2> DEFINE r == flight[i]
    <2>1. r \in Asked /\ flight' \in Seq(Asked) /\ filter' = filter
      BY <1>9, RemoveAtIsSeq DEF OnReply, TableInv, TableTypes
    <2>2. r.page \in Int
      BY <2>1 DEF Asked
    <2>3. CASE Display(r)
      BY <1>1, <2>1, <2>2, <2>3 DEF Display, TableInv, TableTypes, BarLeadsOn
    <2>4. CASE DisplayError
      <3>1. "shown" \in DOMAIN bar' /\ bar'.shown = FALSE /\ page' = page
        BY <2>4 DEF DisplayError, Hidden, TableInv, TableTypes
      <3>2. QED
        BY <1>1, <2>1, <3>1 DEF TableInv, TableTypes, BarLeadsOn
    <2>5. QED
      BY <1>9, <2>3, <2>4 DEF OnReply
  <1>10. QED
    BY <1>2, <1>3, <1>4, <1>5, <1>6, <1>7, <1>8, <1>9 DEF TableNext

-----------------------------------------------------------------------------
(* The rewards.                                                            *)

Entry == [delegator : Range(Wallets), amount : Int]
Refresh == [at : 1..(Len(Wallets) + 1), total : Int]
Loop == [array : Int, at : Int, asked : Seq(Range(Wallets))]
Array == [entries : Seq(Entry), mixed : BOOLEAN]

RewardsTypes ==
  /\ arrays \in Seq(Array)
  /\ refreshes \in Seq(Refresh)
  /\ Len(arrays) = Len(refreshes) + 1
  /\ loops \in Seq(Loop)

(* A refresh that started alone is alone until the next one starts.        *)
Alone ==
  ~allRewards.mixed => \A r \in DOMAIN refreshes : Runs(r) => r = Len(refreshes)

(* Its list has the wallets that it has been at, and its total counts them.*)
Counts(refresh, entries) ==
  /\ refresh.total = Len(entries)
  /\ \A k \in 1..Len(entries) : \E w \in 1..(refresh.at - 1) : entries[k].delegator = Wallets[w]

Counted ==
  ~allRewards.mixed =>
    IF refreshes = << >> THEN allRewards.entries = << >>
    ELSE Counts(Last(refreshes), allRewards.entries)

Once(entries) ==
  \A j, k \in 1..Len(entries) : entries[j].delegator = entries[k].delegator => j = k

ListedOnce == \A n \in DOMAIN arrays : Once(arrays[n].entries) \/ arrays[n].mixed

(* A loop follows its list.                                                *)
Follows(loop, entries) ==
  /\ Len(loop.asked) = loop.at - 1
  /\ Len(loop.asked) <= Len(entries)
  /\ \A k \in 1..Len(loop.asked) : loop.asked[k] = entries[k].delegator

AskedInOrder ==
  \A i \in DOMAIN loops :
    loops[i].array \in DOMAIN arrays /\ Follows(loops[i], arrays[loops[i].array].entries)

Displayed ==
  /\ SomeRefreshRuns \/ allRewards.mixed
     \/ (display.entries = allRewards.entries /\ display.total = Len(display.entries))
  /\ Wallets = << >> => display.entries = << >> /\ display.total = 0

RewardsInv ==
  /\ RewardsTypes
  /\ Alone
  /\ Counted
  /\ ListedOnce
  /\ AskedInOrder
  /\ Displayed

LEMMA RewardsInvInit == RewardsInit => RewardsInv
  <1> SUFFICES ASSUME RewardsInit PROVE RewardsInv
    OBVIOUS
  <1>1. NoRewards \in Array /\ NoRewards.entries = << >>
    BY DEF NoRewards, Array
  <1>2. /\ arrays = <<NoRewards>> /\ refreshes = << >> /\ loops = << >>
        /\ display.entries = << >> /\ display.total = 0
        /\ allRewards = NoRewards
    BY DEF RewardsInit, allRewards, Last
  <1>3. RewardsTypes
    BY <1>1, <1>2 DEF RewardsTypes
  <1>4. Alone /\ Counted /\ AskedInOrder
    BY <1>1, <1>2 DEF Alone, Counted, AskedInOrder
  <1>5. ListedOnce
    BY <1>1, <1>2 DEF ListedOnce, Once
  <1>6. Displayed
    BY <1>1, <1>2 DEF Displayed
  <1>7. QED
    BY <1>3, <1>4, <1>5, <1>6 DEF RewardsInv

(* A refresh starts on a list of its own.                                  *)
LEMMA StartKeepsRewardsInv ==
  ASSUME RewardsInv, StartRefresh
  PROVE  RewardsInv'
  <1> DEFINE N == Len(refreshes) + 1
             mixed == SomeRefreshRuns
             array == [entries |-> << >>, mixed |-> mixed]
             refresh == [at |-> 1, total |-> 0]
  <1>1. mixed \in BOOLEAN
    BY DEF SomeRefreshRuns
  <1>2. /\ refreshes' = Append(refreshes, refresh)
        /\ arrays' = Append(arrays, array)
        /\ UNCHANGED <<loops, display>>
    BY DEF StartRefresh, Emptied, NoRewards
  <1>3. array \in Array /\ array.entries = << >> /\ array.mixed = mixed
    BY <1>1 DEF Array
  <1>4. refresh \in Refresh /\ refresh.at = 1 /\ refresh.total = 0
    BY RewardsListAssumption DEF Refresh
  <1> HIDE DEF array, refresh
  <1>5. /\ refreshes' \in Seq(Refresh)
        /\ Len(refreshes') = N /\ refreshes'[N] = refresh
        /\ \A r \in 1..(N - 1) : refreshes'[r] = refreshes[r]
    BY <1>2, <1>4 DEF RewardsInv, RewardsTypes
  <1>6. /\ arrays' \in Seq(Array)
        /\ Len(arrays') = N + 1 /\ arrays'[N + 1] = array
        /\ \A n \in 1..N : arrays'[n] = arrays[n]
    BY <1>2, <1>3 DEF RewardsInv, RewardsTypes
  <1>7. allRewards' = array /\ Last(refreshes)' = refresh
    BY <1>5, <1>6 DEF allRewards, Last
  <1>8. RewardsTypes'
    BY <1>2, <1>5, <1>6 DEF RewardsInv, RewardsTypes
  <1>9. N \in Nat \ {0} /\ DOMAIN refreshes' = 1..N /\ DOMAIN refreshes = 1..(N - 1)
        /\ DOMAIN arrays' = 1..(N + 1) /\ DOMAIN arrays = 1..N
    BY <1>5, <1>6 DEF RewardsInv, RewardsTypes
  <1>10. Alone'
    <2> SUFFICES ASSUME ~mixed, NEW r \in 1..N, Runs(r)'
                 PROVE  r = N
      BY <1>3, <1>5, <1>7, <1>9 DEF Alone
    <2>1. CASE r \in 1..(N - 1)
      BY <1>5, <1>9, <2>1 DEF Runs, SomeRefreshRuns
    <2>2. QED
      BY <1>9, <2>1
  <1>11. Counted'
    BY <1>3, <1>4, <1>5, <1>7, <1>9 DEF Counted, Counts
  <1>12. ListedOnce'
    BY <1>3, <1>6, <1>9 DEF RewardsInv, ListedOnce, Once
  <1>13. AskedInOrder'
    BY <1>2, <1>6, <1>9 DEF RewardsInv, AskedInOrder
  <1>14. Displayed'
    <2>1. CASE Wallets = << >>
      BY <1>2, <1>3, <1>7, <2>1 DEF RewardsInv, Displayed
    <2>2. CASE Wallets # << >>
      <3>1. Len(Wallets) >= 1
        BY <2>2, RewardsListAssumption
      <3>2. N \in DOMAIN refreshes' /\ refreshes'[N].at <= Len(Wallets)
        BY <1>4, <1>5, <1>9, <3>1
      <3>3. SomeRefreshRuns'
        BY <3>2 DEF SomeRefreshRuns, Runs
      <3>4. QED
        BY <2>2, <3>3 DEF Displayed
    <2>3. QED
      BY <2>1, <2>2
  <1>15. QED
    BY <1>8, <1>10, <1>11, <1>12, <1>13, <1>14 DEF RewardsInv

LEMMA WalletsDiffer ==
  \A v, w \in 1..Len(Wallets) : Wallets[v] = Wallets[w] => v = w
  <1>1. DOMAIN Wallets = 1..Len(Wallets)
    BY RewardsListAssumption
  <1>2. QED
    BY <1>1, RewardsListAssumption DEF IsInjective

(* An answer goes into the current list, the entry of a wallet that the    *)
(* refresh has not been at if it is alone.                                 *)
LEMMA OnRewardKeepsRewardsInv ==
  ASSUME RewardsInv, NEW r \in DOMAIN refreshes, NEW amount \in 0..1, OnReward(r, amount)
  PROVE  RewardsInv'
  <1> DEFINE N == Len(refreshes)
             at == refreshes[r].at
             next == [at |-> at + 1, total |-> refreshes[r].total + amount]
             entry == [delegator |-> Wallets[at], amount |-> amount]
             old == allRewards.entries
             new == IF amount = 0 THEN old ELSE Append(old, entry)
             array == IF amount = 0 THEN allRewards
                      ELSE [allRewards EXCEPT !.entries = Append(@, entry)]
  <1>1. /\ refreshes \in Seq(Refresh)
        /\ refreshes[r] \in Refresh
        /\ N \in Nat \ {0} /\ r \in 1..N /\ DOMAIN refreshes = 1..N
        /\ arrays \in Seq(Array) /\ Len(arrays) = N + 1
        /\ allRewards = arrays[N + 1] /\ allRewards \in Array
    <2>1. /\ refreshes \in Seq(Refresh)
          /\ arrays \in Seq(Array) /\ Len(arrays) = N + 1
      BY DEF RewardsInv, RewardsTypes
    <2>2. N \in Nat \ {0} /\ r \in 1..N /\ DOMAIN refreshes = 1..N
      BY <2>1
    <2>3. refreshes[r] \in Refresh
      BY <2>1, <2>2
    <2>4. allRewards = arrays[N + 1] /\ allRewards \in Array
      BY <2>1, <2>2 DEF allRewards, Last
    <2>5. QED
      BY <2>1, <2>2, <2>3, <2>4
  <1>2. /\ at <= Len(Wallets) /\ at \in 1..Len(Wallets) /\ Runs(r)
        /\ Wallets[at] \in Range(Wallets)
        /\ refreshes[r].total \in Int
    BY <1>1, RewardsListAssumption DEF OnReward, Runs, Refresh
  <1>3. /\ refreshes' = [refreshes EXCEPT ![r] = next]
        /\ arrays' = [arrays EXCEPT ![N + 1] = array]
        /\ display' = IF next.at > Len(Wallets)
                      THEN [entries |-> array.entries, total |-> next.total] ELSE display
        /\ loops' = loops
    BY <1>1 DEF OnReward, Change
  <1>4. next \in Refresh /\ next.at = at + 1
        /\ next.total = refreshes[r].total + amount
    <2>1. Len(Wallets) \in Nat
      BY RewardsListAssumption
    <2>2. at + 1 \in 1..(Len(Wallets) + 1) /\ refreshes[r].total + amount \in Int
      BY <1>2, <2>1
    <2>3. QED
      BY <2>2 DEF Refresh
  <1>5. /\ old \in Seq(Entry) /\ allRewards.mixed \in BOOLEAN
        /\ entry \in Entry /\ entry.delegator = Wallets[at]
    BY <1>1, <1>2 DEF Array, Entry
  <1>6. array \in Array /\ array.entries = new /\ array.mixed = allRewards.mixed
    <2>1. CASE amount = 0
      BY <1>1, <2>1
    <2>2. CASE amount # 0
      <3>1. Append(old, entry) \in Seq(Entry)
        BY <1>5
      <3>2. array = [allRewards EXCEPT !.entries = Append(old, entry)] /\ new = Append(old, entry)
        BY <2>2
      <3> HIDE DEF array, new, old, entry
      <3>3. array.entries = new /\ array.mixed = allRewards.mixed /\ array \in Array
        BY <1>1, <3>1, <3>2 DEF Array
      <3>4. QED
        BY <3>3
    <2>3. QED
      BY <2>1, <2>2
  <1> HIDE DEF array, next, entry
  <1>7. /\ new \in Seq(Entry)
        /\ Len(new) = Len(old) + amount
        /\ \A k \in 1..Len(old) : new[k] = old[k]
        /\ amount = 1 => new[Len(old) + 1] = entry
    <2>1. CASE amount = 0
      BY <1>5, <2>1
    <2>2. CASE amount = 1
      BY <1>5, <2>2
    <2>3. QED
      BY <2>1, <2>2
  <1> HIDE DEF new, old
  <1>8. /\ refreshes' \in Seq(Refresh)
        /\ Len(refreshes') = N /\ DOMAIN refreshes' = 1..N
        /\ refreshes'[r] = next
        /\ \A q \in 1..N : q # r => refreshes'[q] = refreshes[q]
    BY <1>1, <1>3, <1>4, ExceptSeq
  <1>9. /\ arrays' \in Seq(Array)
        /\ Len(arrays') = N + 1 /\ DOMAIN arrays' = 1..(N + 1) /\ DOMAIN arrays = 1..(N + 1)
        /\ arrays'[N + 1] = array
        /\ \A n \in 1..N : arrays'[n] = arrays[n]
    BY <1>1, <1>3, <1>6, ExceptSeq
  <1>10. allRewards' = array
    BY <1>9 DEF allRewards, Last
  <1>11. RewardsTypes'
    BY <1>3, <1>8, <1>9 DEF RewardsInv, RewardsTypes
  <1>12. ASSUME NEW q \in 1..N, refreshes'[q].at <= Len(Wallets)
         PROVE  Runs(q)
    <2>1. refreshes[r].at <= Len(Wallets)
      BY ONLY <1>2 DEF Runs
    <2>2. q # r => refreshes[q].at <= Len(Wallets)
      BY ONLY <1>8, <1>12
    <2>3. refreshes[q].at <= Len(Wallets)
      BY ONLY <2>1, <2>2
    <2>4. QED
      BY ONLY <2>3 DEF Runs
  <1>13. Alone'
    <2>1. ASSUME ~allRewards.mixed, NEW q \in 1..N, refreshes'[q].at <= Len(Wallets)
          PROVE  q = N
      <3>1. Alone
        BY DEF RewardsInv
      <3>2. Runs(q)
        BY <1>12, <2>1
      <3>3. q \in DOMAIN refreshes
        BY ONLY <1>1, <2>1
      <3>4. QED
        BY ONLY <2>1, <3>1, <3>2, <3>3 DEF Alone
    <2>2. allRewards'.mixed = allRewards.mixed
      BY ONLY <1>6, <1>10
    <2>3. ASSUME ~allRewards'.mixed, NEW q \in DOMAIN refreshes', Runs(q)'
          PROVE  q = Len(refreshes')
      <3>1. refreshes'[q].at <= Len(Wallets)
        BY ONLY <2>3 DEF Runs
      <3>2. q \in 1..N /\ Len(refreshes') = N
        BY ONLY <1>8, <2>3
      <3>3. QED
        BY ONLY <2>1, <2>2, <2>3, <3>1, <3>2
    <2>4. ~allRewards'.mixed => \A q \in DOMAIN refreshes' : Runs(q)' => q = Len(refreshes')
      BY ONLY <2>3
    <2>5. QED
      BY ONLY <2>4 DEF Alone
  <1>14. ~allRewards.mixed => r = N /\ Counts(refreshes[r], old)
    BY <1>1, <1>2 DEF RewardsInv, Alone, Counted, Last, old
  <1>15. ~allRewards.mixed => Counts(next, new)
    <2> SUFFICES ASSUME ~allRewards.mixed
                 PROVE  Counts(next, new)
      OBVIOUS
    <2>1. next.total = Len(new)
      BY <1>1, <1>4, <1>7, <1>14 DEF Counts
    <2>2. ASSUME NEW k \in 1..Len(new)
          PROVE  \E w \in 1..(next.at - 1) : new[k].delegator = Wallets[w]
      <3>1. CASE k \in 1..Len(old)
        <4>1. PICK w \in 1..(at - 1) : old[k].delegator = Wallets[w]
          BY <1>14, <3>1 DEF Counts
        <4>2. new[k] = old[k]
          BY <1>7, <3>1
        <4>3. w \in 1..(next.at - 1)
          BY <1>2, <1>4, <4>1
        <4>4. QED
          BY <4>1, <4>2, <4>3
      <3>2. CASE k \notin 1..Len(old)
        <4>1. new[k].delegator = Wallets[at]
          BY <1>5, <1>7, <3>2
        <4>2. QED
          BY <1>2, <1>4, <4>1
      <3>3. QED
        BY <3>1, <3>2
    <2>3. QED
      BY <2>1, <2>2 DEF Counts
  <1>16. Counted'
    BY <1>1, <1>6, <1>8, <1>10, <1>14, <1>15 DEF Counted, Last
  <1>17. Once(new) \/ allRewards.mixed
    <2> SUFFICES ASSUME ~allRewards.mixed,
                        NEW j \in 1..Len(new), NEW k \in 1..Len(new),
                        new[j].delegator = new[k].delegator
                 PROVE  j = k
      BY DEF Once
    <2>1. Once(old)
      <3>1. N + 1 \in DOMAIN arrays /\ arrays[N + 1].entries = old /\ ~arrays[N + 1].mixed
        BY <1>1, <1>9 DEF old
      <3>2. QED
        BY <3>1 DEF RewardsInv, ListedOnce
    <2>2. ASSUME NEW i \in 1..Len(old) PROVE new[i].delegator # Wallets[at]
      <3>1. PICK w \in 1..(at - 1) : old[i].delegator = Wallets[w]
        BY <1>14 DEF Counts
      <3>2. new[i].delegator = Wallets[w]
        BY <1>7, <3>1
      <3>3. w \in 1..Len(Wallets) /\ at \in 1..Len(Wallets) /\ w # at
        BY ONLY <1>2, <3>1
      <3>4. QED
        BY <3>2, <3>3, WalletsDiffer
    <2>3. ASSUME NEW i \in 1..Len(new), i \notin 1..Len(old)
          PROVE  i = Len(old) + 1 /\ new[i].delegator = Wallets[at]
      BY <1>5, <1>7, <2>3
    <2>4. QED
      BY <1>7, <2>1, <2>2, <2>3 DEF Once
  <1>18. ListedOnce'
    BY <1>6, <1>9, <1>17 DEF RewardsInv, ListedOnce
  <1>19. AskedInOrder'
    <2> SUFFICES ASSUME NEW i \in DOMAIN loops
                 PROVE  /\ loops[i].array \in DOMAIN arrays'
                        /\ Follows(loops[i], arrays'[loops[i].array].entries)
      BY <1>3 DEF AskedInOrder
    <2>1. loops[i].array \in 1..(N + 1) /\ Follows(loops[i], arrays[loops[i].array].entries)
      BY <1>9 DEF RewardsInv, AskedInOrder
    <2>2. CASE loops[i].array \in 1..N
      BY <1>9, <2>1, <2>2
    <2>3. CASE loops[i].array = N + 1
      <3>1. Follows(loops[i], old) /\ arrays'[loops[i].array].entries = new
        BY <1>1, <1>6, <1>9, <2>1, <2>3 DEF old
      <3>2. Follows(loops[i], new)
        <4>1. Len(loops[i].asked) \in Nat /\ Len(old) \in Nat /\ Len(new) \in Nat
          <5>1. loops[i] \in Loop
            BY DEF RewardsInv, RewardsTypes
          <5>2. QED
            BY <1>5, <1>7, <5>1 DEF Loop
        <4>2. QED
          BY <1>7, <3>1, <4>1 DEF Follows
      <3>3. QED
        BY <1>9, <2>1, <3>1, <3>2
    <2>4. QED
      BY <1>1, <2>1, <2>2, <2>3
  <1>20. Displayed'
    <2>1. Wallets # << >>
      BY <1>2
    <2>2. CASE next.at > Len(Wallets)
      <3>1. display'.entries = new /\ display'.total = next.total
        BY <1>3, <1>6, <2>2
      <3>2. ~allRewards.mixed => next.total = Len(new)
        BY <1>15 DEF Counts
      <3>3. QED
        BY <1>6, <1>10, <2>1, <3>1, <3>2 DEF Displayed
    <2>3. CASE ~(next.at > Len(Wallets))
      <3>1. r \in DOMAIN refreshes' /\ refreshes'[r].at <= Len(Wallets)
        BY <1>1, <1>2, <1>4, <1>8, <2>3, RewardsListAssumption
      <3>2. SomeRefreshRuns'
        BY <3>1 DEF SomeRefreshRuns, Runs
      <3>3. QED
        BY <2>1, <3>2 DEF Displayed
    <2>4. QED
      BY <2>2, <2>3
  <1>21. QED
    BY <1>11, <1>13, <1>16, <1>18, <1>19, <1>20 DEF RewardsInv

LEMMA LoopStartsKeepsRewardsInv ==
  ASSUME RewardsInv, WithdrawAllRewards
  PROVE  RewardsInv'
  <1> DEFINE loop == [array |-> Len(arrays), at |-> 1, asked |-> << >>]
  <1>1. loops' = Append(loops, loop) /\ UNCHANGED <<arrays, refreshes, display>>
    BY DEF WithdrawAllRewards
  <1>2. loop \in Loop /\ loop.array = Len(arrays) /\ loop.array \in DOMAIN arrays
    BY DEF Loop, RewardsInv, RewardsTypes
  <1>3. ASSUME NEW entries \in Seq(Entry) PROVE Follows(loop, entries)
    BY <1>3 DEF Follows
  <1>4. Follows(loop, arrays[loop.array].entries)
    <2>1. arrays[loop.array] \in Array
      BY <1>2 DEF RewardsInv, RewardsTypes
    <2>2. arrays[loop.array].entries \in Seq(Entry)
      BY <2>1 DEF Array
    <2>3. QED
      BY <1>3, <2>2
  <1> HIDE DEF loop
  <1>5. /\ loops' \in Seq(Loop)
        /\ \A i \in DOMAIN loops' :
             (i \in DOMAIN loops /\ loops'[i] = loops[i]) \/ loops'[i] = loop
    BY <1>1, <1>2 DEF RewardsInv, RewardsTypes
  <1>6. AskedInOrder'
    BY <1>1, <1>2, <1>4, <1>5 DEF RewardsInv, AskedInOrder
  <1>7. QED
    BY <1>1, <1>5, <1>6
    DEF RewardsInv, RewardsTypes, Alone, Counted, ListedOnce, Displayed, allRewards,
        SomeRefreshRuns, Runs

LEMMA WithdrawNextKeepsRewardsInv ==
  ASSUME RewardsInv, NEW i \in DOMAIN loops, WithdrawNext(i)
  PROVE  RewardsInv'
  <1> DEFINE loop == loops[i]
             entries == arrays[loop.array].entries
             d == entries[loop.at].delegator
             next == [loop EXCEPT !.at = @ + 1, !.asked = Append(@, d)]
  <1>1. /\ loops \in Seq(Loop) /\ loop \in Loop
        /\ loop.array \in DOMAIN arrays /\ Follows(loop, entries)
    BY DEF RewardsInv, RewardsTypes, AskedInOrder
  <1>2. entries \in Seq(Entry)
    <2>1. arrays[loop.array] \in Array
      BY <1>1 DEF RewardsInv, RewardsTypes
    <2>2. QED
      BY <2>1 DEF Array
  <1>3. /\ loop.at <= Len(entries)
        /\ UNCHANGED <<arrays, refreshes, display>>
        /\ loops' = [loops EXCEPT ![i].at = @ + 1, ![i].asked = Append(@, d)]
    BY DEF WithdrawNext
  <1>4. loop.at \in Int /\ loop.asked \in Seq(Range(Wallets)) /\ loop.array \in Int
    BY <1>1 DEF Loop
  <1> HIDE DEF entries
  <1>5. loop.at \in 1..Len(entries) /\ d \in Range(Wallets)
    <2>1. loop.at \in 1..Len(entries)
      BY <1>1, <1>2, <1>3, <1>4 DEF Follows
    <2>2. entries[loop.at] \in Entry
      BY <1>2, <2>1
    <2>3. QED
      BY <2>1, <2>2 DEF Entry
  <1> HIDE DEF d
  <1>6. loops' = [loops EXCEPT ![i] = next]
    BY <1>1, <1>3
  <1>7. /\ next \in Loop
        /\ next.array = loop.array /\ next.at = loop.at + 1 /\ next.asked = Append(loop.asked, d)
    <2> HIDE DEF loop
    <2>1. Append(loop.asked, d) \in Seq(Range(Wallets)) /\ loop.at + 1 \in Int
      BY <1>4, <1>5
    <2>2. PICK a : a = Append(loop.asked, d)
      OBVIOUS
    <2>3. next = [loop EXCEPT !.at = loop.at + 1, !.asked = a]
      BY <2>2
    <2> HIDE DEF next
    <2>4. next \in Loop /\ next.array = loop.array /\ next.at = loop.at + 1 /\ next.asked = a
      BY <1>1, <1>4, <2>1, <2>2, <2>3 DEF Loop
    <2>5. QED
      BY <2>2, <2>4
  <1> HIDE DEF next
  <1>8. Follows(next, entries)
    <2>1. /\ Len(next.asked) = Len(loop.asked) + 1
          /\ next.asked[Len(loop.asked) + 1] = d
          /\ \A k \in 1..Len(loop.asked) : next.asked[k] = loop.asked[k]
      BY <1>4, <1>7
    <2>2. /\ Len(loop.asked) = loop.at - 1 /\ Len(loop.asked) \in Nat /\ Len(entries) \in Nat
          /\ \A k \in 1..Len(loop.asked) : loop.asked[k] = entries[k].delegator
      BY <1>1, <1>2, <1>4 DEF Follows
    <2>3. d = entries[Len(loop.asked) + 1].delegator
      BY <1>4, <2>2 DEF d
    <2>4. Len(next.asked) = next.at - 1 /\ Len(next.asked) <= Len(entries)
      BY <1>4, <1>5, <1>7, <2>1, <2>2
    <2>5. ASSUME NEW k \in 1..Len(next.asked)
          PROVE  next.asked[k] = entries[k].delegator
      <3>1. CASE k = Len(loop.asked) + 1
        BY <2>1, <2>3, <3>1
      <3>2. CASE k # Len(loop.asked) + 1
        <4>1. k \in 1..Len(loop.asked)
          BY <2>1, <2>2, <3>2
        <4>2. QED
          BY <2>1, <2>2, <4>1
      <3>3. QED
        BY <3>1, <3>2
    <2>6. QED
      BY <2>4, <2>5 DEF Follows
  <1>9. /\ loops' \in Seq(Loop) /\ DOMAIN loops' = DOMAIN loops
        /\ loops'[i] = next /\ \A j \in DOMAIN loops \ {i} : loops'[j] = loops[j]
    <2>1. i \in 1..Len(loops)
      BY <1>1
    <2>2. [loops EXCEPT ![i] = next] \in Seq(Loop)
      BY <1>1, <1>7, <2>1, ExceptSeq
    <2>3. QED
      BY <1>1, <1>6, <2>2
  <1>10. AskedInOrder'
    <2>1. ASSUME NEW j \in DOMAIN loops
          PROVE  /\ loops'[j].array \in DOMAIN arrays
                 /\ Follows(loops'[j], arrays[loops'[j].array].entries)
      <3>1. CASE j = i
        BY <1>1, <1>7, <1>8, <1>9, <3>1 DEF entries
      <3>2. CASE j # i
        BY <1>9, <3>2 DEF RewardsInv, AskedInOrder
      <3>3. QED
        BY <3>1, <3>2
    <2>2. QED
      BY <1>3, <1>9, <2>1 DEF AskedInOrder
  <1>11. QED
    BY <1>3, <1>9, <1>10
    DEF RewardsInv, RewardsTypes, Alone, Counted, ListedOnce, Displayed, allRewards,
        SomeRefreshRuns, Runs

LEMMA RewardsInvStep ==
  ASSUME RewardsInv, RewardsNext \/ UNCHANGED rewardsVars
  PROVE  RewardsInv'
  <1>1. CASE UNCHANGED rewardsVars
    BY <1>1
    DEF rewardsVars, RewardsInv, RewardsTypes, Alone, Counted, ListedOnce, AskedInOrder,
        Displayed, allRewards, SomeRefreshRuns, Runs
  <1>2. CASE StartRefresh
    BY <1>2, StartKeepsRewardsInv
  <1>3. ASSUME NEW r \in DOMAIN refreshes, NEW amount \in 0..1, OnReward(r, amount)
        PROVE  RewardsInv'
    BY <1>3, OnRewardKeepsRewardsInv
  <1>4. CASE WithdrawAllRewards
    BY <1>4, LoopStartsKeepsRewardsInv
  <1>5. ASSUME NEW i \in DOMAIN loops, WithdrawNext(i)
        PROVE  RewardsInv'
    BY <1>5, WithdrawNextKeepsRewardsInv
  <1>6. QED
    BY <1>1, <1>2, <1>3, <1>4, <1>5 DEF RewardsNext

LEMMA RewardsInvSuffices == RewardsInv => RewardsOnce
  <1> SUFFICES ASSUME RewardsInv PROVE RewardsOnce
    OBVIOUS
  <1>1. ASSUME NEW i \in DOMAIN loops, ~arrays[loops[i].array].mixed
        PROVE  IsInjective(loops[i].asked)
    <2> DEFINE entries == arrays[loops[i].array].entries
    <2>1. Once(entries) /\ Follows(loops[i], entries)
      BY <1>1 DEF RewardsInv, ListedOnce, AskedInOrder
    <2>2. loops[i] \in Loop
      BY DEF RewardsInv, RewardsTypes
    <2>3. DOMAIN loops[i].asked = 1..Len(loops[i].asked) /\ Len(loops[i].asked) \in Nat
      BY <2>2 DEF Loop
    <2>4. entries \in Seq(Entry)
      <3>1. loops[i].array \in DOMAIN arrays /\ arrays \in Seq(Array)
        BY DEF RewardsInv, RewardsTypes, AskedInOrder
      <3>2. arrays[loops[i].array] \in Array
        BY <3>1
      <3>3. QED
        BY <3>2 DEF Array
    <2> HIDE DEF entries
    <2>5. Len(entries) \in Nat
      BY <2>4
    <2>6. QED
      BY <2>1, <2>3, <2>5 DEF Once, Follows, IsInjective
  <1>2. QED
    BY <1>1 DEF RewardsInv, Displayed, RewardsOnce

-----------------------------------------------------------------------------
(* The page.  A tab rests while another is open.                           *)

TabsInv == FormInv /\ PanelInv(panel) /\ TableInv /\ RewardsInv

LEMMA TabsInvInit == Init => TabsInv
  <1> SUFFICES ASSUME Init PROVE TabsInv
    OBVIOUS
  <1>1. FormInv /\ TableInv /\ RewardsInv
    BY FormInvInit, TableInvInit, RewardsInvInit DEF Init
  <1>2. PanelInv(panel)
    BY NewPanelInOrder DEF Init, FormInit
  <1>3. QED
    BY <1>1, <1>2 DEF TabsInv

LEMMA TabsInvStep == TabsInv /\ [Next]_vars => TabsInv'
  <1> SUFFICES ASSUME TabsInv, [Next]_vars PROVE TabsInv'
    OBVIOUS
  <1>1. FormInv' /\ PanelInv(panel')
    <2>1. FormNext \/ UNCHANGED formVars
      BY DEF Next, TokenTab, WalletTab, ValidatorTab, vars
    <2>2. QED
      BY <2>1, FormInvStep, PanelInvStep DEF TabsInv
  <1>2. TableInv'
    <2>1. TableNext \/ UNCHANGED tableVars
      BY DEF Next, TokenTab, WalletTab, ValidatorTab, vars
    <2>2. QED
      BY <2>1, TableInvStep DEF TabsInv
  <1>3. RewardsInv'
    <2>1. RewardsNext \/ UNCHANGED rewardsVars
      BY DEF Next, TokenTab, WalletTab, ValidatorTab, vars
    <2>2. QED
      BY <2>1, RewardsInvStep DEF TabsInv
  <1>4. QED
    BY <1>1, <1>2, <1>3 DEF TabsInv

LEMMA TabsInvAlways == Spec => []TabsInv
  BY TabsInvInit, TabsInvStep, PTL DEF Spec

(* Two mints of a form are under way at once only after the form was       *)
(* hidden during one of them (mintTokens, realMintTokens).                 *)
THEOREM MintsOverlapIfCut == Spec => []OverlapsWereCut
  <1>1. TabsInv => OverlapsWereCut
    BY FormInvSuffices DEF TabsInv
  <1>2. QED
    BY <1>1, TabsInvAlways, PTL

(* The log panel is read in two runs and exceeds its limit by separators   *)
(* only (addLog, addTransferLog, addSuccessLog, clearLogs).                *)
THEOREM PanelStaysInOrder == Spec => []PanelInOrder
  <1>1. TabsInv => PanelInOrder
    BY DEF TabsInv, PanelInv, PanelInOrder, InRuns, IsTwoRuns
  <1>2. QED
    BY <1>1, TabsInvAlways, PTL

(* The bar under the table of transactions names the page that the table   *)
(* shows, once all answers are there (updateTransactionPagination).        *)
THEOREM PagesLeadOn == Spec => []BarLeadsOn
  <1>1. TabsInv => BarLeadsOn
    BY DEF TabsInv, TableInv
  <1>2. QED
    BY <1>1, TabsInvAlways, PTL

(* No rewards are asked for twice and the total fits the list, unless two  *)
(* refreshes were under way at once (refreshRewards, withdrawAllRewards).  *)
THEOREM RewardsCountOnce == Spec => []RewardsOnce
  <1>1. TabsInv => RewardsOnce
    BY RewardsInvSuffices DEF TabsInv
  <1>2. QED
    BY <1>1, TabsInvAlways, PTL
=============================================================================
