------------------------------ MODULE LogPanel ------------------------------
(***************************************************************************)
(* The log panel of blockchain-explorer.html, as functions of the panel    *)
(* (MintForm has it as a variable).  addLog puts an entry at the bottom    *)
(* and then removes entries from the top until 100 are left;               *)
(* addTransferLog and addSuccessLog put one at the top and remove from the *)
(* bottom; the separators around a transfer go to the top and nothing is   *)
(* removed.                                                                *)
(***************************************************************************)
EXTENDS Integers, Sequences

CONSTANTS
  MaxChildren   \* entries the panel keeps (100)

ASSUME PanelAssumption == MaxChildren \in Nat \ {0}

(* A panel has its children from top to bottom, the number of entries ever *)
(* added, and, as history, that of separators added since it was last      *)
(* trimmed.  An entry is its number and its kind.                          *)
NewPanel == [children |-> << >>, added |-> 0, separators |-> 0]

-----------------------------------------------------------------------------
Excess(s) == IF Len(s) > MaxChildren THEN Len(s) - MaxChildren ELSE 0

WithoutTop(s) == SubSeq(s, Excess(s) + 1, Len(s))

WithoutBottom(s) == SubSeq(s, 1, Len(s) - Excess(s))

NewEntry(p, kind) == [n |-> p.added + 1, kind |-> kind]

Trimmed(p, s) == [children |-> s, added |-> p.added + 1, separators |-> 0]

AddLog(p) == Trimmed(p, WithoutTop(Append(p.children, NewEntry(p, "log"))))

(* Mutant of AddSuccessLog: it inserts as addLog does.                     *)
AppendSuccessLog(p) ==
  Trimmed(p, WithoutBottom(Append(p.children, NewEntry(p, "top"))))

(* addSuccessLog and addTransferLog.                                       *)
AddSuccessLog(p) ==
  Trimmed(p, WithoutBottom(<<NewEntry(p, "top")>> \o p.children))

(* addTransferSeparator and addTransferEndSeparator.                       *)
AddSeparator(p) ==
  [children |-> <<NewEntry(p, "top")>> \o p.children,
   added |-> p.added + 1,
   separators |-> p.separators + 1]

ClearLogs(p) == AddLog([p EXCEPT !.children = << >>])

-----------------------------------------------------------------------------
InOrder(e, f) ==
  IF e.kind = f.kind THEN (e.kind = "top") = (e.n > f.n) ELSE e.kind = "top"

(* Two runs: entries put on top, newest first; then the others, oldest     *)
(* first.                                                                  *)
IsTwoRuns(p) ==
  \A i, j \in 1..Len(p.children) : i < j => InOrder(p.children[i], p.children[j])

(* Only separators that were added since an entry was exceed the limit.    *)
IsBounded(p) == Len(p.children) <= MaxChildren + p.separators
=============================================================================
