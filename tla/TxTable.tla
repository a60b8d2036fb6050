------------------------------ MODULE TxTable ------------------------------
(***************************************************************************)
(* The table of transactions of blockchain-explorer.html: pages of the     *)
(* listing, filtered by account, and searches half a second after the last *)
(* change of a filter.  Every answer is shown when it arrives, whatever    *)
(* was asked for since.  The server's answers are those of TxListing, of   *)
(* which only the number of rows matters here.                             *)
(***************************************************************************)
EXTENDS Integers, Sequences, SequencesExt

CONSTANTS
  PageSize,     \* transactionPageSize (10)
  Rows,         \* per filter, the transactions it matches
  MaxRequests   \* bound: requests

(* Whether an account is selected, and a text or a type to search for.     *)
Filter == [account : BOOLEAN, text : BOOLEAN]

ASSUME TableAssumption ==
  /\ PageSize \in Nat \ {0} /\ MaxRequests \in Nat
  /\ Rows \in [Filter -> Nat]

NoFilter == [account |-> FALSE, text |-> FALSE]

VARIABLES
  filter,       \* the contents of the filters
  armed,        \* searchTimeout
  page,         \* currentTransactionPage
  table,        \* what is shown: a request that was answered, or NoTable
  bar,          \* transaction-pagination: whether it is shown, the page it
                \* names, the buttons that are enabled
  flight,       \* the requests that are not answered
  sent          \* requests so far

tableVars == <<filter, armed, page, table, bar, flight, sent>>

NoTable == [kind |-> "nothing", filter |-> NoFilter, page |-> 0]

TableInit ==
  /\ filter = NoFilter
  /\ armed = FALSE
  /\ page = 1
  /\ table = NoTable
  /\ bar = [shown |-> FALSE, page |-> 1, prev |-> FALSE, next |-> TRUE]
  /\ flight = << >>
  /\ sent = 0

-----------------------------------------------------------------------------
Request(kind, f, p) ==
  /\ sent < MaxRequests
  /\ sent' = sent + 1
  /\ flight' = Append(flight, [kind |-> kind, filter |-> f, page |-> p])

(* A listing is filtered by account only.                                  *)
List(f, p) == Request("list", [f EXCEPT !.text = FALSE], p)

(* refreshTransactionList, also from other parts of the page.              *)
RefreshTransactionList ==
  /\ List(filter, page)
  /\ UNCHANGED <<filter, armed, page, table, bar>>

(* The tab is opened: the selection of accounts is made anew.              *)
OpenTab ==
  /\ filter' = [filter EXCEPT !.account = FALSE]
  /\ List(filter', page)
  /\ UNCHANGED <<armed, page, table, bar>>

LoadTransactionPage(direction) ==
  /\ bar.shown
  /\ \/ /\ direction = "prev" /\ bar.prev
        /\ page' = IF page > 1 THEN page - 1 ELSE page
     \/ /\ direction = "next" /\ bar.next
        /\ page' = page + 1
  /\ List(filter, page')
  /\ UNCHANGED <<filter, armed, table, bar>>

(* A filter changes; the timer starts again.                               *)
HandleTransactionSearch(f) ==
  /\ filter # f
  /\ filter' = f
  /\ armed' = TRUE
  /\ UNCHANGED <<page, table, bar, flight, sent>>

PerformTransactionSearch ==
  /\ armed
  /\ armed' = FALSE
  /\ Request("search", filter, 1)
  /\ UNCHANGED <<filter, page, table, bar>>

(* The timer of a search goes on.                                          *)
ClearTransactionSearch ==
  /\ filter' = NoFilter
  /\ page' = 1
  /\ List(NoFilter, 1)
  /\ UNCHANGED <<armed, table, bar>>

-----------------------------------------------------------------------------
RowsOf(r) ==
  LET rest == Rows[r.filter] - (r.page - 1) * PageSize
  IN  IF rest < 0 THEN 0 ELSE IF rest > PageSize THEN PageSize ELSE rest

(* Mutant of Hidden: an error leaves the bar as it is.                     *)
StillThere == bar

Hidden == [bar EXCEPT !.shown = FALSE]

(* displayTransactions and updateTransactionPagination.                    *)
Display(r) ==
  /\ table' = r
  /\ bar' = [shown |-> RowsOf(r) > 0, page |-> r.page,
             prev |-> r.page > 1, next |-> RowsOf(r) >= PageSize]
  /\ page' = r.page

DisplayError ==
  /\ table' = NoTable
  /\ bar' = Hidden
  /\ UNCHANGED page

(* Answers arrive in any order, or not.                                    *)
OnReply(i) ==
  /\ flight' = RemoveAt(flight, i)
  /\ Display(flight[i]) \/ DisplayError
  /\ UNCHANGED <<filter, armed, sent>>

TableNext ==
  \/ RefreshTransactionList \/ OpenTab
  \/ \E direction \in {"prev", "next"} : LoadTransactionPage(direction)
  \/ \E f \in Filter : HandleTransactionSearch(f)
  \/ PerformTransactionSearch \/ ClearTransactionSearch
  \/ \E i \in DOMAIN flight : OnReply(i)

-----------------------------------------------------------------------------
(* When no answer is outstanding, a bar that is shown names the page that  *)
(* is in the table, and its buttons lead to the pages next to it: however  *)
(* often they were clicked before an answer, in whatever order listings    *)
(* and searches were answered and whichever of them failed.                *)
BarLeadsOn ==
  bar.shown /\ flight = << >> => table.page = page /\ bar.page = page
=============================================================================
