----------------------------- MODULE TxListing -----------------------------
(***************************************************************************)
(* /transactions/list and /transactions/search of wallet-manager.js: which *)
(* transactions a page shows (getTransactionsFromBlockchain and            *)
(* searchTransactionsFromBlockchain).  The transactions of a few blocks    *)
(* known in advance come first, then those of the latest blocks, newest    *)
(* block first, until there are enough for two pages; what was collected   *)
(* is sorted by time and cut into pages.  A block query gives at most 100  *)
(* transactions, those that do not parse are skipped, and where the latest *)
(* block is not to be had the answer is empty.                             *)
(***************************************************************************)
EXTENDS Integers, Sequences, SequencesExt

CONSTANTS
  Known,        \* knownTxBlocks: heights, in the order of the code
  Window,       \* how far below the latest block the scan goes (50)
  SearchLimit,  \* the listing a search filters (100)
  BlockLimit,   \* transactions a block query gives at most (100)
  MaxHeight,    \* bound: blocks
  MaxTxs,       \* bound: transactions of a block
  MaxTotal,     \* bound: transactions of a chain
  MaxDown,      \* bound: blocks whose query fails
  MaxLimit,     \* bound: page size
  MaxPage,      \* bound: page number
  Type,         \* types of transactions, as a listing names them
  Kind          \* of a transaction: whether it parses, whether the account
                \* of the request is its sender or recipient, its type, and
                \* whether a field of it contains the query string

ASSUME ListingAssumption ==
  /\ Window \in Nat /\ SearchLimit \in Nat \ {0} /\ BlockLimit \in Nat
  /\ {MaxHeight, MaxTxs, MaxTotal, MaxDown, MaxLimit, MaxPage} \subseteq Nat
  /\ Known \in Seq(Nat \ {0})
  /\ Kind \subseteq [parses : BOOLEAN, related : BOOLEAN, type : Type, matching : BOOLEAN]
  /\ "all" \notin Type
  /\ \A i, j \in 1..Len(Known) : i < j => Known[i] > Known[j]

Tx == [height : 1..MaxHeight, place : 1..MaxTxs, kind : Kind]
Query == [filtered : BOOLEAN, page : 1..MaxPage, limit : 1..MaxLimit]

(* The type of a search, "all" if it names none, and whether it has a      *)
(* query string.                                                           *)
SearchFor == [type : Type \cup {"all"}, matching : BOOLEAN]

VARIABLES
  chain,   \* per height, the kinds of its transactions
  query,   \* the request
  search,  \* what a search looks for
  up,      \* whether the node gives its latest block
  down,    \* heights whose query fails
  list,    \* the answer of /transactions/list
  found,   \* the answer of /transactions/search
  done     \* which of the two have been given: "list", "search"

listingVars == <<chain, query, search, up, down, list, found, done>>

Latest == Len(chain)

(* The transactions a query for block h gives: the first of the block.     *)
Txs(h) ==
  [i \in 1..(IF Len(chain[h]) < BlockLimit THEN Len(chain[h]) ELSE BlockLimit) |->
     [height |-> h, place |-> i, kind |-> chain[h][i]]]

-----------------------------------------------------------------------------
(* What is in S of a sequence, in its order.                               *)
Among(s, S) == FlattenSeq([i \in 1..Len(s) |-> IF s[i] \in S THEN <<s[i]>> ELSE << >>])

(* Those that parse, and of an account (isTransactionRelatedToAccount), if *)
(* the request names one.                                                  *)
Wanted(filtered) == {t \in Tx : t.kind.parses /\ (filtered => t.kind.related)}

(* A block that cannot be queried, or does not exist yet, has nothing.     *)
Fetch(h, filtered) ==
  IF h \in 1..Latest /\ h \notin down
  THEN Among(Txs(h), Wanted(filtered))
  ELSE << >>

FromKnown(filtered) == FlattenSeq([i \in 1..Len(Known) |-> Fetch(Known[i], filtered)])

(* Mutant of Enough: one page.                                             *)
EnoughForOne(s, limit) == Len(s) >= limit

(* The scan stops when there are enough transactions for two pages.        *)
Enough(s, limit) == Len(s) >= limit * 2

StartHeight == IF Latest - Window > 1 THEN Latest - Window ELSE 1

(* What has been collected when the scan has gone down to height h.        *)
Scanned(filtered, limit) ==
  LET upTo[h \in StartHeight..Latest + 1] ==
        IF h > Latest THEN FromKnown(filtered)
        ELSE IF Enough(upTo[h + 1], limit) THEN upTo[h + 1]
        ELSE upTo[h + 1] \o Fetch(h, filtered)
  IN  upTo[StartHeight]

(* Mutant of NewestFirst: no sort.                                         *)
Unsorted(s) == s

InBlock(h) == {t \in Tx : t.height = h}

(* Array.sort is stable; blocks have increasing times.                     *)
NewestFirst(s) == FlattenSeq([i \in 1..Latest |-> Among(s, InBlock(Latest + 1 - i))])

PageOf(s, page, limit) ==
  SubSeq(s, (page - 1) * limit + 1,
         IF page * limit < Len(s) THEN page * limit ELSE Len(s))

(* A full page of known transactions is answered at once, unsorted.        *)
EnoughKnown(filtered, limit) == Len(FromKnown(filtered)) >= limit

(* Without the latest block the error is caught: nothing, as a success.    *)
GetTransactions(filtered, page, limit) ==
  IF ~up THEN << >>
  ELSE IF EnoughKnown(filtered, limit)
  THEN PageOf(FromKnown(filtered), page, limit)
  ELSE PageOf(NewestFirst(Scanned(filtered, limit)), page, limit)

(* The filters of a search, each applied if the search has it.             *)
Matching(for) ==
  {t \in Tx : /\ for.type # "all" => t.kind.type = for.type
              /\ for.matching => t.kind.matching}

SearchTransactions(filtered, for, page, limit) ==
  PageOf(Among(GetTransactions(filtered, 1, SearchLimit), Matching(for)), page, limit)

-----------------------------------------------------------------------------
Blocks == UNION {[1..k -> Kind] : k \in 0..MaxTxs}

Chains ==
  {c \in UNION {[1..n -> Blocks] : n \in 1..MaxHeight} : Len(FlattenSeq(c)) <= MaxTotal}

(* Any chain, any request, any queries that fail.                          *)
ListingInit ==
  /\ chain \in Chains
  /\ query \in Query
  /\ search \in SearchFor
  /\ up \in BOOLEAN
  /\ down \in {d \in SUBSET (1..Len(chain)) : Cardinality(d) <= MaxDown}
  /\ list = << >>
  /\ found = << >>
  /\ done = {}

ListTransactions ==
  /\ done' = done \cup {"list"}
  /\ list' = GetTransactions(query.filtered, query.page, query.limit)
  /\ UNCHANGED <<chain, query, search, up, down, found>>

Search ==
  /\ done' = done \cup {"search"}
  /\ found' = SearchTransactions(query.filtered, search, query.page, query.limit)
  /\ UNCHANGED <<chain, query, search, up, down, list>>

ListingNext == ListTransactions \/ Search

ListingSpec == ListingInit /\ [][ListingNext]_listingVars

-----------------------------------------------------------------------------
(* The transactions a request is about that the node gives, newest block   *)
(* first: of the blocks of the window, and of the known blocks below it,   *)
(* those whose query succeeds, of each the first BlockLimit, and of these  *)
(* those that parse.                                                       *)
Covered == {h \in 1..Latest : h >= StartHeight \/ h \in ToSet(Known)} \ down

Reference(filtered) ==
  FlattenSeq([i \in 1..Latest |->
                IF Latest + 1 - i \in Covered
                THEN Among(Txs(Latest + 1 - i), Wanted(filtered))
                ELSE << >>])

KnownIsOld == \A h \in ToSet(Known) : h < StartHeight

(* A page is in order, newest block first, also where blocks known in      *)
(* advance lie in the window that is scanned, and where a full page of     *)
(* them is answered without a sort.                                        *)
PageInOrder ==
  "list" \in done =>
    \A i \in 1..Len(list) - 1 : list[i].height >= list[i + 1].height

(* If the latest block is to be had, and the known blocks lie below the    *)
(* window and do not fill a page, the first page shows exactly the newest  *)
(* of the transactions that the node gives and that parse, although the    *)
(* scan stops early and counts what the known blocks gave; and a search    *)
(* finds all of them that match its type and its query string, and no      *)
(* others, if one listing holds everything.  What is beyond the first      *)
(* BlockLimit of a block, in a block whose query fails, or does not parse  *)
(* is missing from both without a word; and if the latest block is not to  *)
(* be had both are empty, answered as a success like the others.           *)
FirstPageIsNewest ==
  /\ up /\ KnownIsOld =>
       /\ /\ "list" \in done
          /\ query.page = 1
          /\ Len(FromKnown(query.filtered)) < query.limit
          => list = PageOf(Reference(query.filtered), 1, query.limit)
       /\ /\ "search" \in done
          /\ Len(Reference(query.filtered)) <= SearchLimit
          /\ Len(FromKnown(query.filtered)) < SearchLimit
          => found = PageOf(Among(Reference(query.filtered), Matching(search)),
                            query.page, query.limit)
  /\ ~up => list = << >> /\ found = << >>
=============================================================================
