------------------------------ MODULE Listing ------------------------------
(***************************************************************************)
(* The lists of the shop, page by page.  A page is two queries, of the     *)
(* rows and of their number, each on its own; while somebody turns the     *)
(* pages, rows are created and deleted.  skip and take count rows from the *)
(* first one in the order asked for, whatever was shown before.            *)
(*                                                                         *)
(* Rows are numbered in the order of createdAt, which is never the same    *)
(* for two.  The size of a page is the default limit: the controllers pass *)
(* on the one of the query as the string it is.                            *)
(***************************************************************************)
EXTENDS Integers, FiniteSets

CONSTANTS
  Limit,    \* rows on a page
  MaxRows,  \* BOUND: rows ever created
  AtFirst,  \* BOUND: rows at first
  Lists     \* the lists that are read

ASSUME ListingAssumption ==
  Limit \in Nat \ {0} /\ MaxRows \in Nat /\ AtFirst \in 0..MaxRows

-----------------------------------------------------------------------------
(* The lists: the orders a caller can get ("any": orderBy names no         *)
(* direction), when the rows are counted, how the number of pages is       *)
(* rounded, and whether rows can be deleted.                               *)

\* The controller's default is createdAt without a direction.
TransactionsOfUser ==
  [orders |-> {"any", "newest", "oldest"}, counted |-> "after",
   rounded |-> "nearest", deletable |-> FALSE]
TransactionsOfAll ==
  [orders |-> {"newest", "oldest"}, counted |-> "after",
   rounded |-> "up", deletable |-> FALSE]
DepositsOfUser ==
  [orders |-> {"newest"}, counted |-> "after",
   rounded |-> "up", deletable |-> FALSE]
DepositsOfAll == TransactionsOfAll
MutationsOfUser == DepositsOfUser
MutationsOfAll ==
  [orders |-> {"newest", "oldest"}, counted |-> "never",
   rounded |-> "up", deletable |-> FALSE]
AllUsers == MutationsOfAll
AllProducts ==
  [orders |-> {"newest", "oldest"}, counted |-> "before",
   rounded |-> "up", deletable |-> TRUE]
AllProductGroups == AllProducts
AllPaymentMethods ==
  [orders |-> {"newest", "oldest"}, counted |-> "after",
   rounded |-> "up", deletable |-> TRUE]

EveryList ==
  {TransactionsOfUser, TransactionsOfAll, DepositsOfUser, DepositsOfAll,
   MutationsOfUser, MutationsOfAll, AllUsers, AllProducts, AllProductGroups,
   AllPaymentMethods}

ASSUME ListsAssumption == Lists \subseteq EveryList

-----------------------------------------------------------------------------

VARIABLES
  rows,     \* the rows of the table
  created,  \* the number of the last row created
  reader    \* the page somebody looks at, and what was shown before

listVars == <<rows, created, reader>>

\* page, pages: the page and the number of pages of the last answer; counting:
\* rows were counted for the answer; due, shown, twice: rows there at first and
\* not deleted since, rows shown, rows shown on two pages; grown: a row was
\* created since the listing began; raced: one between the count and the rows
\* of a page; shrunk: a row was deleted.
Reader ==
  [at : {"closed"}] \cup
  [at : {"ask", "half", "answered"}, list : EveryList,
   order : {"any", "newest", "oldest"}, page : 1..(MaxRows + 1),
   pages : 0..MaxRows, more : BOOLEAN, due : SUBSET (1..MaxRows),
   shown : SUBSET (1..MaxRows), twice : SUBSET (1..MaxRows),
   grown : BOOLEAN, raced : BOOLEAN, shrunk : BOOLEAN]

Closed == [at |-> "closed"]

ListInit ==
  /\ rows = 1..AtFirst
  /\ created = AtFirst
  /\ reader = Closed

\* orderBy: the place of a row in the order, counted from one.
Place(order, row) ==
  Cardinality({r \in rows : IF order = "oldest" THEN r <= row ELSE r >= row})

\* Mutants of OnPage: pages are counted from nought; take asks for one row
\* more than a page holds, to see whether there are more.
OnPageFromZero(page, place) ==
  place > page * Limit /\ place <= (page + 1) * Limit
OnPageOneMore(page, place) ==
  place > (page - 1) * Limit /\ place <= page * Limit + 1

\* skip and take: the rows skipped fill the pages before this one.
OnPage(page, place) ==
  place > (page - 1) * Limit /\ place <= page * Limit

\* What findMany may return: the rows whose place is on the page; without an
\* order, as many of the rows as there are places on it.
Pages(order, page) ==
  IF order = "any"
    THEN LET places == {i \in 1..Cardinality(rows) : OnPage(page, i)}
         IN  {found \in SUBSET rows : Cardinality(found) = Cardinality(places)}
    ELSE {{row \in rows : OnPage(page, Place(order, row))}}

\* totalPage: Math.ceil, or Math.round, which rounds one half up.
TotalPage(list, n) ==
  CASE list.rounded = "up" -> (n + Limit - 1) \div Limit
    [] list.rounded = "nearest" -> (2 * n + Limit) \div (2 * Limit)

OpenList(list, order) ==
  /\ reader.at = "closed"
  /\ order \in list.orders
  /\ reader' = [at |-> "ask", list |-> list, order |-> order, page |-> 1,
                pages |-> 0, more |-> TRUE, due |-> rows, shown |-> {},
                twice |-> {}, grown |-> FALSE, raced |-> FALSE,
                shrunk |-> FALSE]
  /\ UNCHANGED <<rows, created>>

\* count: the first query of the products, the second one of most.
CountRows ==
  /\ \/ reader.at = "ask" /\ reader.list.counted = "before"
     \/ reader.at = "half" /\ reader.list.counted = "after"
  /\ reader' = [reader EXCEPT
       !.at = IF @ = "ask" THEN "half" ELSE "answered",
       !.pages = TotalPage(reader.list, Cardinality(rows))]
  /\ UNCHANGED <<rows, created>>

\* findMany.
FindRows ==
  /\ \/ reader.at = "ask" /\ reader.list.counted # "before"
     \/ reader.at = "half" /\ reader.list.counted = "before"
  /\ \E found \in Pages(reader.order, reader.page) :
       reader' = [reader EXCEPT
         !.at = IF reader.list.counted = "after" THEN "half" ELSE "answered",
         !.more = found # {},
         !.twice = @ \cup (found \cap reader.shown),
         !.shown = @ \cup found]
  /\ UNCHANGED <<rows, created>>

\* Another page is there, as far as the answer tells: there are that many, or,
\* where they are not counted, this one was not empty.
HasNext ==
  IF reader.list.counted = "never" THEN reader.more
                                   ELSE reader.page < reader.pages

TurnPage ==
  /\ reader.at = "answered"
  /\ HasNext
  /\ reader' = [reader EXCEPT !.at = "ask", !.page = @ + 1, !.raced = FALSE]
  /\ UNCHANGED <<rows, created>>

\* The last page has been seen.
Seen == reader.at = "answered" /\ ~HasNext

CloseList ==
  /\ Seen
  /\ reader' = Closed
  /\ UNCHANGED <<rows, created>>

CreateRow ==
  /\ created < MaxRows
  /\ created' = created + 1
  /\ rows' = rows \cup {created + 1}
  /\ reader' =
       IF reader.at = "closed" THEN reader
       ELSE [reader EXCEPT
              !.grown = TRUE,
              !.raced = @ \/ (reader.at = "half" /\ reader.list.counted = "before")]

\* delete, of the lists whose rows can be.
DeleteRow(row) ==
  /\ reader.at # "closed"
  /\ reader.list.deletable
  /\ row \in rows
  /\ rows' = rows \ {row}
  /\ reader' = [reader EXCEPT !.due = @ \ {row}, !.shrunk = TRUE]
  /\ UNCHANGED created

ListNext ==
  \/ \E list \in Lists, order \in {"any", "newest", "oldest"} :
       OpenList(list, order)
  \/ CountRows \/ FindRows \/ TurnPage \/ CloseList \/ CreateRow
  \/ \E row \in rows : DeleteRow(row)

ListSpec == ListInit /\ [][ListNext]_listVars

-----------------------------------------------------------------------------
(* Properties.                                                             *)

ListTypeOK ==
  /\ rows \subseteq 1..created
  /\ created \in 0..MaxRows
  /\ reader \in Reader

\* Whoever turns the pages to the last one is shown every row that was there
\* all the time, however many rows are created meanwhile
\* (transaction.service.ts:58-86, deposit.service.ts:234-262,
\* balance.service.ts:105-130, users.service.ts:31-51).  Exceptions: rows are
\* deleted meanwhile; a row is created between the count and the rows of the
\* last page, where they are counted first (products.service.ts:21-68); the
\* list has no order; the number of pages is rounded, and less than half a page
\* is missed (transaction.service.ts:47-49, 85).
NothingMissedUnlessMoved ==
  Seen =>
    \/ reader.due \subseteq reader.shown
    \/ reader.shrunk \/ reader.raced
    \/ reader.order = "any"
    \/ /\ reader.list.rounded = "nearest"
       /\ 2 * Cardinality(reader.due \ reader.shown) < Limit

\* A row is shown on two pages only in the newest-first order, when rows were
\* created meanwhile and pushed it on, or in a list without order: a deletion
\* never does it.
ShownTwiceOnlyIfPushed ==
  reader.at # "closed" /\ reader.twice # {} =>
    \/ reader.order = "any"
    \/ reader.order = "newest" /\ reader.grown

=============================================================================
