----------------------------- MODULE ViewsProofs -----------------------------
(***************************************************************************)
(* What the views show: the charts of the last twelve months, on every day *)
(* of all years, and the lists, for tables and pages of any size.          *)
(*                                                                         *)
(* Charts: a month that is shorter than 31 days is followed by one of 31,  *)
(* so what setMonth passes on goes to the next month and never further.    *)
(*                                                                         *)
(* Lists: the rows of a table have the places 1, 2, 3, ... in its order.   *)
(* As long as nothing is deleted, the row that is there from the first     *)
(* page on and not yet shown has its place on a page to come               *)
(* (MissingIsAhead): a new row never brings it nearer.  As long as nothing *)
(* is put before them, the rows shown stay on the pages turned             *)
(* (ShownIsBehind): a deletion never pushes one on.                        *)
(*                                                                         *)
(* Shop: a step of the storefront leaves the lists alone and the other way *)
(* round, so the composition has the properties of both.                   *)
(***************************************************************************)
EXTENDS StorefrontProofs, Shop, Charts, FiniteSetTheorems,
        WellFoundedInduction, TLAPS

-----------------------------------------------------------------------------
(* Charts.                                                                 *)

\* No month is longer than 31 days (the calendar setMonth works with).
LEMMA DaysBounded ==
  ASSUME NEW month \in Int PROVE DaysIn(month) \in 28..31
  BY DEF DaysIn

\* After a month of less than 31 days comes one of 31.
LEMMA LongAfterShort ==
  ASSUME NEW month \in Int, DaysIn(month) < 31
  PROVE  DaysIn(month + 1) = 31
<1>1. month % 12 \in {1, 3, 5, 8, 10}
  BY DEF DaysIn
<1>2. (month + 1) % 12 \in {2, 4, 6, 9, 11}
  BY <1>1
<1> QED
  BY <1>2 DEF DaysIn

\* Today is a day of the calendar (the clock that getChartTransactionByUser
\* and getChartBalanceMutationByUser read).
THEOREM Charts_TypeOK == ChartsSpec => []ChartsTypeOK
<1>1. ChartsInit => ChartsTypeOK
  BY ChartsAssumption, DaysBounded DEF ChartsInit, ChartsTypeOK, Dates
<1>2. ChartsTypeOK /\ [NextDay]_today => ChartsTypeOK'
  <2> SUFFICES ASSUME ChartsTypeOK, NextDay PROVE ChartsTypeOK'
    BY DEF ChartsTypeOK
  <2>1. today.month \in Int /\ today.day \in 1..31
    BY ChartsAssumption DEF ChartsTypeOK, Dates
  <2>2. DaysIn(today.month) \in 28..31 /\ DaysIn(today.month + 1) \in 28..31
    BY <2>1, DaysBounded
  <2>3. CASE today.day = DaysIn(today.month)
    <3>1. today' = [month |-> today.month + 1, day |-> 1]
      BY <2>3 DEF NextDay
    <3>2. today.month < 12 * LastYear + 11
      BY <2>3 DEF NextDay
    <3> QED
      BY <2>1, <2>2, <3>1, <3>2, ChartsAssumption DEF ChartsTypeOK, Dates
  <2>4. CASE today.day # DaysIn(today.month)
    <3>1. today' = [month |-> today.month, day |-> today.day + 1]
      BY <2>4 DEF NextDay
    <3> QED
      BY <2>1, <2>2, <2>4, <3>1 DEF ChartsTypeOK, Dates
  <2> QED
    BY <2>3, <2>4
<1> QED
  BY <1>1, <1>2, PTL DEF ChartsSpec

\* What the loop shows i months back, if today is a day: that month, or the
\* next one if it has no such day.
LEMMA MonthShown ==
  ASSUME ChartsTypeOK, NEW i \in 0..11
  PROVE  /\ today.month \in Int /\ today.day \in 1..31
         /\ DaysIn(today.month - i) \in 28..31
         /\ today.day <= DaysIn(today.month - i) => MonthAt(i) = today.month - i
         /\ DaysIn(today.month - i) < today.day =>
              /\ i # 0
              /\ MonthAt(i) = today.month - i + 1
              /\ today.day <= DaysIn(today.month - i + 1)
<1>1. today.month \in Int /\ today.day \in 1..31
  BY ChartsAssumption DEF ChartsTypeOK, Dates
<1>2. DaysIn(today.month - i) \in 28..31
  BY <1>1, DaysBounded
<1>3. DaysIn(today.month - i) < today.day => DaysIn(today.month - i + 1) = 31
  BY <1>1, <1>2, LongAfterShort
<1>4. today.day <= DaysIn(today.month)
  BY DEF ChartsTypeOK
<1>5. DaysIn(today.month - i) < today.day => i # 0
  BY <1>1, <1>2, <1>4
<1> QED
  BY <1>1, <1>2, <1>3, <1>5 DEF MonthAt, SetMonth

\* The chart of the last twelve months, on every day: each of them once, unless
\* it lacks today's day; then the month after it stands in its place
\* (getChartTransactionByUser and getChartBalanceMutationByUser).
THEOREM Charts_Months == ChartsSpec => []MonthsOnceUnlessTheDayIsMissing
<1>1. ASSUME ChartsTypeOK PROVE MonthsOnceUnlessTheDayIsMissing
  <2>1. today.month \in Int /\ today.day \in 1..31
    BY <1>1, ChartsAssumption DEF ChartsTypeOK, Dates
  <2>2. ASSUME NEW i \in 0..11
        PROVE  /\ MonthAt(i) \in LastTwelve \ Missing
               /\ MonthAt(i) = today.month - i
                    <=> DaysIn(today.month - i) >= today.day
               /\ SummedWhole(MonthAt(i))
    <3>1. MonthAt(i) \in LastTwelve
      BY <1>1, <2>1, MonthShown DEF LastTwelve
    <3>2. today.day <= DaysIn(MonthAt(i)) /\ DaysIn(MonthAt(i)) \in 28..31
      <4>1. today.day <= DaysIn(MonthAt(i))
        BY <1>1, <2>1, MonthShown
      <4>2. MonthAt(i) \in Int
        BY <2>1, <3>1 DEF LastTwelve
      <4> QED
        BY <4>1, <4>2, DaysBounded
    <3>3. MonthAt(i) \notin Missing
      BY <2>1, <3>2 DEF Missing
    <3>4. MonthAt(i) = today.month - i <=> DaysIn(today.month - i) >= today.day
      BY <1>1, <2>1, MonthShown
    <3>5. SummedWhole(MonthAt(i))
      BY <2>1, <3>1 DEF SummedWhole, FirstSummed, LastTwelve
    <3> QED
      BY <3>1, <3>3, <3>4, <3>5
  <2>3. ASSUME NEW month \in LastTwelve \ Missing
        PROVE  \E i \in 0..11 : month = MonthAt(i)
    <3> DEFINE back == today.month - month
    <3>1. back \in 0..11 /\ today.month - back = month
      BY <2>1 DEF LastTwelve
    <3>2. month \in Int /\ DaysIn(month) \in 28..31
      BY <2>1, DaysBounded DEF LastTwelve
    <3>3. today.day <= DaysIn(month)
      BY <2>1, <3>2 DEF Missing
    <3>4. MonthAt(back) = month
      <4> HIDE DEF back
      <4> QED BY <1>1, <3>1, <3>3, MonthShown
    <3> QED
      BY <3>1, <3>4
  <2> QED
    BY <2>2, <2>3 DEF MonthsOnceUnlessTheDayIsMissing
<1> QED
  BY <1>1, Charts_TypeOK, PTL

-----------------------------------------------------------------------------
(* Least and greatest numbers.                                             *)

\* Among some numbers there is a least one.
LEMMA LeastOfSome ==
  ASSUME NEW T \in SUBSET Nat, T # {}
  PROVE  \E x \in T : \A y \in T : x <= y
<1>1. \E Less : /\ IsWellFoundedOn(Less, Nat)
                /\ \A x, y \in Nat : y < x => <<y, x>> \in Less
  <2>1. \A x, y \in Nat : y < x => <<y, x>> \in OpToRel(<, Nat)
    BY DEF OpToRel
  <2> QED
    BY <2>1, NatLessThanWellFounded, Zenon
<1>2. PICK Less : /\ IsWellFoundedOn(Less, Nat)
                  /\ \A x, y \in Nat : y < x => <<y, x>> \in Less
  BY <1>1
<1>3. PICK x \in T : \A y \in T : <<y, x>> \notin Less
  BY <1>2, WFMin
<1>4. \A y \in T : ~(y < x)
  BY <1>2, <1>3
<1> QED
  BY <1>4

\* Among some numbers with a bound there is a greatest one.
LEMMA GreatestOfSome ==
  ASSUME NEW n \in Nat, NEW T \in SUBSET (0..n), T # {}
  PROVE  \E x \in T : \A y \in T : x >= y
<1> DEFINE Below == {n - y : y \in T}
<1>0. \A y \in T : y \in 0..n
  OBVIOUS
<1>1. Below \in SUBSET Nat /\ Below # {}
  <2>1. \A y \in T : n - y \in Nat
    BY <1>0
  <2>2. PICK y \in T : TRUE
    OBVIOUS
  <2>3. n - y \in Below
    OBVIOUS
  <2> QED
    BY <2>1, <2>3
<1>2. PICK z \in Below : \A y \in Below : z <= y
  BY <1>1, LeastOfSome
<1>3. PICK x \in T : z = n - x
  OBVIOUS
<1>4. \A y \in T : n - x <= n - y
  BY <1>2, <1>3
<1> QED
  BY <1>0, <1>4

-----------------------------------------------------------------------------
(* Places of rows in an order.                                             *)

\* The rows of a table up to a row, in an order.
UpTo(order, row, table) ==
  {r \in table : IF order = "oldest" THEN r <= row ELSE r >= row}

LEMMA InUpTo ==
  ASSUME NEW order, NEW row, NEW table, NEW r
  PROVE  r \in UpTo(order, row, table) <=>
           /\ r \in table
           /\ order = "oldest" => r <= row
           /\ order # "oldest" => r >= row
  BY DEF UpTo

PlaceIn(order, row, table) == Cardinality(UpTo(order, row, table))

LEMMA PlaceIsPlaceIn ==
  ASSUME NEW order, NEW row
  PROVE  Place(order, row) = PlaceIn(order, row, rows)
  BY DEF Place, PlaceIn, UpTo

\* A table has finitely many rows, and so have its parts.
LEMMA TableFinite ==
  ASSUME NEW n \in Nat, NEW table \in SUBSET (1..n)
  PROVE  /\ IsFiniteSet(table) /\ Cardinality(table) \in 0..n
         /\ \A part \in SUBSET table :
              /\ IsFiniteSet(part)
              /\ Cardinality(part) \in 0..Cardinality(table)
<1>1. IsFiniteSet(1..n) /\ Cardinality(1..n) = n
  BY FS_Interval
<1>2. IsFiniteSet(table) /\ Cardinality(table) <= n
  BY <1>1, FS_Subset
<1>3. Cardinality(table) \in Nat
  BY <1>2, FS_CardinalityType
<1>4. ASSUME NEW part \in SUBSET table
      PROVE  IsFiniteSet(part) /\ Cardinality(part) \in 0..Cardinality(table)
  <2>1. IsFiniteSet(part) /\ Cardinality(part) <= Cardinality(table)
    BY <1>2, FS_Subset
  <2> QED
    BY <1>3, <2>1, FS_CardinalityType
<1> QED
  BY <1>2, <1>3, <1>4

\* A row has a place among the rows of its table.
LEMMA PlaceBounds ==
  ASSUME NEW n \in Nat, NEW table \in SUBSET (1..n), NEW order,
         NEW row \in table
  PROVE  PlaceIn(order, row, table) \in 1..Cardinality(table)
<1>1. UpTo(order, row, table) \in SUBSET table /\ row \in UpTo(order, row, table)
  BY DEF UpTo
<1>2. /\ IsFiniteSet(UpTo(order, row, table))
      /\ Cardinality(UpTo(order, row, table)) \in 0..Cardinality(table)
      /\ Cardinality(table) \in Nat
  BY <1>1, TableFinite
<1>3. Cardinality(UpTo(order, row, table)) # 0
  BY <1>1, <1>2, FS_EmptySet
<1> QED
  BY <1>2, <1>3 DEF PlaceIn

\* A row that comes before another one has a lower place.
LEMMA PlaceGrows ==
  ASSUME NEW n \in Nat, NEW table \in SUBSET (1..n), NEW order,
         NEW row \in table, NEW first \in UpTo(order, row, table), first # row
  PROVE  PlaceIn(order, first, table) < PlaceIn(order, row, table)
<1> DEFINE A == UpTo(order, first, table)
           B == UpTo(order, row, table)
<1>0. row \in Nat /\ first \in Nat /\ \A r \in table : r \in Nat
  BY DEF UpTo
<1>1. A \in SUBSET B /\ row \in B /\ row \notin A
  <2> HIDE DEF A, B
  <2>1. \A r \in A : r \in B
    BY <1>0, InUpTo DEF A, B
  <2>2. row \in B
    BY <1>0, InUpTo DEF B
  <2>3. row \notin A
    BY <1>0, InUpTo DEF A
  <2> QED
    BY <2>1, <2>2, <2>3
<1>2. IsFiniteSet(B) /\ Cardinality(A) \in Nat /\ Cardinality(B) \in Nat
  BY <1>1, PlaceBounds, TableFinite DEF UpTo
<1>3. Cardinality(A) <= Cardinality(B) /\ Cardinality(A) # Cardinality(B)
  BY <1>1, <1>2, FS_Subset
<1> QED
  BY <1>2, <1>3 DEF PlaceIn

\* When rows are added, no place gets lower; when they are taken away, none
\* gets higher.
LEMMA PlaceMonotonic ==
  ASSUME NEW n \in Nat, NEW table \in SUBSET (1..n),
         NEW part \in SUBSET table, NEW order, NEW row
  PROVE  PlaceIn(order, row, part) <= PlaceIn(order, row, table)
<1>1. /\ UpTo(order, row, part) \in SUBSET UpTo(order, row, table)
      /\ UpTo(order, row, table) \in SUBSET table
  BY DEF UpTo
<1> QED
  BY <1>1, TableFinite, FS_Subset DEF PlaceIn

\* A row added after all the others, in the oldest-first order, leaves their
\* places as they are.
LEMMA PlaceKept ==
  ASSUME NEW n \in Nat, NEW table \in SUBSET (1..n), NEW row \in table
  PROVE  PlaceIn("oldest", row, table \cup {n + 1}) = PlaceIn("oldest", row, table)
<1>1. UpTo("oldest", row, table \cup {n + 1}) = UpTo("oldest", row, table)
  BY DEF UpTo
<1> QED
  BY <1>1 DEF PlaceIn

\* The row right before another one.
LEMMA PlaceBefore ==
  ASSUME NEW n \in Nat, NEW table \in SUBSET (1..n), NEW order,
         NEW row \in table, PlaceIn(order, row, table) > 1
  PROVE  \E first \in table :
            PlaceIn(order, row, table) = PlaceIn(order, first, table) + 1
<1> DEFINE T == UpTo(order, row, table) \ {row}
<1>0. \A r \in table : r \in 1..n
  OBVIOUS
<1>1. /\ T \in SUBSET (0..n) /\ T \in SUBSET Nat
      /\ \A r \in T : r \in Nat
      /\ row \in UpTo(order, row, table) /\ row \in Nat
  <2>1. T \in SUBSET table
    BY DEF UpTo
  <2>2. row \in UpTo(order, row, table)
    BY <1>0, InUpTo
  <2> HIDE DEF T
  <2>3. \A r \in T : r \in 0..n /\ r \in Nat
    BY <1>0, <2>1
  <2> QED
    BY <1>0, <2>2, <2>3
<1>2. IsFiniteSet(UpTo(order, row, table))
  BY TableFinite DEF UpTo
<1>3. T # {}
  <2>1. ASSUME T = {} PROVE FALSE
    <3>1. UpTo(order, row, table) = {row}
      BY <1>1, <2>1
    <3> QED
      BY <3>1, FS_Singleton DEF PlaceIn
  <2> QED
    BY <2>1
<1>4. PICK first \in T : UpTo(order, first, table) = T
  <2>1. CASE order = "oldest"
    <3>1. PICK first \in T : \A y \in T : first >= y
      BY <1>1, <1>3, GreatestOfSome
    <3>2. UpTo(order, first, table) = T
      <4>1. first \in Nat /\ first \in table /\ first # row
        BY <1>1 DEF UpTo
      <4>2. ASSUME NEW r \in T PROVE r \in UpTo(order, first, table)
        BY <1>1, <2>1, <3>1, <4>1, <4>2, InUpTo
      <4>3. ASSUME NEW r \in UpTo(order, first, table) PROVE r \in T
        BY <1>0, <1>1, <2>1, <4>1, <4>3, InUpTo
      <4> QED
        BY <4>2, <4>3
    <3> QED
      BY <3>2
  <2>2. CASE order # "oldest"
    <3>1. PICK first \in T : \A y \in T : first <= y
      BY <1>1, <1>3, LeastOfSome
    <3>2. UpTo(order, first, table) = T
      <4>1. first \in Nat /\ first \in table /\ first # row
        BY <1>1 DEF UpTo
      <4>2. ASSUME NEW r \in T PROVE r \in UpTo(order, first, table)
        BY <1>1, <2>2, <3>1, <4>1, <4>2, InUpTo
      <4>3. ASSUME NEW r \in UpTo(order, first, table) PROVE r \in T
        BY <1>0, <1>1, <2>2, <4>1, <4>3, InUpTo
      <4> QED
        BY <4>2, <4>3
    <3> QED
      BY <3>2
  <2> QED
    BY <2>1, <2>2
<1>5. /\ Cardinality(T) = Cardinality(UpTo(order, row, table)) - 1
      /\ Cardinality(UpTo(order, row, table)) \in Nat
  BY <1>1, <1>2, FS_RemoveElement, FS_CardinalityType
<1>6. first \in table
  BY DEF UpTo
<1> QED
  BY <1>4, <1>5, <1>6 DEF PlaceIn

\* There are no gaps: when some row has a place beyond a number, so has one
\* the place that follows it.
LEMMA NextPlaceTaken ==
  ASSUME NEW n \in Nat, NEW table \in SUBSET (1..n), NEW order, NEW skip \in Nat,
         NEW row \in table, PlaceIn(order, row, table) > skip
  PROVE  \E r \in table : PlaceIn(order, r, table) = skip + 1
<1> DEFINE P(r) == PlaceIn(order, r, table)
           T == {P(r) : r \in {q \in table : P(q) > skip}}
<1>1. \A r \in table : P(r) \in Nat /\ P(r) >= 1
  <2>1. Cardinality(table) \in 0..n
    BY TableFinite
  <2> SUFFICES ASSUME NEW r \in table PROVE P(r) \in 1..Cardinality(table)
    BY <2>1
  <2> QED
    BY PlaceBounds
<1>2. T \in SUBSET Nat /\ T # {}
  BY <1>1
<1>3. PICK p \in T : \A y \in T : p <= y
  BY <1>2, LeastOfSome
<1>4. PICK r \in table : p = P(r) /\ P(r) > skip
  OBVIOUS
<1>5. CASE P(r) = 1
  BY <1>1, <1>4, <1>5
<1>6. CASE P(r) > 1
  <2>1. PICK first \in table : P(r) = P(first) + 1
    BY <1>6, PlaceBefore
  <2>2. P(first) <= skip
    <3>1. P(first) > skip => P(first) \in T
      OBVIOUS
    <3>2. P(first) < p
      BY <1>1, <1>4, <2>1
    <3> QED
      BY <1>1, <1>3, <1>4, <3>1, <3>2
  <2> QED
    BY <1>1, <1>4, <2>1, <2>2
<1> QED
  BY <1>1, <1>5, <1>6

\* No more rows have a place beyond a number than there are places beyond it.
LEMMA FewBeyond ==
  ASSUME NEW n \in Nat, NEW table \in SUBSET (1..n), NEW order, NEW skip \in Nat,
         NEW part \in SUBSET {r \in table : PlaceIn(order, r, table) > skip},
         part # {}
  PROVE  Cardinality(part) + skip <= Cardinality(table)
<1> DEFINE P(r) == PlaceIn(order, r, table)
           T == {P(r) : r \in part}
<1>1. \A r \in table : P(r) \in Nat /\ P(r) >= 1
  <2>1. Cardinality(table) \in 0..n
    BY TableFinite
  <2> SUFFICES ASSUME NEW r \in table PROVE P(r) \in 1..Cardinality(table)
    BY <2>1
  <2> QED
    BY PlaceBounds
<1>2. T \in SUBSET Nat /\ T # {}
  BY <1>1
<1>3. PICK p \in T : \A y \in T : p <= y
  BY <1>2, LeastOfSome
<1>4. PICK r \in part : p = P(r)
  OBVIOUS
<1> DEFINE before == UpTo(order, r, table) \ {r}
<1>5. ASSUME NEW q \in before PROVE q \notin part
  <2>1. P(q) < P(r) /\ q \in table
    BY PlaceGrows DEF UpTo
  <2> QED
    BY <1>1, <1>3, <1>4, <2>1
<1>6. part \in SUBSET (table \ before) /\ before \in SUBSET table
  BY <1>5 DEF UpTo
<1>7. /\ IsFiniteSet(table) /\ IsFiniteSet(before) /\ IsFiniteSet(table \ before)
      /\ Cardinality(table) \in Nat /\ Cardinality(before) \in Nat
      /\ Cardinality(part) \in Nat /\ Cardinality(table \ before) \in Nat
  BY <1>6, TableFinite
<1>8. Cardinality(before) = P(r) - 1
  <2> HIDE DEF T, P, before
  <2>1. r \in UpTo(order, r, table) /\ UpTo(order, r, table) \in SUBSET table
    <3>1. r \in table
      OBVIOUS
    <3>2. r <= r /\ r >= r
      BY <3>1
    <3> QED
      BY <3>1, <3>2, Zenon DEF UpTo
  <2> USE DEF before, P
  <2>2. IsFiniteSet(UpTo(order, r, table))
    BY <2>1, TableFinite
  <2> QED
    BY <2>1, <2>2, FS_RemoveElement DEF PlaceIn
<1>9. Cardinality(table \ before) = Cardinality(table) - Cardinality(before)
  <2>1. table \cap before = before
    BY <1>6
  <2> QED
    BY <1>7, <2>1, FS_Difference
<1>10. Cardinality(part) <= Cardinality(table \ before)
  BY <1>6, <1>7, FS_Subset
<1>11. P(r) > skip
  OBVIOUS
<1> QED
  BY <1>1, <1>7, <1>8, <1>9, <1>10, <1>11

-----------------------------------------------------------------------------
(* Numbers of pages.                                                       *)

\* A page more is Limit rows more.
LEMMA PageRows ==
  ASSUME NEW p \in Nat
  PROVE  p * Limit \in Nat /\ (p + 1) * Limit = p * Limit + Limit
BY ListingAssumption, Z3

LEMMA MorePages ==
  ASSUME NEW p \in Nat, NEW q \in Nat, p <= q
  PROVE  p * Limit <= q * Limit
<1>1. q - p \in Nat
  OBVIOUS
<1>2. (q - p) * Limit \in Nat /\ q * Limit \in Nat /\ p * Limit \in Nat
  BY <1>1, PageRows
<1>3. q * Limit = (q - p) * Limit + p * Limit
  BY <1>1, ListingAssumption, Z3
<1> QED
  BY <1>2, <1>3

\* Page p begins at place p at the earliest.
LEMMA PageOfPlace ==
  ASSUME NEW p \in Nat, NEW place \in Nat, place > p * Limit
  PROVE  p < place
BY ListingAssumption, Z3

\* The quotient of the number of rows and the size of a page.
LEMMA Divided ==
  ASSUME NEW a \in Nat, NEW b \in Nat \ {0}
  PROVE  /\ a \div b \in Nat
         /\ b * (a \div b) <= a
         /\ a < b * (a \div b) + b
BY Z3

LEMMA TotalPageUp ==
  ASSUME NEW list, list.rounded = "up", NEW n \in Nat
  PROVE  /\ TotalPage(list, n) \in 0..n
         /\ TotalPage(list, n) * Limit >= n
<1> DEFINE q == (n + Limit - 1) \div Limit
<1>1. TotalPage(list, n) = q
  BY DEF TotalPage
<1>2. n + Limit - 1 \in Nat /\ Limit \in Nat \ {0}
  BY ListingAssumption
<1>3. /\ q \in Nat /\ Limit * q <= n + Limit - 1
      /\ n + Limit - 1 < Limit * q + Limit
  BY <1>2, Divided
<1> HIDE DEF q
<1>4. q * Limit = Limit * q /\ q * Limit \in Nat
  BY <1>2, <1>3, Z3
<1>5. q * Limit >= n
  BY <1>2, <1>3, <1>4
<1>6. q <= n
  <2> SUFFICES ASSUME q > n PROVE FALSE
    BY <1>3
  <2>1. (n + 1) * Limit <= q * Limit
    BY <1>3, MorePages
  <2>2. n * Limit >= n /\ (n + 1) * Limit = n * Limit + Limit
    BY <1>2, Z3
  <2>3. n * Limit \in Nat
    BY PageRows
  <2> QED
    BY <1>2, <1>3, <1>4, <2>1, <2>2, <2>3
<1> QED
  BY <1>1, <1>3, <1>5, <1>6

LEMMA TotalPageNearest ==
  ASSUME NEW list, list.rounded = "nearest", NEW n \in Nat
  PROVE  /\ TotalPage(list, n) \in 0..n
         /\ 2 * n < 2 * (TotalPage(list, n) * Limit) + Limit
<1> DEFINE q == (2 * n + Limit) \div (2 * Limit)
<1>1. TotalPage(list, n) = q
  BY DEF TotalPage
<1>2. 2 * n + Limit \in Nat /\ 2 * Limit \in Nat \ {0} /\ Limit \in Nat \ {0}
  BY ListingAssumption
<1>3. /\ q \in Nat /\ (2 * Limit) * q <= 2 * n + Limit
      /\ 2 * n + Limit < (2 * Limit) * q + 2 * Limit
  BY <1>2, Divided
<1> HIDE DEF q
<1>4. (2 * Limit) * q = 2 * (q * Limit) /\ q * Limit \in Nat
  BY <1>2, <1>3, Z3
<1>5. 2 * n < 2 * (q * Limit) + Limit
  BY <1>2, <1>3, <1>4
<1>6. q <= n
  <2> SUFFICES ASSUME q > n PROVE FALSE
    BY <1>3
  <2>1. (n + 1) * Limit <= q * Limit
    BY <1>3, MorePages
  <2>2. n * Limit >= n /\ (n + 1) * Limit = n * Limit + Limit
    BY <1>2, Z3
  <2>3. n * Limit \in Nat
    BY PageRows
  <2> QED
    BY <1>2, <1>3, <1>4, <2>1, <2>2, <2>3
<1> QED
  BY <1>1, <1>3, <1>5, <1>6

-----------------------------------------------------------------------------
(* The invariant of whoever turns the pages.                               *)

\* The pages whose rows the reader has been shown.
Turned ==
  IF reader.at = "ask" \/ (reader.at = "half" /\ reader.list.counted = "before")
    THEN reader.page - 1 ELSE reader.page

\* What was shown and is still there is on the pages turned.
ShownIsBehind ==
  reader.order = "oldest" \/ (reader.order = "newest" /\ ~reader.grown) =>
    \A row \in reader.shown \cap rows :
      Place(reader.order, row) <= Turned * Limit

\* What was there at first and is yet to be shown is on the pages to come.
MissingIsAhead ==
  reader.order # "any" /\ ~reader.shrunk =>
    \A row \in reader.due \ reader.shown :
      Place(reader.order, row) > Turned * Limit

\* A count that came first still holds when the rows are asked for.
CountIsFresh ==
  reader.at = "half" /\ reader.list.counted = "before"
    /\ ~reader.raced /\ ~reader.shrunk =>
    reader.pages = TotalPage(reader.list, Cardinality(rows))

\* A page with rows on it is one of those there can be.
PageInReach ==
  reader.at = "answered" /\ reader.list.counted = "never" /\ reader.more =>
    reader.page <= MaxRows

ReaderInv ==
  /\ reader.due \subseteq rows
  /\ reader.shown \subseteq 1..created
  /\ ShownIsBehind
  /\ MissingIsAhead
  /\ CountIsFresh
  /\ PageInReach

ListInv ==
  /\ ListTypeOK
  /\ reader.at # "closed" => ReaderInv
  /\ NothingMissedUnlessMoved
  /\ ShownTwiceOnlyIfPushed


OpenReader ==
  [at : {"ask", "half", "answered"}, list : EveryList,
   order : {"any", "newest", "oldest"}, page : 1..(MaxRows + 1),
   pages : 0..MaxRows, more : BOOLEAN, due : SUBSET (1..MaxRows),
   shown : SUBSET (1..MaxRows), twice : SUBSET (1..MaxRows),
   grown : BOOLEAN, raced : BOOLEAN, shrunk : BOOLEAN]

\* What the lists have in common.
LEMMA ListFacts ==
  ASSUME NEW list \in EveryList
  PROVE  /\ list.counted \in {"before", "after", "never"}
         /\ list.rounded \in {"up", "nearest"}
         /\ list.rounded = "nearest" => list.counted = "after"
  BY DEF EveryList, TransactionsOfUser, TransactionsOfAll, DepositsOfUser,
         DepositsOfAll, MutationsOfUser, MutationsOfAll, AllUsers, AllProducts,
         AllProductGroups, AllPaymentMethods

LEMMA OpenFields ==
  ASSUME reader \in Reader, reader.at # "closed"
  PROVE  /\ reader \in OpenReader
         /\ reader.list \in EveryList
         /\ reader.order \in {"any", "newest", "oldest"}
         /\ reader.page \in 1..(MaxRows + 1)
         /\ reader.page \in Nat /\ reader.page - 1 \in Nat
         /\ Turned \in Nat
  <1>1. reader \in OpenReader
    BY DEF Reader, OpenReader
  <1>2. reader.page \in 1..(MaxRows + 1) /\ MaxRows \in Nat
    BY <1>1, ListingAssumption DEF OpenReader
  <1> QED
    BY <1>1, <1>2 DEF OpenReader, Turned

\* The rows of the table, and their places.
LEMMA TableFacts ==
  ASSUME rows \subseteq 1..created, created \in 0..MaxRows
  PROVE  /\ created \in Nat /\ MaxRows \in Nat
         /\ rows \in SUBSET (1..created) /\ rows \in SUBSET (1..MaxRows)
         /\ IsFiniteSet(rows) /\ Cardinality(rows) \in 0..MaxRows
         /\ \A order : \A row \in rows :
              /\ Place(order, row) \in 1..Cardinality(rows)
              /\ Place(order, row) \in Nat
<1>1. created \in Nat /\ MaxRows \in Nat
  BY ListingAssumption
<1>2. rows \in SUBSET (1..created)
  OBVIOUS
<1>3. rows \in SUBSET (1..MaxRows)
  <2> SUFFICES ASSUME NEW row \in rows PROVE row \in 1..MaxRows
    OBVIOUS
  <2>1. row \in 1..created
    OBVIOUS
  <2> QED
    BY <1>1, <2>1
<1>4. IsFiniteSet(rows) /\ Cardinality(rows) \in 0..created
  BY <1>1, <1>2, TableFinite
<1>5. Cardinality(rows) \in 0..MaxRows
  BY <1>1, <1>4
<1>6. ASSUME NEW order, NEW row \in rows
      PROVE  /\ Place(order, row) \in 1..Cardinality(rows)
             /\ Place(order, row) \in Nat
  <2>1. PlaceIn(order, row, rows) \in 1..Cardinality(rows)
    BY <1>1, <1>2, PlaceBounds
  <2> QED
    BY <1>4, <2>1, PlaceIsPlaceIn
<1> QED
  BY <1>1, <1>2, <1>3, <1>4, <1>5, <1>6

\* Whoever has turned as many pages as there are has been shown what is there,
\* or, when their number is rounded to the nearest, all but half a page.
LEMMA NothingBeyond ==
  ASSUME rows \subseteq 1..created, created \in 0..MaxRows,
         NEW order, NEW page \in Nat, NEW list \in EveryList,
         NEW part \in SUBSET rows,
         \A row \in part : Place(order, row) > page * Limit,
         page >= TotalPage(list, Cardinality(rows))
  PROVE  \/ part = {}
         \/ list.rounded = "nearest" /\ 2 * Cardinality(part) < Limit
<1> DEFINE n == Cardinality(rows)
           total == TotalPage(list, n)
<1>1. n \in Nat /\ Limit \in Nat
  BY TableFacts, ListingAssumption
<1>2. page * Limit \in Nat
  BY PageRows
<1> SUFFICES ASSUME part # {}
             PROVE  list.rounded = "nearest" /\ 2 * Cardinality(part) < Limit
  OBVIOUS
<1>3. Cardinality(part) + page * Limit <= n
  <2>1. part \in SUBSET {r \in rows : PlaceIn(order, r, rows) > page * Limit}
    BY PlaceIsPlaceIn
  <2> QED
    BY <1>2, <2>1, TableFacts, FewBeyond
<1>4. Cardinality(part) \in Nat /\ Cardinality(part) # 0
  <2>1. IsFiniteSet(part)
    BY TableFacts, FS_Subset
  <2> QED
    BY <2>1, FS_EmptySet, FS_CardinalityType
<1>5. CASE list.rounded = "up"
  <2>1. total \in 0..n /\ total * Limit >= n
    BY <1>1, <1>5, TotalPageUp
  <2>2. total \in Nat /\ page >= total
    BY <1>1, <2>1
  <2> HIDE DEF total
  <2>3. total * Limit <= page * Limit /\ total * Limit \in Nat
    BY <2>2, MorePages, PageRows
  <2> QED
    BY <1>1, <1>2, <1>3, <1>4, <2>1, <2>3
<1>6. CASE list.rounded = "nearest"
  <2>1. total \in 0..n /\ 2 * n < 2 * (total * Limit) + Limit
    BY <1>1, <1>6, TotalPageNearest
  <2>2. total \in Nat /\ page >= total
    BY <1>1, <2>1
  <2> HIDE DEF total
  <2>3. total * Limit <= page * Limit /\ total * Limit \in Nat
    BY <2>2, MorePages, PageRows
  <2> QED
    BY <1>1, <1>2, <1>3, <1>4, <1>6, <2>1, <2>3
<1> QED
  BY <1>5, <1>6, ListFacts

-----------------------------------------------------------------------------
(* The steps.                                                              *)

LEMMA ListInit_Inv == ListInit => ListInv
<1> SUFFICES ASSUME ListInit PROVE ListInv
  OBVIOUS
<1>1. AtFirst \in 0..MaxRows /\ MaxRows \in Nat
  BY ListingAssumption
<1>2. reader.at = "closed" /\ reader \in Reader
  BY DEF ListInit, Closed, Reader
<1>3. ListTypeOK
  BY <1>1, <1>2 DEF ListInit, ListTypeOK
<1> QED
  BY <1>2, <1>3
     DEF ListInv, NothingMissedUnlessMoved, ShownTwiceOnlyIfPushed, Seen

LEMMA OpenList_Inv ==
  ASSUME ListInv, NEW list \in Lists, NEW order \in {"any", "newest", "oldest"},
         OpenList(list, order)
  PROVE  ListInv'
<1>1. /\ reader' = [at |-> "ask", list |-> list, order |-> order, page |-> 1,
                    pages |-> 0, more |-> TRUE, due |-> rows, shown |-> {},
                    twice |-> {}, grown |-> FALSE, raced |-> FALSE,
                    shrunk |-> FALSE]
      /\ rows' = rows /\ created' = created
      /\ list \in EveryList
  BY ListsAssumption DEF OpenList
<1>2. rows \subseteq 1..created /\ created \in 0..MaxRows
  BY DEF ListInv, ListTypeOK
<1>3. ListTypeOK'
  <2>1. rows \in SUBSET (1..MaxRows) /\ MaxRows \in Nat
    BY <1>2, TableFacts
  <2>2. reader' \in OpenReader
    BY <1>1, <2>1 DEF OpenReader
  <2> QED
    BY <1>1, <1>2, <2>2 DEF ListTypeOK, Reader, OpenReader
<1>4. ReaderInv'
  <2>1. Turned' = 0
    BY <1>1 DEF Turned
  <2>2. \A row \in rows : Place(order, row) > 0 * Limit
    <3>1. 0 * Limit = 0
      BY ListingAssumption
    <3> QED
      BY <1>2, <3>1, TableFacts
  <2>3. MissingIsAhead'
    BY <1>1, <2>1, <2>2 DEF MissingIsAhead, Place
  <2> QED
    BY <1>1, <2>3 DEF ReaderInv, ShownIsBehind, CountIsFresh, PageInReach
<1> QED
  BY <1>1, <1>3, <1>4
     DEF ListInv, NothingMissedUnlessMoved, ShownTwiceOnlyIfPushed, Seen

LEMMA CountRows_Inv ==
  ASSUME ListInv, CountRows
  PROVE  ListInv'
<1> DEFINE total == TotalPage(reader.list, Cardinality(rows))
<1>1. /\ reader.at # "closed" /\ ReaderInv /\ reader \in Reader
      /\ rows \subseteq 1..created /\ created \in 0..MaxRows
      /\ rows' = rows /\ created' = created
  BY DEF CountRows, ListInv, ListTypeOK
<1>2. reader \in OpenReader /\ reader.list \in EveryList /\ reader.page \in Nat
  BY <1>1, OpenFields
<1>3. /\ reader'.at = IF reader.at = "ask" THEN "half" ELSE "answered"
      /\ reader'.pages = total
      /\ reader'.list = reader.list /\ reader'.order = reader.order
      /\ reader'.page = reader.page /\ reader'.more = reader.more
      /\ reader'.due = reader.due /\ reader'.shown = reader.shown
      /\ reader'.twice = reader.twice /\ reader'.grown = reader.grown
      /\ reader'.raced = reader.raced /\ reader'.shrunk = reader.shrunk
      /\ Turned' = Turned
  BY <1>2 DEF CountRows, OpenReader, Turned
<1>4. Cardinality(rows) \in Nat /\ total \in 0..Cardinality(rows)
      /\ Cardinality(rows) \in 0..MaxRows /\ MaxRows \in Nat
  BY <1>1, <1>2, TableFacts, ListFacts, TotalPageUp, TotalPageNearest
<1>5. ListTypeOK'
  <2>1. total \in 0..MaxRows
    BY <1>4
  <2>2. reader' \in OpenReader
    BY <1>2, <2>1 DEF CountRows, OpenReader
  <2> QED
    BY <1>1, <2>2 DEF ListTypeOK, Reader, OpenReader
<1>6. ReaderInv'
  <2>1. ShownIsBehind' /\ MissingIsAhead'
    BY <1>1, <1>3 DEF ReaderInv, ShownIsBehind, MissingIsAhead, Place
  <2>2. CountIsFresh'
    BY <1>1, <1>3 DEF CountIsFresh
  <2>3. PageInReach'
    BY <1>1, <1>3 DEF CountRows, PageInReach
  <2> QED
    BY <1>1, <1>3, <2>1, <2>2, <2>3 DEF ReaderInv
<1>7. NothingMissedUnlessMoved'
  <2> SUFFICES ASSUME Seen', ~reader.shrunk, reader.order # "any"
               PROVE  \/ reader.due \subseteq reader.shown
                      \/ /\ reader.list.rounded = "nearest"
                         /\ 2 * Cardinality(reader.due \ reader.shown) < Limit
    BY <1>3 DEF NothingMissedUnlessMoved
  <2>1. reader.at = "half" /\ reader.list.counted = "after"
    BY <1>3 DEF CountRows, Seen
  <2>2. Turned = reader.page
    BY <2>1 DEF Turned
  <2>3. ~(reader.page < total)
    BY <1>3, <2>1 DEF Seen, HasNext
  <2>4. reader.due \ reader.shown \in SUBSET rows
    BY <1>1 DEF ReaderInv
  <2>5. \A row \in reader.due \ reader.shown :
          Place(reader.order, row) > reader.page * Limit
    BY <1>1, <2>2 DEF ReaderInv, MissingIsAhead
  <2>6. reader.page >= total
    BY <1>2, <1>4, <2>3
  <2>7. \/ reader.due \ reader.shown = {}
        \/ /\ reader.list.rounded = "nearest"
           /\ 2 * Cardinality(reader.due \ reader.shown) < Limit
    BY <1>1, <1>2, <2>4, <2>5, <2>6, NothingBeyond
  <2> QED
    BY <2>7
<1>8. ShownTwiceOnlyIfPushed'
  BY <1>1, <1>3 DEF ListInv, ShownTwiceOnlyIfPushed
<1> QED
  BY <1>5, <1>6, <1>7, <1>8 DEF ListInv

LEMMA TurnPage_Inv ==
  ASSUME ListInv, TurnPage
  PROVE  ListInv'
<1>1. /\ reader.at = "answered" /\ ReaderInv /\ reader \in Reader
      /\ rows \subseteq 1..created /\ created \in 0..MaxRows
      /\ rows' = rows /\ created' = created
  BY DEF TurnPage, ListInv, ListTypeOK
<1>2. reader \in OpenReader /\ reader.list \in EveryList /\ reader.page \in Nat
  BY <1>1, OpenFields
<1>3. /\ reader'.at = "ask" /\ reader'.page = reader.page + 1
      /\ reader'.pages = reader.pages
      /\ reader'.list = reader.list /\ reader'.order = reader.order
      /\ reader'.due = reader.due /\ reader'.shown = reader.shown
      /\ reader'.twice = reader.twice /\ reader'.grown = reader.grown
      /\ reader'.shrunk = reader.shrunk
  BY <1>2 DEF TurnPage, OpenReader
<1>4. Turned' = Turned
  BY <1>1, <1>2, <1>3 DEF Turned
<1>5. reader.page + 1 \in 1..(MaxRows + 1)
  <2>1. MaxRows \in Nat /\ reader.pages \in 0..MaxRows
    BY <1>2, ListingAssumption DEF OpenReader
  <2>2. CASE reader.list.counted = "never"
    BY <1>1, <1>2, <2>1, <2>2 DEF TurnPage, HasNext, ReaderInv, PageInReach
  <2>3. CASE reader.list.counted # "never"
    BY <1>2, <2>1, <2>3 DEF TurnPage, HasNext
  <2> QED
    BY <2>2, <2>3
<1>6. ListTypeOK'
  <2>1. reader' \in OpenReader
    BY <1>2, <1>5 DEF TurnPage, OpenReader
  <2> QED
    BY <1>1, <2>1 DEF ListTypeOK, Reader, OpenReader
<1>7. ReaderInv'
  <2>1. ShownIsBehind' /\ MissingIsAhead'
    BY <1>1, <1>3, <1>4 DEF ReaderInv, ShownIsBehind, MissingIsAhead, Place
  <2>2. CountIsFresh' /\ PageInReach'
    BY <1>3 DEF CountIsFresh, PageInReach
  <2> QED
    BY <1>1, <1>3, <2>1, <2>2 DEF ReaderInv
<1>8. NothingMissedUnlessMoved' /\ ShownTwiceOnlyIfPushed'
  BY <1>1, <1>3
     DEF ListInv, NothingMissedUnlessMoved, Seen, ShownTwiceOnlyIfPushed
<1> QED
  BY <1>6, <1>7, <1>8 DEF ListInv

LEMMA CloseList_Inv ==
  ASSUME ListInv, CloseList
  PROVE  ListInv'
<1>1. reader' = Closed /\ rows' = rows /\ created' = created
  BY DEF CloseList
<1>2. reader'.at = "closed" /\ reader' \in Reader
  BY <1>1 DEF Closed, Reader
<1>3. ListTypeOK'
  BY <1>1, <1>2 DEF ListInv, ListTypeOK
<1> QED
  BY <1>2, <1>3
     DEF ListInv, NothingMissedUnlessMoved, ShownTwiceOnlyIfPushed, Seen


\* What a page in an order shows.
LEMMA FoundInOrder ==
  ASSUME NEW order, order # "any", NEW page \in Nat, page >= 1,
         NEW found \in Pages(order, page)
  PROVE  /\ found \subseteq rows
         /\ \A row \in rows :
              row \in found <=> /\ Place(order, row) > (page - 1) * Limit
                                /\ Place(order, row) <= page * Limit
  BY DEF Pages, OnPage

\* A page is found among those there can be.
LEMMA FoundInReach ==
  ASSUME rows \subseteq 1..created, created \in 0..MaxRows,
         NEW order, NEW page \in Nat, page >= 1,
         NEW found \in Pages(order, page), found # {}
  PROVE  page <= MaxRows
<1> SUFFICES \E place \in Nat : place <= MaxRows /\ place > (page - 1) * Limit
  <2> SUFFICES ASSUME NEW place \in Nat, place <= MaxRows,
                      place > (page - 1) * Limit
               PROVE  page <= MaxRows
    OBVIOUS
  <2>1. page - 1 \in Nat /\ MaxRows \in Nat
    BY ListingAssumption
  <2>2. page - 1 < place
    BY <2>1, PageOfPlace
  <2> QED
    BY <2>1, <2>2
<1>1. /\ MaxRows \in Nat /\ Cardinality(rows) \in Nat
      /\ Cardinality(rows) <= MaxRows
  BY TableFacts
<1>2. CASE order = "any"
  <2> DEFINE places == {i \in 1..Cardinality(rows) : OnPage(page, i)}
  <2>1. found \in SUBSET rows /\ Cardinality(found) = Cardinality(places)
    BY <1>2 DEF Pages
  <2>2. IsFiniteSet(found)
    BY <2>1, TableFacts, FS_Subset
  <2>3. Cardinality(found) # 0
    BY <2>2, FS_EmptySet
  <2>4. places # {}
    BY <2>1, <2>3, FS_EmptySet
  <2>5. PICK i \in 1..Cardinality(rows) : OnPage(page, i)
    BY <2>4
  <2>6. i \in Nat /\ i <= MaxRows /\ i > (page - 1) * Limit
    BY <1>1, <2>5 DEF OnPage
  <2> QED
    BY <2>6
<1>3. CASE order # "any"
  <2>1. PICK row \in rows : Place(order, row) > (page - 1) * Limit
    BY <1>3, FoundInOrder
  <2>2. Place(order, row) \in 1..Cardinality(rows)
    BY TableFacts
  <2>3. Place(order, row) \in Nat /\ Place(order, row) <= MaxRows
    BY <1>1, <2>2
  <2> QED
    BY <2>1, <2>3
<1> QED
  BY <1>2, <1>3

\* A page that shows nothing is the last one: nothing is left.
LEMMA EmptyPageIsLast ==
  ASSUME rows \subseteq 1..created, created \in 0..MaxRows,
         NEW order, order # "any", NEW page \in Nat, page >= 1,
         {} \in Pages(order, page),
         NEW row \in rows
  PROVE  Place(order, row) <= (page - 1) * Limit
<1> DEFINE skip == (page - 1) * Limit
<1>1. skip \in Nat /\ page * Limit = skip + Limit /\ Limit \in Nat \ {0}
  <2>1. page - 1 \in Nat /\ (page - 1) + 1 = page
    OBVIOUS
  <2> QED
    BY <2>1, PageRows, ListingAssumption
<1>2. \A r \in rows : ~(Place(order, r) > skip /\ Place(order, r) <= page * Limit)
  BY FoundInOrder
<1> SUFFICES ASSUME ~(Place(order, row) <= skip) PROVE FALSE
  OBVIOUS
<1> HIDE DEF skip
<1>3. Place(order, row) > skip
  <2>1. Place(order, row) \in Nat
    BY TableFacts
  <2> QED
    BY <1>1, <2>1
<1>4. PICK r \in rows : PlaceIn(order, r, rows) = skip + 1
  <2>1. created \in Nat /\ rows \in SUBSET (1..created)
    BY TableFacts
  <2>2. PlaceIn(order, row, rows) > skip
    BY <1>3, PlaceIsPlaceIn
  <2> QED
    BY <1>1, <2>1, <2>2, NextPlaceTaken
<1>5. Place(order, r) = skip + 1
  BY <1>4, PlaceIsPlaceIn
<1> QED
  BY <1>1, <1>2, <1>5

LEMMA FindRows_Inv ==
  ASSUME ListInv, FindRows
  PROVE  ListInv'
<1> DEFINE page == reader.page
           order == reader.order
<1>1. /\ reader.at # "closed" /\ ReaderInv /\ reader \in Reader
      /\ rows \subseteq 1..created /\ created \in 0..MaxRows
      /\ rows' = rows /\ created' = created
  BY DEF FindRows, ListInv, ListTypeOK
<1>2. /\ reader \in OpenReader /\ reader.list \in EveryList
      /\ page \in Nat /\ page >= 1 /\ page - 1 \in Nat
      /\ (page - 1) * Limit \in Nat /\ page * Limit = (page - 1) * Limit + Limit
      /\ Limit \in Nat
  <2>1. reader \in OpenReader /\ reader.list \in EveryList
        /\ page \in 1..(MaxRows + 1) /\ page \in Nat /\ page - 1 \in Nat
    BY <1>1, OpenFields
  <2>2. page >= 1 /\ (page - 1) + 1 = page
    BY <2>1, ListingAssumption
  <2> QED
    BY <2>1, <2>2, PageRows, ListingAssumption
<1>3. PICK found \in Pages(order, page) :
        reader' = [reader EXCEPT
          !.at = IF reader.list.counted = "after" THEN "half" ELSE "answered",
          !.more = found # {},
          !.twice = @ \cup (found \cap reader.shown),
          !.shown = @ \cup found]
  BY DEF FindRows
<1>4. found \subseteq rows
  BY <1>2, <1>3, FoundInOrder DEF Pages
<1>5. /\ reader'.at = IF reader.list.counted = "after" THEN "half" ELSE "answered"
      /\ reader'.more = (found # {})
      /\ reader'.twice = reader.twice \cup (found \cap reader.shown)
      /\ reader'.shown = reader.shown \cup found
      /\ reader'.pages = reader.pages
      /\ reader'.list = reader.list /\ reader'.order = order
      /\ reader'.page = page /\ reader'.due = reader.due
      /\ reader'.grown = reader.grown
      /\ reader'.raced = reader.raced /\ reader'.shrunk = reader.shrunk
  BY <1>2, <1>3 DEF OpenReader
<1>6. Turned = page - 1
  BY DEF FindRows, Turned
<1>7. Turned' = page
  BY <1>5 DEF Turned
<1>8. ListTypeOK'
  <2>1. rows \in SUBSET (1..MaxRows)
    BY <1>1, TableFacts
  <2>2. reader' \in OpenReader
    <3>1. found \in SUBSET (1..MaxRows)
      BY <1>4, <2>1
    <3>2. (found # {}) \in BOOLEAN
      OBVIOUS
    <3> QED
      BY <1>2, <1>3, <3>1, <3>2 DEF OpenReader
  <2> QED
    BY <1>1, <2>2 DEF ListTypeOK, Reader, OpenReader
<1>9. ShownIsBehind'
  <2> SUFFICES ASSUME order = "oldest" \/ (order = "newest" /\ ~reader.grown),
                      NEW row \in (reader.shown \cup found) \cap rows
               PROVE  Place(order, row) <= page * Limit
    BY <1>1, <1>5, <1>7 DEF ShownIsBehind, Place
  <2>1. CASE row \in found
    BY <1>2, <1>3, <2>1, FoundInOrder
  <2>2. CASE row \in reader.shown
    <3>1. Place(order, row) <= (page - 1) * Limit
      BY <1>1, <1>6, <2>2 DEF ReaderInv, ShownIsBehind
    <3>2. Place(order, row) \in Nat
      BY <1>1, TableFacts
    <3> QED
      BY <1>2, <3>1, <3>2
  <2> QED
    BY <2>1, <2>2
<1>10. ASSUME order # "any", ~reader.shrunk,
              NEW row \in reader.due \ (reader.shown \cup found)
       PROVE  /\ Place(order, row) > (page - 1) * Limit
              /\ Place(order, row) > page * Limit
  <2>1. row \in rows /\ Place(order, row) \in Nat
    BY <1>1, TableFacts DEF ReaderInv
  <2>2. Place(order, row) > (page - 1) * Limit
    BY <1>1, <1>6, <1>10 DEF ReaderInv, MissingIsAhead
  <2>3. ~(Place(order, row) <= page * Limit)
    BY <1>2, <1>3, <1>10, <2>1, <2>2, FoundInOrder
  <2> QED
    BY <1>2, <2>1, <2>2, <2>3
<1>11. MissingIsAhead'
  BY <1>1, <1>5, <1>7, <1>10 DEF MissingIsAhead, Place
<1>12. PageInReach'
  <2> SUFFICES ASSUME found # {} PROVE page <= MaxRows
    BY <1>5 DEF PageInReach
  <2> QED
    BY <1>1, <1>2, <1>3, FoundInReach
<1>13. ReaderInv'
  <2>1. CountIsFresh'
    BY <1>5 DEF CountIsFresh
  <2>2. reader'.shown \subseteq 1..created
    BY <1>1, <1>4, <1>5 DEF ReaderInv
  <2> QED
    BY <1>1, <1>5, <1>9, <1>11, <1>12, <2>1, <2>2 DEF ReaderInv
<1>14. NothingMissedUnlessMoved'
  <2> DEFINE part == reader.due \ (reader.shown \cup found)
  <2> SUFFICES ASSUME Seen', ~reader.shrunk, ~reader.raced, order # "any"
               PROVE  \/ part = {}
                      \/ /\ reader.list.rounded = "nearest"
                         /\ 2 * Cardinality(part) < Limit
    BY <1>5 DEF NothingMissedUnlessMoved
  <2>1. reader.list.counted # "after"
    BY <1>5 DEF Seen
  <2>2. part \in SUBSET rows
    BY <1>1 DEF ReaderInv
  <2>3. CASE reader.list.counted = "before"
    <3>1. reader.at = "half"
      BY <2>3 DEF FindRows
    <3>2. reader.pages = TotalPage(reader.list, Cardinality(rows))
      BY <1>1, <2>3, <3>1 DEF ReaderInv, CountIsFresh
    <3>3. ~(page < reader.pages) /\ reader.pages \in Nat
      <4>1. reader.pages \in 0..MaxRows
        BY <1>2 DEF OpenReader
      <4> QED
        BY <1>5, <2>3, <4>1 DEF Seen, HasNext
    <3>4. page >= TotalPage(reader.list, Cardinality(rows))
      BY <1>2, <3>2, <3>3
    <3>5. \A row \in part : Place(order, row) > page * Limit
      BY <1>10
    <3> QED
      BY <1>1, <1>2, <2>2, <3>4, <3>5, NothingBeyond
  <2>4. CASE reader.list.counted = "never"
    <3>1. found = {}
      BY <1>5, <2>4 DEF Seen, HasNext
    <3>2. ASSUME NEW row \in part PROVE FALSE
      <4>1. row \in rows /\ Place(order, row) \in Nat
        BY <1>1, <2>2, TableFacts
      <4>2. Place(order, row) <= (page - 1) * Limit
        BY <1>1, <1>2, <1>3, <3>1, <4>1, EmptyPageIsLast
      <4>3. Place(order, row) > (page - 1) * Limit
        BY <1>10
      <4> QED
        BY <1>2, <4>1, <4>2, <4>3
    <3> QED
      BY <3>2
  <2> QED
    BY <1>2, <2>1, <2>3, <2>4, ListFacts
<1>15. ShownTwiceOnlyIfPushed'
  <2> SUFFICES ASSUME reader'.twice # {}, order # "any"
               PROVE  order = "newest" /\ reader.grown
    BY <1>5 DEF ShownTwiceOnlyIfPushed
  <2> SUFFICES ASSUME ~(order = "newest" /\ reader.grown) PROVE FALSE
    OBVIOUS
  <2>1. order = "oldest" \/ (order = "newest" /\ ~reader.grown)
    BY <1>2 DEF OpenReader
  <2>2. reader.twice = {}
    BY <1>1, <2>1 DEF ListInv, ShownTwiceOnlyIfPushed
  <2>3. PICK row \in found : row \in reader.shown
    BY <1>5, <2>2
  <2>4. Place(order, row) <= (page - 1) * Limit
    BY <1>1, <1>4, <1>6, <2>1, <2>3 DEF ReaderInv, ShownIsBehind
  <2>5. Place(order, row) > (page - 1) * Limit
    BY <1>2, <1>3, <1>4, <2>3, FoundInOrder
  <2>6. Place(order, row) \in Nat
    BY <1>1, <1>4, TableFacts
  <2> QED
    BY <1>2, <2>4, <2>5, <2>6
<1> QED
  BY <1>8, <1>13, <1>14, <1>15 DEF ListInv


LEMMA CreateRow_Inv ==
  ASSUME ListInv, CreateRow
  PROVE  ListInv'
<1>1. /\ reader \in Reader /\ rows \subseteq 1..created
      /\ created \in 0..MaxRows /\ created \in Nat /\ MaxRows \in Nat
      /\ created < MaxRows
      /\ created' = created + 1 /\ rows' = rows \cup {created + 1}
  BY ListingAssumption DEF CreateRow, ListInv, ListTypeOK
<1>2. rows' \subseteq 1..created' /\ created' \in 0..MaxRows
  <2>1. created' \in 0..MaxRows
    BY <1>1
  <2> SUFFICES ASSUME NEW row \in rows' PROVE row \in 1..created'
    BY <2>1
  <2>2. CASE row \in rows
    <3>1. row \in 1..created
      BY <1>1, <2>2
    <3> QED
      BY <1>1, <3>1
  <2>3. CASE row = created + 1
    BY <1>1, <2>3
  <2> QED
    BY <1>1, <2>2, <2>3
<1>3. CASE reader.at = "closed"
  <2>1. reader' = reader
    BY <1>3 DEF CreateRow
  <2> QED
    BY <1>1, <1>2, <1>3, <2>1
       DEF ListInv, ListTypeOK, NothingMissedUnlessMoved, ShownTwiceOnlyIfPushed,
           Seen
<1>4. CASE reader.at # "closed"
  <2>1. reader \in OpenReader /\ ReaderInv
    BY <1>1, <1>4, OpenFields DEF ListInv
  <2>2. /\ reader'.at = reader.at /\ reader'.grown = TRUE
        /\ reader'.raced =
             (reader.raced \/ (reader.at = "half" /\ reader.list.counted = "before"))
        /\ reader'.list = reader.list /\ reader'.order = reader.order
        /\ reader'.page = reader.page /\ reader'.pages = reader.pages
        /\ reader'.more = reader.more /\ reader'.due = reader.due
        /\ reader'.shown = reader.shown /\ reader'.twice = reader.twice
        /\ reader'.shrunk = reader.shrunk
        /\ reader' \in OpenReader
    BY <1>4, <2>1 DEF CreateRow, OpenReader
  <2>3. Turned' = Turned
    BY <2>2 DEF Turned
  <2>4. ListTypeOK'
    BY <1>2, <2>2 DEF ListTypeOK, Reader, OpenReader
  <2>5. ASSUME NEW order, NEW row \in rows
        PROVE  /\ Place(order, row) \in Nat
               /\ PlaceIn(order, row, rows') \in Nat
               /\ Place(order, row) <= PlaceIn(order, row, rows')
               /\ order = "oldest" =>
                    PlaceIn(order, row, rows') = Place(order, row)
    <3>1. Place(order, row) = PlaceIn(order, row, rows)
      BY PlaceIsPlaceIn
    <3>2. rows' \in SUBSET (1..created') /\ created' \in Nat
          /\ rows \in SUBSET rows' /\ row \in rows'
      BY <1>1, <1>2
    <3>3. PlaceIn(order, row, rows) <= PlaceIn(order, row, rows')
      BY <3>2, PlaceMonotonic
    <3>4. order = "oldest" => PlaceIn(order, row, rows') = PlaceIn(order, row, rows)
      BY <1>1, PlaceKept
    <3>5. /\ PlaceIn(order, row, rows) \in 1..Cardinality(rows)
          /\ PlaceIn(order, row, rows') \in 1..Cardinality(rows')
      BY <1>1, <3>2, PlaceBounds
    <3>6. Cardinality(rows) \in 0..created /\ Cardinality(rows') \in 0..created'
      BY <1>1, <3>2, TableFinite
    <3>7. PlaceIn(order, row, rows) \in Nat /\ PlaceIn(order, row, rows') \in Nat
      BY <1>1, <3>2, <3>5, <3>6
    <3> QED
      BY <3>1, <3>3, <3>4, <3>7
  <2>6. Turned * Limit \in Nat
    BY <1>1, <1>4, OpenFields, PageRows
  <2>7. ShownIsBehind'
    <3> SUFFICES ASSUME reader.order = "oldest", NEW row \in reader.shown \cap rows'
                 PROVE  PlaceIn(reader.order, row, rows') <= Turned * Limit
      BY <2>2, <2>3 DEF ShownIsBehind, Place, PlaceIn, UpTo
    <3>1. row \in rows
      <4>1. row \in 1..created
        BY <2>1 DEF ReaderInv
      <4> QED
        BY <1>1, <4>1
    <3>2. Place(reader.order, row) <= Turned * Limit
      BY <2>1, <3>1 DEF ReaderInv, ShownIsBehind
    <3> QED
      BY <2>5, <3>1, <3>2
  <2>8. MissingIsAhead'
    <3> SUFFICES ASSUME reader.order # "any", ~reader.shrunk,
                        NEW row \in reader.due \ reader.shown
                 PROVE  PlaceIn(reader.order, row, rows') > Turned * Limit
      BY <2>2, <2>3 DEF MissingIsAhead, Place, PlaceIn, UpTo
    <3>1. row \in rows /\ Place(reader.order, row) > Turned * Limit
      BY <2>1 DEF ReaderInv, MissingIsAhead
    <3> QED
      BY <2>5, <2>6, <3>1
  <2>9. CountIsFresh'
    BY <2>2 DEF CountIsFresh
  <2>10. PageInReach'
    BY <2>1, <2>2 DEF ReaderInv, PageInReach
  <2>11. reader'.due \subseteq rows' /\ reader'.shown \subseteq 1..created'
    <3>1. \A r \in reader.shown : r \in 1..created
      BY <2>1 DEF ReaderInv
    <3>2. \A r \in reader.shown : r \in 1..created'
      BY <1>1, <3>1
    <3> QED
      BY <1>1, <2>1, <2>2, <3>2 DEF ReaderInv
  <2>12. ReaderInv'
    BY <2>7, <2>8, <2>9, <2>10, <2>11 DEF ReaderInv
  <2>13. NothingMissedUnlessMoved'
    <3>1. Seen' => Seen /\ reader'.raced = reader.raced
      BY <2>1, <2>2 DEF Seen, HasNext, OpenReader
    <3> QED
      BY <2>2, <3>1 DEF ListInv, NothingMissedUnlessMoved
  <2>14. ShownTwiceOnlyIfPushed'
    BY <1>4, <2>2 DEF ListInv, ShownTwiceOnlyIfPushed
  <2> QED
    BY <2>4, <2>12, <2>13, <2>14 DEF ListInv
<1> QED
  BY <1>3, <1>4

LEMMA DeleteRow_Inv ==
  ASSUME ListInv, NEW row \in rows, DeleteRow(row)
  PROVE  ListInv'
<1>1. /\ reader \in Reader /\ rows \subseteq 1..created
      /\ created \in 0..MaxRows /\ created \in Nat /\ MaxRows \in Nat
      /\ created' = created /\ rows' = rows \ {row}
      /\ reader.at # "closed" /\ ReaderInv
  BY ListingAssumption DEF DeleteRow, ListInv, ListTypeOK
<1>2. reader \in OpenReader
  BY <1>1, OpenFields
<1>3. /\ reader'.at = reader.at /\ reader'.grown = reader.grown
      /\ reader'.raced = reader.raced
      /\ reader'.list = reader.list /\ reader'.order = reader.order
      /\ reader'.page = reader.page /\ reader'.pages = reader.pages
      /\ reader'.more = reader.more /\ reader'.due = reader.due \ {row}
      /\ reader'.shown = reader.shown /\ reader'.twice = reader.twice
      /\ reader'.shrunk = TRUE
      /\ reader' \in OpenReader
  BY <1>2 DEF DeleteRow, OpenReader
<1>4. Turned' = Turned
  BY <1>3 DEF Turned
<1>5. ListTypeOK'
  BY <1>1, <1>3 DEF ListTypeOK, Reader, OpenReader
<1>6. ASSUME NEW order, NEW r \in rows'
      PROVE  /\ Place(order, r) \in Nat /\ PlaceIn(order, r, rows') \in Nat
             /\ PlaceIn(order, r, rows') <= Place(order, r)
  <2>1. Place(order, r) = PlaceIn(order, r, rows)
    BY PlaceIsPlaceIn
  <2>2. /\ rows \in SUBSET (1..created) /\ rows' \in SUBSET rows
        /\ rows' \in SUBSET (1..created) /\ r \in rows
    BY <1>1
  <2>3. PlaceIn(order, r, rows') <= PlaceIn(order, r, rows)
    BY <1>1, <2>2, PlaceMonotonic
  <2>4. /\ PlaceIn(order, r, rows) \in 1..Cardinality(rows)
        /\ PlaceIn(order, r, rows') \in 1..Cardinality(rows')
    BY <1>1, <2>2, PlaceBounds
  <2>5. Cardinality(rows) \in 0..created /\ Cardinality(rows') \in 0..created
    BY <1>1, <2>2, TableFinite
  <2>6. PlaceIn(order, r, rows) \in Nat /\ PlaceIn(order, r, rows') \in Nat
    BY <1>1, <2>4, <2>5
  <2> QED
    BY <2>1, <2>3, <2>6
<1>7. Turned * Limit \in Nat
  BY <1>1, OpenFields, PageRows
<1>8. ShownIsBehind'
  <2> SUFFICES ASSUME reader.order = "oldest"
                        \/ (reader.order = "newest" /\ ~reader.grown),
                      NEW r \in reader.shown \cap rows'
               PROVE  PlaceIn(reader.order, r, rows') <= Turned * Limit
    BY <1>3, <1>4 DEF ShownIsBehind, Place, PlaceIn, UpTo
  <2>1. Place(reader.order, r) <= Turned * Limit
    BY <1>1 DEF ReaderInv, ShownIsBehind
  <2> QED
    BY <1>6, <1>7, <2>1
<1>9. ReaderInv'
  <2>1. MissingIsAhead' /\ CountIsFresh'
    BY <1>3 DEF MissingIsAhead, CountIsFresh
  <2>2. PageInReach'
    BY <1>1, <1>3 DEF ReaderInv, PageInReach
  <2>3. reader'.due \subseteq rows' /\ reader'.shown \subseteq 1..created'
    BY <1>1, <1>3 DEF ReaderInv
  <2> QED
    BY <1>8, <2>1, <2>2, <2>3 DEF ReaderInv
<1>10. NothingMissedUnlessMoved'
  BY <1>3 DEF NothingMissedUnlessMoved
<1>11. ShownTwiceOnlyIfPushed'
  BY <1>1, <1>3 DEF ListInv, ShownTwiceOnlyIfPushed
<1> QED
  BY <1>5, <1>9, <1>10, <1>11 DEF ListInv

LEMMA List_Step == ListInv /\ [ListNext]_listVars => ListInv'
<1> SUFFICES ASSUME ListInv, [ListNext]_listVars PROVE ListInv'
  OBVIOUS
<1>1. ASSUME NEW list \in Lists, NEW order \in {"any", "newest", "oldest"},
             OpenList(list, order)
      PROVE  ListInv'
  BY <1>1, OpenList_Inv
<1>2. CASE CountRows
  BY <1>2, CountRows_Inv
<1>3. CASE FindRows
  BY <1>3, FindRows_Inv
<1>4. CASE TurnPage
  BY <1>4, TurnPage_Inv
<1>5. CASE CloseList
  BY <1>5, CloseList_Inv
<1>6. CASE CreateRow
  BY <1>6, CreateRow_Inv
<1>7. ASSUME NEW row \in rows, DeleteRow(row)
      PROVE  ListInv'
  BY <1>7, DeleteRow_Inv
<1>8. CASE UNCHANGED listVars
  BY <1>8 DEF listVars, ListInv, ListTypeOK, ReaderInv, ShownIsBehind,
     MissingIsAhead, CountIsFresh, PageInReach, NothingMissedUnlessMoved,
     ShownTwiceOnlyIfPushed, Seen, HasNext, Turned, Place
<1> QED
  BY <1>1, <1>2, <1>3, <1>4, <1>5, <1>6, <1>7, <1>8 DEF ListNext

LEMMA List_Inv == ListSpec => []ListInv
  BY ListInit_Inv, List_Step, PTL DEF ListSpec

-----------------------------------------------------------------------------
(* The theorems.                                                           *)

\* The reader of a list and its table have their types, whatever the size of a
\* page (the findAll methods of the services): no page beyond the rows there
\* can be is ever asked for.
THEOREM Listing_TypeOK == ListSpec => []ListTypeOK
<1>1. ListInv => ListTypeOK
  BY DEF ListInv
<1> QED
  BY <1>1, List_Inv, PTL

\* Whoever turns to the last page has seen every row that was there all the
\* time, with the exceptions the property names, for pages and tables of any
\* size (skip and take of the findMany calls, count and totalPage).
THEOREM Nothing_Missed_Unless_Moved == ListSpec => []NothingMissedUnlessMoved
<1>1. ListInv => NothingMissedUnlessMoved
  BY DEF ListInv
<1> QED
  BY <1>1, List_Inv, PTL

\* No row is on two pages unless new rows pushed it on or there is no order:
\* deleting rows never does it (delete of products, groups, payment methods).
THEOREM Shown_Twice_Only_If_Pushed == ListSpec => []ShownTwiceOnlyIfPushed
<1>1. ListInv => ShownTwiceOnlyIfPushed
  BY DEF ListInv
<1> QED
  BY <1>1, List_Inv, PTL

-----------------------------------------------------------------------------
(* The shop: the storefront and the lists.                                 *)

\* A step of the shop is one of the storefront or of the lists, and neither
\* is touched by a step of the other.
LEMMA ShopSteps ==
  ASSUME [ShopNext]_shopVars
  PROVE  [Next]_vars /\ [ListNext]_listVars
<1>1. CASE ShopNext
  <2>1. CASE InShop
    <3>1. Next
      BY <1>1, <2>1 DEF ShopNext, InShop, InLists, Next, Shopping
    <3> QED
      BY <2>1, <3>1 DEF InShop
  <2>2. CASE InLists
    <3>1. ListNext
      BY <1>1, <2>2 DEF ShopNext, InShop, InLists, ListNext, DeleteRow
    <3> QED
      BY <2>2, <3>1 DEF InLists
  <2> QED
    BY <1>1, <2>1, <2>2 DEF ShopNext
<1>2. CASE UNCHANGED shopVars
  BY <1>2 DEF shopVars
<1> QED
  BY <1>1, <1>2

\* The shop implements both specifications it is composed of (they share no
\* variable): what is proved of either holds in the shop.
THEOREM Shop_Is_Both == ShopSpec => Spec /\ ListSpec
<1>1. ShopInit => Init /\ ListInit
  BY DEF ShopInit
<1>2. [ShopNext]_shopVars => [Next]_vars
  BY ShopSteps
<1>3. [ShopNext]_shopVars => [ListNext]_listVars
  BY ShopSteps
<1> QED
  BY <1>1, <1>2, <1>3, PTL DEF ShopSpec, Spec, ListSpec

\* The catalogue, the bills, the orders and the lists have their types (what
\* createTransaction, payInquiry and the findAll methods read and write).
THEOREM Shop_TypeOK == ShopSpec => []ShopTypeOK
<1>1. TypeOK /\ ListTypeOK => ShopTypeOK
  BY DEF ShopTypeOK
<1> QED
  BY <1>1, Shop_Is_Both, Storefront_TypeOK, Listing_TypeOK, PTL

\* Nobody is charged what he was not shown, charged twice, given back more than
\* he paid or sold at a loss, and no list misses or repeats a row, but for the
\* exceptions named in each property: all of that at once, in the shop.
THEOREM Shop_Keeps_Its_Word ==
  ShopSpec =>
    /\ []ChargedAsQuoted
    /\ []ChargedOnceUnlessRolledBack
    /\ []RefundKeepsAtMostFees
    /\ []NoLossUnlessStaleOrNegative
    /\ OfferedIsAccepted
    /\ []NothingMissedUnlessMoved
    /\ []ShownTwiceOnlyIfPushed
<1>1. Spec => []ChargedAsQuoted /\ []ChargedOnceUnlessRolledBack
  BY Storefront_AsQuoted, Storefront_ChargedOnce
<1>2. Spec => []RefundKeepsAtMostFees /\ []NoLossUnlessStaleOrNegative
  BY Storefront_Refund, Storefront_NoLoss
<1>3. Spec => OfferedIsAccepted
  BY Storefront_Accepts
<1>4. ListSpec => []NothingMissedUnlessMoved /\ []ShownTwiceOnlyIfPushed
  BY Nothing_Missed_Unless_Moved, Shown_Twice_Only_If_Pushed
<1> QED
  BY <1>1, <1>2, <1>3, <1>4, Shop_Is_Both

=============================================================================
