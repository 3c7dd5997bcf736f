------------------------------- MODULE Charts -------------------------------
(***************************************************************************)
(* The charts of a user (UsersService.getChartTransactionByUser and        *)
(* getChartBalanceMutationByUser): the last twelve months, which a query   *)
(* sums up and a loop labels.  The loop steps back from today with         *)
(* setMonth, which keeps the day of the month: a day that month does not   *)
(* have is one of the month after it.  The chart of the last 31 days steps *)
(* with setDate, which is exact, and is left out.                          *)
(*                                                                         *)
(* A month is the number of months since year 0.  Server and database are  *)
(* taken to be in UTC, where toISOString is.                               *)
(***************************************************************************)
EXTENDS Integers

CONSTANTS
  FirstYear, LastYear  \* BOUND: the years of today

ASSUME ChartsAssumption ==
  FirstYear \in Nat /\ LastYear \in Nat /\ FirstYear <= LastYear

Leap(year) == year % 4 = 0 /\ (year % 100 # 0 \/ year % 400 = 0)

\* Days in a month, of 0..11 within the year.
DaysIn(month) ==
  CASE month % 12 = 1 -> IF Leap(month \div 12) THEN 29 ELSE 28
    [] month % 12 \in {3, 5, 8, 10} -> 30
    [] OTHER -> 31

VARIABLE today  \* the day the chart is asked for: its month and day

Dates == [month : (12 * FirstYear)..(12 * LastYear + 11), day : 1..31]

ChartsInit == today = [month |-> 12 * FirstYear, day |-> 1]

NextDay ==
  LET last == today.day = DaysIn(today.month)
  IN /\ last => today.month < 12 * LastYear + 11
     /\ today' = [month |-> IF last THEN today.month + 1 ELSE today.month,
                  day |-> IF last THEN 1 ELSE today.day + 1]

ChartsSpec == ChartsInit /\ [][NextDay]_today

-----------------------------------------------------------------------------
(* The loop.                                                               *)

\* setMonth: the day of the month stays, and what is too many of it passes on
\* to the next month.
SetMonth(month) == IF today.day <= DaysIn(month) THEN month ELSE month + 1

\* Mutant: the loop counts from twelve down to one.
MonthAtFromTwelve(i) == SetMonth(today.month - (i + 1))

\* The month that is shown in the place of i months ago.
MonthAt(i) == SetMonth(today.month - i)

-----------------------------------------------------------------------------
(* The query.                                                              *)

\* current_date - interval '12 months': the day of the month stays, at most
\* the last of that month.
FirstSummed ==
  LET month == today.month - 12
  IN [month |-> month,
      day |-> IF today.day <= DaysIn(month) THEN today.day ELSE DaysIn(month)]

\* The month is summed up from its first day on.
SummedWhole(month) ==
  \/ FirstSummed.month < month
  \/ FirstSummed.month = month /\ FirstSummed.day = 1

-----------------------------------------------------------------------------
(* Properties.                                                             *)

ChartsTypeOK == today \in Dates /\ today.day <= DaysIn(today.month)

LastTwelve == (today.month - 11)..today.month

Missing == {month \in LastTwelve : DaysIn(month) < today.day}

\* The chart has each of the last twelve months once, in its place, and nothing
\* of it is left out by the query, unless today is a day that a month of them
\* does not have: then, and only then, that month is missing and the one after
\* it is there twice (users.service.ts:264-279, 315-347, 385-398, 423-450).
MonthsOnceUnlessTheDayIsMissing ==
  /\ {MonthAt(i) : i \in 0..11} = LastTwelve \ Missing
  /\ \A i \in 0..11 :
       /\ MonthAt(i) = today.month - i <=> DaysIn(today.month - i) >= today.day
       /\ SummedWhole(MonthAt(i))

=============================================================================
