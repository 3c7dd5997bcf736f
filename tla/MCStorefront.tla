--------------------------- MODULE MCStorefront ---------------------------
(***************************************************************************)
(* Shop with two buyers, one of them a guest, one bill and one change of   *)
(* the catalogue; lists of four to six rows, three on a page.              *)
(***************************************************************************)
EXTENDS Shop

CONSTANTS b1, b2, i1

MCBuyers == {b1, b2}
MCGuests == {b2}
MCBills == {i1}
MCBillTotals == {990}
MCQuantities == {1, 2}

\* Only two units at once are in the limits of a method, and the limits are
\* met exactly: 990, the bill and two of 450 with 10% profit, is the lower one
\* of the provider and with 1% fees 1000, or 1001; two of 500 with 10% profit
\* and the fees are the upper one of SALDO.
MCCosts == {450, 500}
MCMethods ==
  {[kind |-> "PROVIDER", open |-> TRUE, fees |-> 0, pct |-> 1,
    min |-> 990, max |-> 1120],
   [kind |-> "SALDO", open |-> TRUE, fees |-> 10, pct |-> 0,
    min |-> 1000, max |-> 1110],
   [kind |-> "SALDO", open |-> FALSE, fees |-> 0, pct |-> 0,
    min |-> 1, max |-> 5000]}
MCInexact == {<<990, 1>>}

\* The second product is sold below its cost: two of 600 - 105 make 990.
MCNewProducts ==
  {[cost |-> 500, profit |-> 0, pct |-> 10],
   [cost |-> 600, profit |-> -105, pct |-> 0]}

\* A complete update, the cost alone, and a product taken off the shop.
MCProductUpdates ==
  {[cost |-> 500, profit |-> 0, pct |-> 10],
   [cost |-> 2000],
   [open |-> FALSE]}

=============================================================================
