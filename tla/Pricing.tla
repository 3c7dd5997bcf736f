------------------------------ MODULE Pricing ------------------------------
(***************************************************************************)
(* What things cost: the price of a product from the supplier's, the total *)
(* of an order or a deposit for a payment method, and the limits of a      *)
(* payment method.  Amounts are whole Rupiah, percentages whole numbers.   *)
(***************************************************************************)
EXTENDS Integers

\* Math.ceil of the exact quotient.
CeilDiv(a, b) == (a + b - 1) \div b

\* The price an administrator's profit gives; whole only if the percentage is.
WholePercent(cost, pct) == (cost * pct) % 100 = 0

PriceOf(cost, profit, pct) == cost + profit + ((cost * pct) \div 100)

\* The profit of the catalogue sync.
TierPercent(cost) ==
  IF cost <= 30000 THEN 10 ELSE IF cost <= 100000 THEN 5 ELSE 3

\* Math.ceil(price / (100 - pct) * 100) + fees.  The quotient is rounded to a
\* double before it is multiplied, so a whole result may come out slightly
\* larger and be one Rupiah more after Math.ceil: excess is 1 then, else 0
\* (7 / 100 * 100 is 7.000000000000001).
OrderTotal(price, method, excess) ==
  CeilDiv(price * 100, 100 - method.pct) + excess + method.fees

\* Math.ceil(amount * 100 / (100 - pct)) + fees: one rounding, no excess.
DepositTotal(amount, method) ==
  CeilDiv(amount * 100, 100 - method.pct) + method.fees

\* The limits of the database queries and of the checkout page...
WithinLimits(amount, method) == method.min <= amount /\ amount <= method.max

\* ...and those of createTransaction (and createDeposit) in the handler.
StrictlyWithin(amount, method) == method.min < amount /\ amount < method.max

=============================================================================
