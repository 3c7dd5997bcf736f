----------------------------- MODULE Storefront -----------------------------
(***************************************************************************)
(* Buying, seen from the money: the checkout page (UiService), the price   *)
(* part of createTransaction, bills (createInquiry, payInquiry), what      *)
(* createPayment charges, and what a refund gives back, while the          *)
(* catalogue changes.                                                      *)
(*                                                                         *)
(* A buyer reads the page, then orders; page and order each read the       *)
(* product (or the bill) and the payment method in two queries.  The stock *)
(* is in Checkout, what happens after the payment in Transaction, how a    *)
(* balance is debited in BalanceService.                                   *)
(***************************************************************************)
EXTENDS Catalogue, FiniteSets

CONSTANTS
  Buyers,     \* requests of buyers: each orders the product or pays a bill
  Guests,     \* those without an account
  Bills,      \* inquiries that may be created
  BillTotals, \* what the supplier asks for a bill
  Quantities, \* productQty
  Inexact,    \* pairs <<price, pct>> for which the total is one too much
  Surcharges, \* what a provider may ask for above the amount it was sent
  ProviderFees, \* what it may say its fee is
  MaxTries    \* BOUND: payments of one order that are rolled back

ASSUME StorefrontAssumption ==
  /\ Guests \subseteq Buyers /\ Buyers \cap Bills = {}
  /\ BillTotals \subseteq Nat \ {0} /\ Quantities \subseteq Nat \ {0}
  /\ Surcharges \subseteq Nat /\ ProviderFees \subseteq Nat
  /\ MaxTries \in Nat

Sales == Buyers \cup Bills

NoSale == [at |-> "none"]

VARIABLES
  buyer,   \* how far each buyer is, and what the handler or page has read
  bill,    \* the table transaction_inquiry
  sale,    \* orders: of a buyer, or of a bill, whose id is the bill's
  charged, \* what was debited, or asked for by a provider, for each order
  tries,   \* payments of each order that were rolled back so far
  changed  \* history: buyers under whom the catalogue or the bill changed

vars == <<catalogue, buyer, bill, sale, charged, tries, changed>>

\* Before the order has read all it needs.
Reading == {"viewing", "quoted", "found"}

\* The quote of a method that the page does not offer.
NotOffered == -1

\* What createPayment answers: the amount that is paid and the fee in it.
Answer == [amount : Nat, fee : Nat]

\* bought: the buyer itself (an order of the product) or a bill; price: of
\* all units as read; quote: the total on the page; loss: why the price read
\* may be below the cost.
Buyer ==
  [at : {"idle", "done"}] \cup
  [at : {"viewing", "quoted", "found"}, bought : Sales, price : Int, cost : Int,
   quantity : Quantities, quote : Int, loss : SUBSET Risks] \cup
  [at : {"priced", "inserted"}, bought : Sales, price : Nat, cost : Int,
   quantity : Quantities, quote : Int, loss : SUBSET Risks, by : Methods] \cup
  [at : {"paid"}, bought : Sales, price : Nat, cost : Int,
   quantity : Quantities, quote : Int, loss : SUBSET Risks, by : Methods,
   answer : Answer]

\* A row of transaction_inquiry.
Bill == [at : {"none", "deleted"}] \cup
        [at : {"SUCCESS", "PENDING"}, total : BillTotals]

\* A row of transactions; total is totalPrice, kind the payment method's.
\* History: quote is what the page said, asked what createPayment was asked
\* for, loss why the price may be below the cost, changed whether the catalogue
\* was changed between page and order, back what was refunded.
Sale == [at : {"none"}] \cup
        [at : {"sold", "refunded"}, kind : Kinds, price : Nat, total : Nat,
         fees : Nat, profit : Int, asked : Nat, quote : Int,
         loss : SUBSET Risks, changed : BOOLEAN, back : Nat]

Excess(price, m) == IF <<price, m.pct>> \in Inexact THEN 1 ELSE 0

Total(price, m) == OrderTotal(price, m, Excess(price, m))

\* Buyers under whom a change of the catalogue can make a difference.
Midway == {b \in Buyers : buyer[b].at \in Reading}

-----------------------------------------------------------------------------

Init ==
  /\ CatalogueInit
  /\ buyer = [b \in Buyers |-> [at |-> "idle"]]
  /\ bill = [i \in Bills |-> [at |-> "none"]]
  /\ sale = [s \in Sales |-> NoSale]
  /\ charged = [s \in Sales |-> 0]
  /\ tries = [s \in Sales |-> 0]
  /\ changed = {}

Goto(b, state) == buyer' = [buyer EXCEPT ![b] = state]

-----------------------------------------------------------------------------
(* Bills.                                                                  *)

\* createInquiry: a product of type TAGIHAN, here always there; the supplier
\* says what is to be paid, or that it does not know yet.  Nothing asks again.
CreateInquiry(i, total, status) ==
  /\ bill[i].at = "none"
  /\ product.at = "listed" /\ product.open
  /\ bill' = [bill EXCEPT ![i] = [at |-> status, total |-> total]]
  /\ UNCHANGED <<catalogue, buyer, sale, charged, tries, changed>>

-----------------------------------------------------------------------------
(* The page: getPaymentMethod and getPaymentMethodInquiry.                 *)

\* Mutant: the quantity is forgotten on the page.
LookOne(b, bought, price, cost, quantity) ==
  /\ Goto(b, [at |-> "viewing", bought |-> bought, price |-> price \div quantity,
              cost |-> cost, quantity |-> quantity, quote |-> NotOffered,
              loss |-> {}])
  /\ changed' = changed \ {b}
  /\ UNCHANGED <<catalogue, bill, sale, charged, tries>>

\* The product or the bill is read; the page forgets what it said before.
Look(b, bought, price, cost, quantity) ==
  /\ Goto(b, [at |-> "viewing", bought |-> bought, price |-> price,
              cost |-> cost, quantity |-> quantity, quote |-> NotOffered,
              loss |-> {}])
  /\ changed' = changed \ {b}
  /\ UNCHANGED <<catalogue, bill, sale, charged, tries>>

ViewProduct(b, quantity) ==
  /\ buyer[b].at = "idle"
  /\ product.at = "listed"
  /\ Look(b, b, product.price * quantity, product.cost * quantity, quantity)

\* A bill is shown whatever its status.
ViewInquiry(b, i) ==
  /\ buyer[b].at = "idle"
  /\ bill[i].at \in {"SUCCESS", "PENDING"}
  /\ \E one \in Quantities :
       one = 1 /\ Look(b, i, bill[i].total, bill[i].total, one)

\* The query asks for the limits of the price, the loop for those of the
\* total; a guest is not shown SALDO.
Offered(b, price) ==
  /\ method.kind # "gone"
  /\ method.open
  /\ WithinLimits(price, method)
  /\ WithinLimits(Total(price, method), method)
  /\ method.kind = "SALDO" => b \notin Guests

ShowMethods(b) ==
  /\ buyer[b].at = "viewing"
  /\ Goto(b, [buyer[b] EXCEPT !.at = "quoted",
       !.quote = IF Offered(b, buyer[b].price)
                   THEN Total(buyer[b].price, method) ELSE NotOffered])
  /\ UNCHANGED <<catalogue, bill, sale, charged, tries, changed>>

-----------------------------------------------------------------------------
(* createTransaction and payInquiry.                                       *)

\* findFirst of the product that is available, or of the bill that is SUCCESS.
FindProduct(b) ==
  LET k == buyer[b]
  IN /\ k.at = "quoted" /\ k.bought = b
     /\ IF product.at = "listed" /\ product.open
          THEN Goto(b, [k EXCEPT !.at = "found", !.loss = risk,
                         !.price = product.price * k.quantity,
                         !.cost = product.cost * k.quantity])
          ELSE Goto(b, [at |-> "done"])
     /\ UNCHANGED <<catalogue, bill, sale, charged, tries, changed>>

FindInquiry(b) ==
  LET k == buyer[b]
  IN /\ k.at = "quoted" /\ k.bought \in Bills
     /\ IF bill[k.bought].at = "SUCCESS"
          THEN Goto(b, [k EXCEPT !.at = "found",
                         !.price = bill[k.bought].total,
                         !.cost = bill[k.bought].total])
          ELSE Goto(b, [at |-> "done"])
     /\ UNCHANGED <<catalogue, bill, sale, charged, tries, changed>>

\* Mutant: the query, too, refuses a price that is on a limit.
MethodFitsStrictly(b, price) ==
  /\ method.kind # "gone"
  /\ method.open
  /\ StrictlyWithin(price, method)
  /\ method.kind = "SALDO" => b \notin Guests

\* findFirst of the payment method asks for the limits of the price.  A guest
\* is refused SALDO (for a bill when the balance is looked up).
MethodFits(b, price) ==
  /\ method.kind # "gone"
  /\ method.open
  /\ WithinLimits(price, method)
  /\ method.kind = "SALDO" => b \notin Guests

\* The payment method is read, and kept until the end of the order.
FindPaymentMethod(b) ==
  LET k == buyer[b]
  IN /\ k.at = "found"
     /\ MethodFits(b, k.price)
     /\ Goto(b, [at |-> "priced", bought |-> k.bought, price |-> k.price,
                 cost |-> k.cost, quantity |-> k.quantity, quote |-> k.quote,
                 loss |-> k.loss, by |-> method])
     /\ UNCHANGED <<catalogue, bill, sale, charged, tries, changed>>

\* createTransaction refuses a total that is on a limit; payInquiry any total.
RefusesTotal(b) ==
  /\ buyer[b].bought = b
  /\ ~StrictlyWithin(Total(buyer[b].price, buyer[b].by), buyer[b].by)

\* "Payment method not available", from the query or from the total.
RefuseMethod(b) ==
  /\ \/ buyer[b].at = "found" /\ ~MethodFits(b, buyer[b].price)
     \/ buyer[b].at = "priced" /\ RefusesTotal(b)
  /\ Goto(b, [at |-> "done"])
  /\ UNCHANGED <<catalogue, bill, sale, charged, tries, changed>>

\* Mutant: the row is inserted after the payment, so nobody waits.
InsertUnlocked(b) ==
  LET k == buyer[b]
  IN /\ k.at = "priced"
     /\ ~RefusesTotal(b)
     /\ Goto(b, [k EXCEPT !.at = "inserted"])
     /\ UNCHANGED <<catalogue, bill, sale, charged, tries, changed>>

\* The row of the order is inserted in the open transaction.  Its id is new,
\* or the id of the bill: then the primary key makes a second payment wait.
InsertOrder(b) ==
  LET k == buyer[b]
  IN /\ k.at = "priced"
     /\ ~RefusesTotal(b)
     /\ sale[k.bought].at = "none"
     /\ \A c \in Buyers : buyer[c].at \in {"inserted", "paid"}
                            => buyer[c].bought # k.bought
     /\ Goto(b, [k EXCEPT !.at = "inserted"])
     /\ UNCHANGED <<catalogue, bill, sale, charged, tries, changed>>

\* The bill was paid meanwhile: the primary key refuses the row.
InsertRefused(b) ==
  LET k == buyer[b]
  IN /\ k.at = "priced"
     /\ ~RefusesTotal(b)
     /\ sale[k.bought].at # "none"
     /\ Goto(b, [at |-> "done"])
     /\ UNCHANGED <<catalogue, bill, sale, charged, tries, changed>>

\* What createPayment answers.  SALDO: the price without the fees it debits.
\* A provider: its own numbers, which the handler takes as they are; here an
\* amount that is at least what was asked for (type_fee is 2).
Answers(price, m) ==
  IF m.kind = "SALDO"
    THEN {[amount |-> price, fee |-> Total(price, m) - price]}
    ELSE {[amount |-> Total(price, m) + more, fee |-> fee] :
            more \in Surcharges, fee \in ProviderFees}

\* What the buyer pays: the debit of amountTotal, committed at once and by
\* itself, or what the provider says.
PaidAmount(price, m, answer) ==
  IF m.kind = "SALDO" THEN Total(price, m) ELSE answer.amount

CreatePayment(b) ==
  LET k == buyer[b]
  IN /\ k.at = "inserted"
     /\ \E answer \in Answers(k.price, k.by) :
          /\ charged' = [charged EXCEPT
               ![k.bought] = @ + PaidAmount(k.price, k.by, answer)]
          /\ Goto(b, [at |-> "paid", bought |-> k.bought, price |-> k.price,
                      cost |-> k.cost, quantity |-> k.quantity,
                      quote |-> k.quote, loss |-> k.loss, by |-> k.by,
                      answer |-> answer])
     /\ UNCHANGED <<catalogue, bill, sale, tries, changed>>

\* totalPrice - fees - cost, before the payment's answer replaces both.
ProfitOf(k) == k.price - k.cost

\* The row gets the answer of the payment, a bill is deleted, and everything
\* is committed.
CommitOrder(b) ==
  LET k == buyer[b]
  IN /\ k.at = "paid"
     /\ sale' = [sale EXCEPT ![k.bought] =
          [at |-> "sold", kind |-> k.by.kind, price |-> k.price,
           total |-> k.answer.amount, fees |-> k.answer.fee,
           profit |-> ProfitOf(k), asked |-> Total(k.price, k.by),
           quote |-> k.quote, loss |-> k.loss, changed |-> b \in changed,
           back |-> 0]]
     /\ bill' = IF k.bought \in Bills
                  THEN [bill EXCEPT ![k.bought] = [at |-> "deleted"]] ELSE bill
     /\ Goto(b, [at |-> "done"])
     /\ UNCHANGED <<catalogue, charged, tries, changed>>

\* Mutant: what the handler had read is still there for the next try.
RollbackKeepsLocals(b) ==
  LET k == buyer[b]
  IN /\ k.at \in {"inserted", "paid"}
     /\ tries[k.bought] < MaxTries
     /\ tries' = [tries EXCEPT ![k.bought] = @ + 1]
     /\ Goto(b, [k EXCEPT !.at = "idle"])
     /\ UNCHANGED <<catalogue, bill, sale, charged, changed>>

\* A query fails or the time of the transaction (20 seconds; 5 for a bill) is
\* over: no row, the debit stays.  The buyer may order again from the page.
RollbackOrder(b) ==
  LET k == buyer[b]
  IN /\ k.at \in {"inserted", "paid"}
     /\ tries[k.bought] < MaxTries
     /\ tries' = [tries EXCEPT ![k.bought] = @ + 1]
     /\ Goto(b, [at |-> "idle"])
     /\ UNCHANGED <<catalogue, bill, sale, charged, changed>>

-----------------------------------------------------------------------------

\* Mutant: the refund is what was charged and the fees again.
RefundWithFees(s) ==
  /\ sale[s].at = "sold"
  /\ sale' = [sale EXCEPT ![s] = [@ EXCEPT !.at = "refunded",
                                          !.back = sale[s].total + sale[s].fees]]
  /\ UNCHANGED <<catalogue, buyer, bill, charged, tries, changed>>

\* addBalance in QueueConsumer: the totalPrice of the row.
RefundSale(s) ==
  /\ sale[s].at = "sold"
  /\ sale' = [sale EXCEPT ![s] = [@ EXCEPT !.at = "refunded",
                                          !.back = sale[s].total]]
  /\ UNCHANGED <<catalogue, buyer, bill, charged, tries, changed>>

\* The catalogue changes under whoever has read it.
EditCatalogue ==
  /\ \/ \E new \in NewProducts : CreateProduct(new)
     \/ \E data \in ProductUpdates : UpdateProduct(data)
     \/ DeleteProduct(\E i \in Bills : bill[i].at \in {"SUCCESS", "PENDING"})
     \/ \E cost \in Costs : SyncProduct(cost)
     \/ \E new \in Methods \ {method} : UpdatePaymentMethod(new)
     \/ DeletePaymentMethod
  /\ changed' = changed \cup Midway
  /\ UNCHANGED <<buyer, bill, sale, charged, tries>>

Shopping(b) ==
  \/ \E quantity \in Quantities : ViewProduct(b, quantity)
  \/ \E i \in Bills : ViewInquiry(b, i)
  \/ ShowMethods(b)
  \/ FindProduct(b)
  \/ FindInquiry(b)
  \/ FindPaymentMethod(b)
  \/ RefuseMethod(b)
  \/ InsertOrder(b)
  \/ InsertRefused(b)
  \/ CreatePayment(b)
  \/ CommitOrder(b)
  \/ RollbackOrder(b)

Next ==
  \/ \E b \in Buyers : Shopping(b)
  \/ \E i \in Bills, total \in BillTotals, status \in {"SUCCESS", "PENDING"} :
       CreateInquiry(i, total, status)
  \/ \E s \in Sales : RefundSale(s)
  \/ EditCatalogue

Spec == Init /\ [][Next]_vars

-----------------------------------------------------------------------------

\* Every variable has its type.
TypeOK ==
  /\ CatalogueTypeOK
  /\ buyer \in [Buyers -> Buyer]
  /\ bill \in [Bills -> Bill]
  /\ sale \in [Sales -> Sale]
  /\ charged \in [Sales -> Nat]
  /\ tries \in [Sales -> 0..MaxTries]
  /\ changed \subseteq Buyers

Sold(s) == sale[s].at # "none"

\* A buyer is asked for what the page said (the debit, or what the provider is
\* sent), for the page and the order compute it apart and each from two reads;
\* only a change of the catalogue between them makes a difference.  A method
\* the page did not offer takes the order only for a bill, where payInquiry
\* does not look at the limits of the total.
ChargedAsQuoted ==
  \A s \in Sales : Sold(s) /\ ~sale[s].changed =>
    IF sale[s].quote = NotOffered THEN s \in Bills
    ELSE sale[s].asked = sale[s].quote

\* A method the page offered is not refused, unless the total is exactly one
\* of its limits (which page and query include and createTransaction does
\* not), the catalogue changed, or someone else paid the bill.
OfferedIsAccepted ==
  [][\A b \in Buyers :
       /\ buyer[b].at \in {"found", "priced"}
       /\ buyer'[b].at = "done"
       /\ buyer[b].quote # NotOffered
       /\ b \notin changed
       => \/ Sold(buyer[b].bought)
          \/ /\ buyer[b].at = "priced"
             /\ buyer[b].quote \in {buyer[b].by.min, buyer[b].by.max}]_vars

\* However many buyers pay a bill at the same time, and whoever retries: an
\* order is charged once, and its row accounts for it, unless a payment of it
\* was rolled back, which leaves the debit.  By SALDO that is the amount asked
\* for, though the row names it in two parts; by a provider it is the total of
\* the row, which differs from the amount asked for by the provider's surcharge.
ChargedOnceUnlessRolledBack ==
  \A s \in Sales : Sold(s) /\ tries[s] = 0 =>
    IF sale[s].kind = "SALDO"
      THEN /\ charged[s] = sale[s].asked
           /\ charged[s] = sale[s].total + sale[s].fees
      ELSE /\ charged[s] = sale[s].total
           /\ charged[s] - sale[s].asked \in Surcharges

\* A refund gives back at most what was charged and at least the price,
\* whatever a provider answers: SALDO debits amountTotal but records the price
\* as totalPrice, a provider's amount is recorded and given back whole.
RefundKeepsAtMostFees ==
  \A s \in Sales : sale[s].at = "refunded" =>
    /\ sale[s].back <= charged[s]
    /\ sale[s].price <= sale[s].back

\* Nothing is sold below its cost unless an administrator gave the price a
\* negative part, or changed the cost and left the price: percentages and the
\* sync, which leaves the profit of the row alone, do no such thing.
NoLossUnlessStaleOrNegative ==
  \A s \in Sales : Sold(s) /\ sale[s].profit < 0 => sale[s].loss # {}

=============================================================================
