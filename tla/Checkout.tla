------------------------------ MODULE Checkout ------------------------------
(***************************************************************************)
(* The checkout: TransactionService.createTransaction up to its commit, and *)
(* the other writers of Products.stock (the restock of a refunded order,    *)
(* the catalogue sync and the administrator).                               *)
(*                                                                          *)
(* The stock is read and checked first, outside of the database transaction *)
(* that writes it as an absolute number.  PostgreSQL keeps that row locked  *)
(* until the transaction ends; readers see the committed stock, writers     *)
(* wait.  Inside the transaction the handler also uses the client outside   *)
(* of it (generateTransactionId, the balance), which takes a second         *)
(* connection from Prisma's pool.                                           *)
(***************************************************************************)
EXTENDS Integers, FiniteSets

CONSTANTS
  Products,       \* rows of the table products
  Orders,         \* calls of createTransaction, each made once
  Quantities,     \* what productQty may be
  InitialStock,   \* Products.stock before the first call
  Supplies,       \* what the sync or an administrator sets the stock to
  PoolSize        \* connections of Prisma's pool

ASSUME QuantitiesAssumption == Quantities \subseteq Nat \ {0}
ASSUME StockAssumption ==
  InitialStock \in [Products -> Nat] /\ Supplies \subseteq Nat
ASSUME PoolAssumption == PoolSize \in Nat \ {0}

VARIABLES
  stock,       \* Products.stock as committed
  order,       \* how far each call is, and the stock it read
  onHand,      \* history: the units there really are, less those sold
  overlapped,  \* history: products whose stock changed hands in a checkout
  contended    \* history: those where it was not only a restock

vars == <<stock, order, onHand, overlapped, contended>>

\* The states in which the database transaction of a call is open, and those
\* in which it holds the lock on the row of its product.
Locking == {"writing", "numbered", "paid"}
Transacting == {"open"} \cup Locking

Order == [at : {"idle", "refused", "failed"}] \cup
         [at : {"checked", "sold", "returned"} \cup Transacting,
          product : Products, quantity : Quantities, seen : Nat]

\* Calls of product p between the check of its stock and their end.
InProgress(p) == {o \in Orders : /\ order[o].at \in {"checked"} \cup Transacting
                                 /\ order[o].product = p}

Locked(p) == \E o \in InProgress(p) : order[o].at \in Locking

\* The pool has a connection that no open transaction holds.
Free == Cardinality({o \in Orders : order[o].at \in Transacting}) < PoolSize

MarkIf(set, p) == IF InProgress(p) = {} THEN set ELSE set \cup {p}

-----------------------------------------------------------------------------

Init ==
  /\ stock = InitialStock
  /\ order = [o \in Orders |-> [at |-> "idle"]]
  /\ onHand = InitialStock
  /\ overlapped = {}
  /\ contended = {}

Move(o, at) == order' = [order EXCEPT ![o].at = at]

\* Mutant: only an empty stock is refused.
CheckProductNotEmpty(o, p, quantity) ==
  /\ order[o].at = "idle"
  /\ Free
  /\ stock[p] >= 1
  /\ order' = [order EXCEPT ![o] = [at |-> "checked", product |-> p,
                                    quantity |-> quantity, seen |-> stock[p]]]
  /\ overlapped' = MarkIf(overlapped, p)
  /\ contended' = MarkIf(contended, p)
  /\ UNCHANGED <<stock, onHand>>

\* findFirst has found the product, and its stock is enough.
CheckProduct(o, p, quantity) ==
  /\ order[o].at = "idle"
  /\ Free
  /\ stock[p] >= 1 /\ stock[p] >= quantity
  /\ order' = [order EXCEPT ![o] = [at |-> "checked", product |-> p,
                                    quantity |-> quantity, seen |-> stock[p]]]
  /\ overlapped' = MarkIf(overlapped, p)
  /\ contended' = MarkIf(contended, p)
  /\ UNCHANGED <<stock, onHand>>

\* "Product stock is empty".
ProductEmpty(o, p, quantity) ==
  /\ order[o].at = "idle"
  /\ Free
  /\ stock[p] < 1 \/ stock[p] < quantity
  /\ order' = [order EXCEPT ![o] = [at |-> "refused"]]
  /\ UNCHANGED <<stock, onHand, overlapped, contended>>

\* The payment method is fine and $transaction gets its connection.
BeginTransaction(o) ==
  /\ order[o].at = "checked"
  /\ Free
  /\ Move(o, "open")
  /\ UNCHANGED <<stock, onHand, overlapped, contended>>

\* tx.products.update waits for the row and locks it; nobody sees the new
\* stock before the commit.
WriteStock(o) ==
  /\ order[o].at = "open"
  /\ ~Locked(order[o].product)
  /\ Move(o, "writing")
  /\ UNCHANGED <<stock, onHand, overlapped, contended>>

\* generateTransactionId looks the new id up on another connection; then the
\* row of the order is inserted.
GenerateTransactionId(o) ==
  /\ order[o].at = "writing"
  /\ Free
  /\ Move(o, "numbered")
  /\ UNCHANGED <<stock, onHand, overlapped, contended>>

\* createPayment: the balance is debited on another connection, a provider
\* needs none.
CreatePayment(o, provider) ==
  /\ order[o].at = "numbered"
  /\ provider = "SALDO" => Free
  /\ Move(o, "paid")
  /\ UNCHANGED <<stock, onHand, overlapped, contended>>

\* The stock the transaction writes.
NewStock(k) == k.seen - k.quantity

Commit(o) ==
  LET k == order[o]
  IN /\ order[o].at = "paid"
     /\ stock' = [stock EXCEPT ![k.product] = NewStock(k)]
     /\ onHand' = [onHand EXCEPT ![k.product] = @ - k.quantity]
     /\ Move(o, "sold")
     /\ UNCHANGED <<overlapped, contended>>

\* Mutant: no time limit ends a transaction that waits.
RollbackUnlessWaiting(o) ==
  /\ order[o].at \in {"checked", "numbered", "paid"}
  /\ order' = [order EXCEPT ![o] = [at |-> "failed"]]
  /\ UNCHANGED <<stock, onHand, overlapped, contended>>

\* The payment method is refused, a query fails, no connection comes in time
\* or the transaction is over its 20 seconds, wherever it is waiting.
Rollback(o) ==
  /\ order[o].at \in {"checked"} \cup Transacting
  /\ order' = [order EXCEPT ![o] = [at |-> "failed"]]
  /\ UNCHANGED <<stock, onHand, overlapped, contended>>

\* Mutant: a restock sets the stock back to what the order had read.
RestockAbsolute(k) == k.seen

\* What a restock makes of the stock: an increment.
Restocked(k) == stock[k.product] + k.quantity

\* The job that refunds an order increments the stock.
Restock(o) ==
  LET k == order[o]
  IN /\ order[o].at = "sold"
     /\ ~Locked(k.product)
     /\ stock' = [stock EXCEPT ![k.product] = Restocked(k)]
     /\ onHand' = [onHand EXCEPT ![k.product] = @ + k.quantity]
     /\ Move(o, "returned")
     /\ overlapped' = MarkIf(overlapped, k.product)
     /\ UNCHANGED contended

\* getDigiflazzProduct writes the supplier's stock (999999 for unlimited), an
\* administrator any number.
SetStock(p, n) ==
  /\ ~Locked(p)
  /\ stock' = [stock EXCEPT ![p] = n]
  /\ onHand' = [onHand EXCEPT ![p] = n]
  /\ overlapped' = MarkIf(overlapped, p)
  /\ contended' = MarkIf(contended, p)
  /\ UNCHANGED order

OrderStarts(o) ==
  \E p \in Products, quantity \in Quantities :
    \/ CheckProduct(o, p, quantity)
    \/ ProductEmpty(o, p, quantity)

OrderGoesOn(o) ==
  \/ BeginTransaction(o)
  \/ WriteStock(o)
  \/ GenerateTransactionId(o)
  \/ \E provider \in {"PAYDISINI", "SALDO"} : CreatePayment(o, provider)
  \/ Commit(o)
  \/ Rollback(o)

Next ==
  \/ \E o \in Orders : OrderStarts(o) \/ OrderGoesOn(o) \/ Restock(o)
  \/ \E p \in Products, n \in Supplies : SetStock(p, n)

\* A call that was started goes on or is ended by its time limit.
Fairness == \A o \in Orders : WF_vars(OrderGoesOn(o))

Spec == Init /\ [][Next]_vars /\ Fairness

-----------------------------------------------------------------------------

\* Every variable has its type; the stock is never negative, because each
\* checkout writes what it read less what that covered.
TypeOK ==
  /\ stock \in [Products -> Nat]
  /\ order \in [Orders -> Order]
  /\ onHand \in [Products -> Int]
  /\ overlapped \subseteq Products
  /\ contended \subseteq overlapped

\* Products.stock counts the units that are left, unless a checkout worked
\* from a stock that another checkout, a restock or a sync changed meanwhile
\* (the absolute write at transaction.service.ts:204).
StockCountsUnlessOverlapped ==
  \A p \in Products \ overlapped : stock[p] = onHand[p]

\* No unit is sold that is not there, as long as no checkout overlaps another
\* one or a sync; a restock that a checkout overwrites loses units but
\* oversells none.
NoOversellUnlessContended ==
  \A p \in Products \ contended : onHand[p] >= 0

\* What became of a call: one that has not committed is yet to happen.
Outcome(o) ==
  CASE order[o].at = "sold" -> [at |-> "sold", product |-> order[o].product,
                                quantity |-> order[o].quantity]
    [] order[o].at \in {"returned", "refused", "failed"} -> [at |-> order[o].at]
    [] OTHER -> [at |-> "pending"]

\* The calls seen as single steps.
Shelf == INSTANCE AtomicCheckout WITH outcome <- [o \in Orders |-> Outcome(o)]

\* Every order takes effect at once, when it commits, although it looked at the
\* stock before its transaction began: it takes its units off a stock that
\* covers them and is still the one it read, with the exceptions that Shelf
\* names; and a restock gives back what its order took
\* (transaction.service.ts:151-311, queue.consumer.ts:128-137).
SellsAtomically == Shelf!Spec

\* Every checkout ends, although the transactions of the pool can all wait for
\* each other: for a connection that only they could give back, or for the
\* row that the one that waits for a connection has locked.
CheckoutEnds ==
  \A o \in Orders :
    order[o].at \in {"checked"} \cup Transacting
      ~> order[o].at \in {"sold", "returned", "failed"}

\* What the check of createTransaction says ("Product stock is empty"): an
\* order the stock does not cover is refused, so no unit is sold twice.
NoOversell == \A p \in Products : onHand[p] >= 0

=============================================================================
