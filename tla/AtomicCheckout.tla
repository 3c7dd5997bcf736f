--------------------------- MODULE AtomicCheckout ---------------------------
(***************************************************************************)
(* createTransaction as a shopkeeper thinks of it: an order is one step.   *)
(* It takes its units off the shelf and off the stock, once, or it is      *)
(* refused because the stock does not cover it, or it fails and leaves no  *)
(* trace.                                                                  *)
(*                                                                         *)
(* Two exceptions are part of the promise.  For a product whose stock      *)
(* changed hands in the middle of a checkout, a sale may leave any number  *)
(* in the stock.  If it was no more than a restock, a sale may lose units  *)
(* that way, but it never makes the stock more than there is.              *)
(*                                                                         *)
(* Checkout implements this.                                               *)
(***************************************************************************)
EXTENDS Integers

CONSTANTS Products, Orders, Quantities, InitialStock, Supplies

VARIABLES
  stock,       \* how many units of every product the shop believes to have
  onHand,      \* how many there are
  outcome,     \* what became of every order
  overlapped,  \* products whose stock changed hands in a checkout
  contended    \* those where it was not only a restock

vars == <<stock, onHand, outcome, overlapped, contended>>

Pending == [at |-> "pending"]

Sold(p, quantity) == [at |-> "sold", product |-> p, quantity |-> quantity]

Init ==
  /\ stock = InitialStock
  /\ onHand = InitialStock
  /\ outcome = [o \in Orders |-> Pending]
  /\ overlapped = {}
  /\ contended = {}

Becomes(o, end) == outcome' = [outcome EXCEPT ![o] = end]

\* The stock of p is reduced by quantity, unless the product is one of the
\* exceptions.
Sell(o, p, quantity) ==
  /\ outcome[o] = Pending
  /\ onHand' = [onHand EXCEPT ![p] = @ - quantity]
  /\ stock'[p] \in Nat
  /\ stock' = [stock EXCEPT ![p] = stock'[p]]
  /\ p \notin overlapped => stock'[p] = stock[p] - quantity
  /\ p \notin contended => stock'[p] <= onHand'[p]
  /\ Becomes(o, Sold(p, quantity))
  /\ UNCHANGED <<overlapped, contended>>

Refuse(o, p, quantity) ==
  /\ outcome[o] = Pending
  /\ stock[p] < quantity
  /\ Becomes(o, [at |-> "refused"])
  /\ UNCHANGED <<stock, onHand, overlapped, contended>>

Fail(o) ==
  /\ outcome[o] = Pending
  /\ Becomes(o, [at |-> "failed"])
  /\ UNCHANGED <<stock, onHand, overlapped, contended>>

\* A refunded order gives back what it took, all of it and once.
Return(o, p, quantity) ==
  /\ outcome[o] = Sold(p, quantity)
  /\ stock' = [stock EXCEPT ![p] = @ + quantity]
  /\ onHand' = [onHand EXCEPT ![p] = @ + quantity]
  /\ Becomes(o, [at |-> "returned"])
  /\ overlapped' \in {overlapped, overlapped \cup {p}}
  /\ UNCHANGED contended

\* New goods have come, or the shelf was counted.
Supply(p, n) ==
  /\ stock' = [stock EXCEPT ![p] = n]
  /\ onHand' = [onHand EXCEPT ![p] = n]
  /\ \E marks \in {{}, {p}} :
       /\ overlapped' = overlapped \cup marks
       /\ contended' = contended \cup marks
  /\ UNCHANGED outcome

\* Checkouts of a product come to overlap; nothing else happens.
Overlap(p) ==
  /\ overlapped' = overlapped \cup {p}
  /\ contended' = contended \cup {p}
  /\ UNCHANGED <<stock, onHand, outcome>>

Next ==
  \/ \E o \in Orders, p \in Products, quantity \in Quantities :
       Sell(o, p, quantity) \/ Refuse(o, p, quantity) \/ Return(o, p, quantity)
  \/ \E o \in Orders : Fail(o)
  \/ \E p \in Products :
       Overlap(p) \/ \E n \in Supplies : Supply(p, n)

Spec == Init /\ [][Next]_vars

\* What follows from the promise: the stock is what there is unless it changed
\* hands in a checkout, and no unit is sold that is not there unless another
\* checkout or a supply did that.
Stocked ==
  /\ \A p \in Products \ overlapped : stock[p] = onHand[p]
  /\ \A p \in Products \ contended : stock[p] <= onHand[p] /\ onHand[p] >= 0

=============================================================================
