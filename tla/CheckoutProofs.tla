--------------------------- MODULE CheckoutProofs ---------------------------
(***************************************************************************)
(* Theorems about Checkout, for any products, calls, quantities, supplies  *)
(* and size of the pool.                                                   *)
(*                                                                         *)
(* Neither property is inductive: StockInv adds what the calls in progress *)
(* have read.  While a product is not contended at most one call is, and   *)
(* what it read is not more than there is.                                 *)
(***************************************************************************)
EXTENDS Checkout, TLAPS

Active == {"checked"} \cup Transacting

\* What a call has read covers its quantity.
Covered ==
  \A o \in Orders :
    order[o].at \in Active => order[o].quantity <= order[o].seen

StockInv(p) ==
  /\ p \notin overlapped =>
       /\ stock[p] = onHand[p]
       /\ \A o \in InProgress(p) : order[o].seen = stock[p]
  /\ p \notin contended =>
       /\ stock[p] <= onHand[p]
       /\ \A o \in InProgress(p) : order[o].seen <= onHand[p]
       /\ \A o, other \in InProgress(p) : o = other

IInv == TypeOK /\ Covered /\ \A p \in Products : StockInv(p)

LEMMA OrderType ==
  ASSUME TypeOK, NEW o \in Orders,
         order[o].at \in Active \cup {"sold", "returned"}
  PROVE  /\ order[o].product \in Products
         /\ order[o].quantity \in Quantities
         /\ order[o].quantity \in Nat
         /\ order[o].seen \in Nat
BY QuantitiesAssumption DEF TypeOK, Order, Active, Transacting, Locking

\* A call that moves on keeps its product, its quantity and what it read.
LEMMA OrderMoved ==
  ASSUME TypeOK, NEW o \in Orders,
         order[o].at \in Active \cup {"sold", "returned"},
         NEW at \in Active \cup {"sold", "returned"},
         Move(o, at)
  PROVE  /\ order' \in [Orders -> Order]
         /\ order'[o].at = at
         /\ order'[o].product = order[o].product
         /\ order'[o].quantity = order[o].quantity
         /\ order'[o].seen = order[o].seen
         /\ \A x \in Orders \ {o} : order'[x] = order[x]
<1>1. PICK a \in Active \cup {"sold", "returned"}, p \in Products,
           q \in Quantities, s \in Nat :
        order[o] = [at |-> a, product |-> p, quantity |-> q, seen |-> s]
  BY DEF TypeOK, Order, Active, Transacting, Locking
<1>2. [order[o] EXCEPT !.at = at] =
        [at |-> at, product |-> p, quantity |-> q, seen |-> s]
  BY <1>1
<1>3. [order[o] EXCEPT !.at = at] \in Order
  BY <1>2 DEF Order, Active, Transacting, Locking
<1>4. order' = [order EXCEPT ![o] = [order[o] EXCEPT !.at = at]]
  BY DEF Move
<1> QED
  BY <1>1, <1>2, <1>3, <1>4 DEF TypeOK

\* Steps inside a checkout change neither the stock nor who is in progress.
LEMMA MoveKeepsInv ==
  ASSUME IInv, NEW o \in Orders, order[o].at \in Active,
         NEW at \in Active, Move(o, at),
         UNCHANGED <<stock, onHand, overlapped, contended>>
  PROVE  IInv'
<1>1. /\ order' \in [Orders -> Order]
      /\ order'[o].at = at
      /\ order'[o].product = order[o].product
      /\ order'[o].quantity = order[o].quantity
      /\ order'[o].seen = order[o].seen
      /\ \A x \in Orders \ {o} : order'[x] = order[x]
  BY OrderMoved DEF IInv
<1>2. TypeOK'
  BY <1>1 DEF IInv, TypeOK
<1>3. Covered'
  BY <1>1 DEF IInv, Covered
<1>4. ASSUME NEW p \in Products PROVE StockInv(p)'
  <2>1. \A x \in InProgress(p)' : x \in InProgress(p) /\ order'[x].seen = order[x].seen
    BY <1>1 DEF InProgress, Active
  <2>2. StockInv(p)
    BY DEF IInv
  <2> QED
    BY <2>1, <2>2 DEF StockInv
<1> QED
  BY <1>2, <1>3, <1>4 DEF IInv

\* A check starts a call that has read the stock as it is.
LEMMA CheckKeepsInv ==
  ASSUME IInv, NEW o \in Orders, NEW p \in Products, NEW q \in Quantities,
         CheckProduct(o, p, q)
  PROVE  IInv'
<1> DEFINE new == [at |-> "checked", product |-> p, quantity |-> q,
                   seen |-> stock[p]]
<1>1. /\ order' = [order EXCEPT ![o] = new]
      /\ stock[p] \in Nat /\ q \in Nat /\ q <= stock[p]
      /\ stock' = stock /\ onHand' = onHand
      /\ overlapped' = MarkIf(overlapped, p)
      /\ contended' = MarkIf(contended, p)
      /\ order[o].at = "idle"
  BY QuantitiesAssumption DEF IInv, TypeOK, CheckProduct
<1>2. /\ order' \in [Orders -> Order]
      /\ order'[o] = new
      /\ \A x \in Orders \ {o} : order'[x] = order[x]
  <2>1. new \in Order
    BY <1>1 DEF Order
  <2> QED
    BY <1>1, <2>1 DEF IInv, TypeOK
<1>3. TypeOK'
  BY <1>1, <1>2 DEF IInv, TypeOK, MarkIf
<1>4. Covered'
  BY <1>1, <1>2 DEF IInv, Covered
<1>5. ASSUME NEW r \in Products PROVE StockInv(r)'
  <2>0. StockInv(r) /\ onHand[r] \in Int /\ stock[r] \in Nat
    BY DEF IInv, TypeOK
  <2>1. CASE r # p
    <3>1. \A x \in InProgress(r)' : x \in InProgress(r) /\ order'[x].seen = order[x].seen
      BY <1>2, <2>1 DEF InProgress
    <3>2. /\ r \notin overlapped' => r \notin overlapped
          /\ r \notin contended' => r \notin contended
      BY <1>1 DEF MarkIf
    <3> QED
      BY <3>1, <3>2, <2>0, <1>1 DEF StockInv
  <2>2. CASE r = p /\ InProgress(p) = {}
    <3>1. \A x \in InProgress(r)' : x = o
      BY <1>2, <2>2 DEF InProgress
    <3>2. overlapped' = overlapped /\ contended' = contended
      BY <1>1, <2>2 DEF MarkIf
    <3>3. order'[o].seen = stock[r]
      BY <1>2, <2>2
    <3> QED
      BY <3>1, <3>2, <3>3, <2>0, <1>1 DEF StockInv
  <2>3. CASE r = p /\ InProgress(p) # {}
    <3>1. r \in overlapped' /\ r \in contended'
      BY <1>1, <2>3 DEF MarkIf
    <3> QED
      BY <3>1 DEF StockInv
  <2> QED
    BY <2>1, <2>2, <2>3
<1> QED
  BY <1>3, <1>4, <1>5 DEF IInv

\* A call that ends without a sale leaves the stock and the other calls.
LEMMA EndKeepsInv ==
  ASSUME IInv, NEW o \in Orders, NEW at \in {"refused", "failed"},
         order' = [order EXCEPT ![o] = [at |-> at]],
         UNCHANGED <<stock, onHand, overlapped, contended>>
  PROVE  IInv'
<1>1. /\ order' \in [Orders -> Order]
      /\ order'[o].at = at
      /\ \A x \in Orders \ {o} : order'[x] = order[x]
  <2>1. [at |-> at] \in Order
    BY DEF Order
  <2> QED
    BY <2>1 DEF IInv, TypeOK
<1>2. TypeOK'
  BY <1>1 DEF IInv, TypeOK
<1>3. at \notin Active
  BY DEF Active, Transacting, Locking
<1>4. Covered'
  BY <1>1, <1>3 DEF IInv, Covered
<1>5. ASSUME NEW p \in Products PROVE StockInv(p)'
  <2>1. \A x \in InProgress(p)' : x \in InProgress(p) /\ order'[x].seen = order[x].seen
    BY <1>1, <1>3 DEF InProgress, Active
  <2>2. StockInv(p)
    BY DEF IInv
  <2> QED
    BY <2>1, <2>2 DEF StockInv
<1> QED
  BY <1>2, <1>4, <1>5 DEF IInv

\* The commit: the only call in progress, if the product is not contended.
LEMMA CommitKeepsInv ==
  ASSUME IInv, NEW o \in Orders, Commit(o)
  PROVE  IInv'
<1> DEFINE k == order[o]
<1>1. /\ k.at = "paid"
      /\ Move(o, "sold")
      /\ stock' = [stock EXCEPT ![k.product] = k.seen - k.quantity]
      /\ onHand' = [onHand EXCEPT ![k.product] = @ - k.quantity]
      /\ overlapped' = overlapped /\ contended' = contended
  BY DEF Commit, NewStock
<1>2. /\ k.at \in Active
      /\ k.product \in Products
      /\ k.quantity \in Nat /\ k.seen \in Nat /\ k.quantity <= k.seen
  BY <1>1, OrderType DEF IInv, Covered, Active, Transacting, Locking
<1>3. /\ order' \in [Orders -> Order]
      /\ order'[o].at = "sold"
      /\ \A x \in Orders \ {o} : order'[x] = order[x]
  BY <1>1, <1>2, OrderMoved DEF IInv
<1>4. k.seen - k.quantity \in Nat
  BY <1>2
<1>5. TypeOK'
  <2>1. stock' \in [Products -> Nat]
    BY <1>1, <1>2, <1>4 DEF IInv, TypeOK
  <2>2. onHand' \in [Products -> Int]
    BY <1>1, <1>2 DEF IInv, TypeOK
  <2> QED
    BY <1>1, <1>3, <2>1, <2>2 DEF IInv, TypeOK
<1>6. Covered'
  BY <1>3 DEF IInv, Covered, Active, Transacting, Locking
<1>7. ASSUME NEW p \in Products PROVE StockInv(p)'
  <2>1. \A x \in InProgress(p)' :
          x # o /\ x \in InProgress(p) /\ order'[x].seen = order[x].seen
    BY <1>3 DEF InProgress, Transacting, Locking
  <2>2. StockInv(p) /\ onHand[p] \in Int /\ stock[p] \in Nat
    BY DEF IInv, TypeOK
  <2>3. CASE p # k.product
    <3>1. stock'[p] = stock[p] /\ onHand'[p] = onHand[p]
      BY <1>1, <2>3 DEF IInv, TypeOK
    <3> QED
      BY <3>1, <2>1, <2>2, <1>1 DEF StockInv
  <2>4. CASE p = k.product
    <3>1. /\ stock'[p] = k.seen - k.quantity
          /\ onHand'[p] = onHand[p] - k.quantity
      BY <1>1, <2>4 DEF IInv, TypeOK
    <3>2. o \in InProgress(p)
      BY <1>2, <2>4 DEF InProgress, Active
    <3>3. p \notin contended' => InProgress(p)' = {}
      BY <3>2, <2>1, <2>2, <1>1 DEF StockInv
    <3>4. contended' \subseteq overlapped'
      BY <1>1 DEF IInv, TypeOK
    <3>5. p \notin contended => k.seen <= onHand[p]
      BY <3>2, <2>2 DEF StockInv
    <3>6. p \notin overlapped => k.seen = onHand[p]
      BY <3>2, <2>2 DEF StockInv
    <3>7. p \notin overlapped' => stock'[p] = onHand'[p]
      BY <3>1, <3>6, <1>1
    <3>8. p \notin contended' => stock'[p] <= onHand'[p]
      BY <3>1, <3>5, <1>1, <1>2, <2>2
    <3> QED
      BY <3>3, <3>4, <3>7, <3>8 DEF StockInv
  <2> QED
    BY <2>3, <2>4
<1> QED
  BY <1>5, <1>6, <1>7 DEF IInv

\* A restock adds to the stock and to the units there are.
LEMMA RestockKeepsInv ==
  ASSUME IInv, NEW o \in Orders, Restock(o)
  PROVE  IInv'
<1> DEFINE k == order[o]
<1>1. /\ k.at = "sold"
      /\ Move(o, "returned")
      /\ stock' = [stock EXCEPT ![k.product] = stock[k.product] + k.quantity]
      /\ onHand' = [onHand EXCEPT ![k.product] = @ + k.quantity]
      /\ overlapped' = MarkIf(overlapped, k.product)
      /\ contended' = contended
  BY DEF Restock, Restocked
<1>2. k.product \in Products /\ k.quantity \in Nat
  BY <1>1, OrderType DEF IInv
<1>3. /\ order' \in [Orders -> Order]
      /\ order'[o].at = "returned"
      /\ \A x \in Orders \ {o} : order'[x] = order[x]
  BY <1>1, OrderMoved DEF IInv
<1>4. TypeOK'
  <2>1. stock' \in [Products -> Nat]
    BY <1>1, <1>2 DEF IInv, TypeOK
  <2>2. onHand' \in [Products -> Int]
    BY <1>1, <1>2 DEF IInv, TypeOK
  <2>3. overlapped' \subseteq Products /\ contended' \subseteq overlapped'
    BY <1>1, <1>2 DEF IInv, TypeOK, MarkIf
  <2> QED
    BY <1>3, <2>1, <2>2, <2>3 DEF TypeOK
<1>5. Covered'
  BY <1>3 DEF IInv, Covered, Active, Transacting, Locking
<1>6. ASSUME NEW p \in Products PROVE StockInv(p)'
  <2>1. \A x \in InProgress(p)' :
          x \in InProgress(p) /\ order'[x].seen = order[x].seen
    BY <1>3 DEF InProgress, Transacting, Locking
  <2>2. StockInv(p) /\ onHand[p] \in Int /\ stock[p] \in Nat
    BY DEF IInv, TypeOK
  <2>3. \A x \in InProgress(p) : order[x].seen \in Nat
    BY OrderType DEF InProgress, Active, IInv
  <2>4. CASE p # k.product
    <3>1. stock'[p] = stock[p] /\ onHand'[p] = onHand[p]
      BY <1>1, <2>4 DEF IInv, TypeOK
    <3>2. p \notin overlapped' => p \notin overlapped
      BY <1>1 DEF MarkIf
    <3> QED
      BY <3>1, <3>2, <2>1, <2>2, <1>1 DEF StockInv
  <2>5. CASE p = k.product
    <3>1. /\ stock'[p] = stock[p] + k.quantity
          /\ onHand'[p] = onHand[p] + k.quantity
      BY <1>1, <2>5 DEF IInv, TypeOK
    <3>2. p \notin overlapped' => p \notin overlapped /\ InProgress(p)' = {}
      BY <1>1, <2>1, <2>5 DEF MarkIf
    <3>3. p \notin overlapped' => stock'[p] = onHand'[p]
      BY <3>1, <3>2, <2>2 DEF StockInv
    <3>4. p \notin contended' =>
            /\ stock'[p] <= onHand'[p]
            /\ \A x \in InProgress(p) : order[x].seen <= onHand'[p]
            /\ \A x, other \in InProgress(p) : x = other
      BY <3>1, <2>2, <2>3, <1>1, <1>2 DEF StockInv
    <3> QED
      BY <3>2, <3>3, <3>4, <2>1 DEF StockInv
  <2> QED
    BY <2>4, <2>5
<1> QED
  BY <1>4, <1>5, <1>6 DEF IInv

\* A new stock replaces the old one, and spoils the checkouts in progress.
LEMMA SetStockKeepsInv ==
  ASSUME IInv, NEW p \in Products, NEW n \in Supplies, SetStock(p, n)
  PROVE  IInv'
<1>1. /\ stock' = [stock EXCEPT ![p] = n]
      /\ onHand' = [onHand EXCEPT ![p] = n]
      /\ overlapped' = MarkIf(overlapped, p)
      /\ contended' = MarkIf(contended, p)
      /\ order' = order
      /\ n \in Nat
  BY StockAssumption DEF SetStock
<1>2. TypeOK'
  <2>1. stock' \in [Products -> Nat] /\ onHand' \in [Products -> Int]
    BY <1>1 DEF IInv, TypeOK
  <2>2. overlapped' \subseteq Products /\ contended' \subseteq overlapped'
    BY <1>1 DEF IInv, TypeOK, MarkIf
  <2> QED
    BY <1>1, <2>1, <2>2 DEF IInv, TypeOK
<1>3. Covered'
  BY <1>1 DEF IInv, Covered
<1>4. ASSUME NEW r \in Products PROVE StockInv(r)'
  <2>0. StockInv(r)
    BY DEF IInv
  <2>1. InProgress(r)' = InProgress(r)
    BY <1>1 DEF InProgress
  <2>2. CASE r # p
    <3>1. stock'[r] = stock[r] /\ onHand'[r] = onHand[r]
      BY <1>1, <2>2 DEF IInv, TypeOK
    <3>2. /\ r \notin overlapped' => r \notin overlapped
          /\ r \notin contended' => r \notin contended
      BY <1>1 DEF MarkIf
    <3> QED
      BY <3>1, <3>2, <2>0, <2>1, <1>1 DEF StockInv
  <2>3. CASE r = p
    <3>1. stock'[r] = n /\ onHand'[r] = n
      BY <1>1, <2>3 DEF IInv, TypeOK
    <3>2. InProgress(r) # {} => r \in overlapped' /\ r \in contended'
      BY <1>1, <2>3 DEF MarkIf
    <3> QED
      BY <3>1, <3>2, <2>1, <1>1 DEF StockInv
  <2> QED
    BY <2>2, <2>3
<1> QED
  BY <1>2, <1>3, <1>4 DEF IInv

LEMMA InitInv == Init => IInv
<1> SUFFICES ASSUME Init PROVE IInv
  OBVIOUS
<1>1. \A o \in Orders : order[o].at \notin Active
  BY DEF Init, Active, Transacting, Locking
<1>2. TypeOK
  BY StockAssumption DEF Init, TypeOK, Order
<1>3. Covered
  BY <1>1 DEF Covered
<1>4. \A p \in Products : InProgress(p) = {}
  BY <1>1 DEF InProgress, Active
<1>5. \A p \in Products : StockInv(p)
  BY <1>2, <1>4 DEF StockInv, Init, TypeOK
<1> QED
  BY <1>2, <1>3, <1>5 DEF IInv

LEMMA NextInv == IInv /\ [Next]_vars => IInv'
<1> SUFFICES ASSUME IInv, [Next]_vars PROVE IInv'
  OBVIOUS
<1>1. ASSUME NEW o \in Orders, NEW p \in Products, NEW q \in Quantities,
             CheckProduct(o, p, q)
      PROVE  IInv'
  BY <1>1, CheckKeepsInv
<1>2. ASSUME NEW o \in Orders, NEW p \in Products, NEW q \in Quantities,
             ProductEmpty(o, p, q)
      PROVE  IInv'
  BY <1>2, EndKeepsInv DEF ProductEmpty
<1>3. ASSUME NEW o \in Orders, BeginTransaction(o) PROVE IInv'
  BY <1>3, MoveKeepsInv DEF BeginTransaction, Active, Transacting
<1>4. ASSUME NEW o \in Orders, WriteStock(o) PROVE IInv'
  BY <1>4, MoveKeepsInv DEF WriteStock, Active, Transacting, Locking
<1>5. ASSUME NEW o \in Orders, GenerateTransactionId(o) PROVE IInv'
  BY <1>5, MoveKeepsInv DEF GenerateTransactionId, Active, Transacting, Locking
<1>6. ASSUME NEW o \in Orders, NEW provider, CreatePayment(o, provider)
      PROVE  IInv'
  BY <1>6, MoveKeepsInv DEF CreatePayment, Active, Transacting, Locking
<1>7. ASSUME NEW o \in Orders, Commit(o) PROVE IInv'
  BY <1>7, CommitKeepsInv
<1>8. ASSUME NEW o \in Orders, Rollback(o) PROVE IInv'
  BY <1>8, EndKeepsInv DEF Rollback
<1>9. ASSUME NEW o \in Orders, Restock(o) PROVE IInv'
  BY <1>9, RestockKeepsInv
<1>10. ASSUME NEW p \in Products, NEW n \in Supplies, SetStock(p, n)
       PROVE  IInv'
  BY <1>10, SetStockKeepsInv
<1>11. CASE UNCHANGED vars
  BY <1>11 DEF vars, IInv, TypeOK, Covered, StockInv, InProgress
<1> QED
  BY <1>1, <1>2, <1>3, <1>4, <1>5, <1>6, <1>7, <1>8, <1>9, <1>10, <1>11
  DEF Next, OrderStarts, OrderGoesOn

LEMMA AlwaysInv == Spec => []IInv
BY InitInv, NextInv, PTL DEF Spec

\* Every variable keeps its type; the stock never becomes negative.
THEOREM TypeCorrect == Spec => []TypeOK
<1>1. IInv => TypeOK
  BY DEF IInv
<1> QED
  BY <1>1, AlwaysInv, PTL

\* The stock counts the units that are left unless checkouts overlapped
\* another change of it.
THEOREM StockCounts_Unless_Overlapped == Spec => []StockCountsUnlessOverlapped
<1>1. IInv => StockCountsUnlessOverlapped
  BY DEF IInv, StockInv, StockCountsUnlessOverlapped
<1> QED
  BY <1>1, AlwaysInv, PTL

\* No unit is oversold unless a checkout overlapped another one or a sync.
THEOREM NoOversell_Unless_Contended == Spec => []NoOversellUnlessContended
<1>1. IInv => NoOversellUnlessContended
  <2> SUFFICES ASSUME IInv, NEW p \in Products \ contended
               PROVE  onHand[p] >= 0
    BY DEF NoOversellUnlessContended
  <2>1. stock[p] \in Nat /\ onHand[p] \in Int /\ stock[p] <= onHand[p]
    BY DEF IInv, TypeOK, StockInv
  <2> QED
    BY <2>1
<1> QED
  BY <1>1, AlwaysInv, PTL

-----------------------------------------------------------------------------
(* Checkout implements AtomicCheckout.  An order takes effect at its        *)
(* commit.  IInv says what the stock it had read is worth by then.          *)

\* The mapped outcome of every call.
Outcomes == [o \in Orders |-> Outcome(o)]

\* A step inside a checkout changes nothing that can be seen.
LEMMA MoveIsUnseen ==
  ASSUME IInv, NEW o \in Orders, order[o].at \in Active,
         NEW at \in Active, Move(o, at),
         UNCHANGED <<stock, onHand, overlapped, contended>>
  PROVE  UNCHANGED Shelf!vars
<1>1. /\ order'[o].at = at
      /\ \A x \in Orders \ {o} : order'[x] = order[x]
  BY OrderMoved DEF IInv
<1>2. \A x \in Orders : Outcome(x)' = Outcome(x)
  BY <1>1 DEF Outcome, Active, Transacting, Locking
<1>3. Outcomes' = Outcomes
  BY <1>2 DEF Outcomes
<1> QED
  BY <1>3 DEF Shelf!vars, Outcomes

\* A call that ends has its outcome from then on; the others keep theirs.
LEMMA EndIsSeen ==
  ASSUME NEW o \in Orders, \A x \in Orders \ {o} : order'[x] = order[x]
  PROVE  Shelf!Becomes(o, Outcome(o)')
<1>1. \A x \in Orders \ {o} : Outcome(x)' = Outcome(x)
  BY DEF Outcome
<1>2. Outcomes' = [Outcomes EXCEPT ![o] = Outcome(o)']
  BY <1>1 DEF Outcomes
<1> QED
  BY <1>2 DEF Shelf!Becomes, Outcomes

\* A call that starts is not seen, unless it overlaps another one.
LEMMA CheckIsSeen ==
  ASSUME IInv, NEW o \in Orders, NEW p \in Products, NEW q \in Quantities,
         CheckProduct(o, p, q)
  PROVE  [Shelf!Next]_(Shelf!vars)
<1>1. /\ order[o].at = "idle" /\ order'[o].at = "checked"
      /\ \A x \in Orders \ {o} : order'[x] = order[x]
      /\ UNCHANGED <<stock, onHand>>
  BY DEF CheckProduct, IInv, TypeOK
<1>2. \A x \in Orders : Outcome(x)' = Outcome(x)
  BY <1>1 DEF Outcome
<1>3. Outcomes' = Outcomes
  BY <1>2 DEF Outcomes
<1>4. CASE InProgress(p) = {}
  BY <1>1, <1>3, <1>4 DEF CheckProduct, MarkIf, Shelf!vars, Outcomes
<1>5. CASE InProgress(p) # {}
  <2>1. Shelf!Overlap(p)
    BY <1>1, <1>3, <1>5 DEF CheckProduct, MarkIf, Shelf!Overlap, Outcomes
  <2> QED
    BY <2>1 DEF Shelf!Next
<1> QED
  BY <1>4, <1>5

\* The commit takes the units off the stock there is, or the product is one of
\* the exceptions.
LEMMA CommitIsSale ==
  ASSUME IInv, IInv', NEW o \in Orders, Commit(o)
  PROVE  Shelf!Next
<1> DEFINE k == order[o]
<1>1. /\ k.at = "paid"
      /\ Move(o, "sold")
      /\ stock' = [stock EXCEPT ![k.product] = k.seen - k.quantity]
      /\ onHand' = [onHand EXCEPT ![k.product] = @ - k.quantity]
      /\ overlapped' = overlapped /\ contended' = contended
  BY DEF Commit, NewStock
<1>2. PICK p \in Products, q \in Quantities : p = k.product /\ q = k.quantity
  BY <1>1, OrderType DEF IInv, Active, Transacting, Locking
<1>3. /\ order'[o].at = "sold"
      /\ order'[o].product = p /\ order'[o].quantity = q
      /\ \A x \in Orders \ {o} : order'[x] = order[x]
  BY <1>1, <1>2, OrderMoved DEF IInv, Active, Transacting, Locking
<1>4. /\ Outcome(o) = Shelf!Pending
      /\ Outcome(o)' = Shelf!Sold(p, q)
  BY <1>1, <1>3 DEF Outcome, Shelf!Pending, Shelf!Sold
<1>5. Shelf!Becomes(o, Shelf!Sold(p, q))
  BY <1>3, <1>4, EndIsSeen
<1>6. /\ stock'[p] = k.seen - q
      /\ stock' = [stock EXCEPT ![p] = stock'[p]]
      /\ stock'[p] \in Nat
  BY <1>1, <1>2 DEF IInv, TypeOK
<1>7. p \notin overlapped => k.seen = stock[p]
  <2>1. o \in InProgress(p)
    BY <1>1, <1>2 DEF InProgress, Transacting, Locking
  <2> QED
    BY <2>1 DEF IInv, StockInv
<1>8. p \notin contended => stock'[p] <= onHand'[p]
  BY <1>1 DEF IInv, StockInv
<1>9. Shelf!Sell(o, p, q)
  BY <1>1, <1>2, <1>4, <1>5, <1>6, <1>7, <1>8 DEF Shelf!Sell, Outcomes
<1> QED
  BY <1>9 DEF Shelf!Next

\* A restock gives back the product and the quantity of its order.
LEMMA RestockIsReturn ==
  ASSUME IInv, NEW o \in Orders, Restock(o)
  PROVE  Shelf!Next
<1> DEFINE k == order[o]
<1>1. PICK p \in Products, q \in Quantities : p = k.product /\ q = k.quantity
  BY OrderType DEF Restock, IInv
<1>2. /\ order'[o].at = "returned"
      /\ \A x \in Orders \ {o} : order'[x] = order[x]
  BY OrderMoved DEF Restock, IInv
<1>3. /\ Outcome(o) = Shelf!Sold(p, q)
      /\ Outcome(o)' = [at |-> "returned"]
  BY <1>1, <1>2 DEF Restock, Outcome, Shelf!Sold
<1>4. Shelf!Becomes(o, [at |-> "returned"])
  BY <1>2, <1>3, EndIsSeen
<1>5. Shelf!Return(o, p, q)
  BY <1>1, <1>3, <1>4 DEF Restock, Restocked, MarkIf, Shelf!Return, Outcomes
<1> QED
  BY <1>5 DEF Shelf!Next

\* Every step of Checkout is a step of AtomicCheckout, or none.
LEMMA NextSellsAtomically ==
  ASSUME IInv, IInv', [Next]_vars
  PROVE  [Shelf!Next]_(Shelf!vars)
<1>1. ASSUME NEW o \in Orders, NEW p \in Products, NEW q \in Quantities,
             CheckProduct(o, p, q)
      PROVE  [Shelf!Next]_(Shelf!vars)
  BY <1>1, CheckIsSeen
<1>2. ASSUME NEW o \in Orders, NEW p \in Products, NEW q \in Quantities,
             ProductEmpty(o, p, q)
      PROVE  Shelf!Next
  <2>1. /\ order[o].at = "idle" /\ order'[o].at = "refused"
        /\ \A x \in Orders \ {o} : order'[x] = order[x]
    BY <1>2 DEF ProductEmpty, IInv, TypeOK
  <2>2. Outcome(o) = Shelf!Pending /\ Outcome(o)' = [at |-> "refused"]
    BY <2>1 DEF Outcome, Shelf!Pending
  <2>3. Shelf!Becomes(o, [at |-> "refused"])
    BY <2>1, <2>2, EndIsSeen
  <2>4. stock[p] < q
    BY <1>2, QuantitiesAssumption DEF ProductEmpty, IInv, TypeOK
  <2>5. Shelf!Refuse(o, p, q)
    BY <1>2, <2>2, <2>3, <2>4 DEF ProductEmpty, Shelf!Refuse, Outcomes
  <2> QED
    BY <2>5 DEF Shelf!Next
<1>3. ASSUME NEW o \in Orders,
             \/ BeginTransaction(o) \/ WriteStock(o) \/ GenerateTransactionId(o)
             \/ \E provider \in {"PAYDISINI", "SALDO"} :
                  CreatePayment(o, provider)
      PROVE  UNCHANGED Shelf!vars
  <2>1. PICK at \in Active : /\ order[o].at \in Active
                             /\ Move(o, at)
                             /\ UNCHANGED <<stock, onHand, overlapped, contended>>
    BY <1>3 DEF BeginTransaction, WriteStock, GenerateTransactionId,
                CreatePayment, Active, Transacting, Locking
  <2> QED
    BY <2>1, MoveIsUnseen
<1>4. ASSUME NEW o \in Orders, Commit(o) PROVE Shelf!Next
  BY <1>4, CommitIsSale
<1>5. ASSUME NEW o \in Orders, Rollback(o) PROVE Shelf!Next
  <2>1. /\ order'[o].at = "failed"
        /\ \A x \in Orders \ {o} : order'[x] = order[x]
    BY <1>5 DEF Rollback, IInv, TypeOK
  <2>2. Outcome(o) = Shelf!Pending /\ Outcome(o)' = [at |-> "failed"]
    BY <1>5, <2>1 DEF Rollback, Outcome, Shelf!Pending, Transacting, Locking
  <2>3. Shelf!Becomes(o, [at |-> "failed"])
    BY <2>1, <2>2, EndIsSeen
  <2>4. Shelf!Fail(o)
    BY <1>5, <2>2, <2>3 DEF Rollback, Shelf!Fail, Outcomes
  <2> QED
    BY <2>4 DEF Shelf!Next
<1>6. ASSUME NEW o \in Orders, Restock(o) PROVE Shelf!Next
  BY <1>6, RestockIsReturn
<1>7. ASSUME NEW p \in Products, NEW n \in Supplies, SetStock(p, n)
      PROVE  Shelf!Next
  <2>1. Outcomes' = Outcomes
    BY <1>7 DEF SetStock, Outcomes, Outcome
  <2>2. \E marks \in {{}, {p}} : /\ overlapped' = overlapped \cup marks
                                 /\ contended' = contended \cup marks
    BY <1>7 DEF SetStock, MarkIf
  <2>3. Shelf!Supply(p, n)
    BY <1>7, <2>1, <2>2 DEF SetStock, Shelf!Supply, Outcomes
  <2> QED
    BY <2>3 DEF Shelf!Next
<1>8. CASE UNCHANGED vars
  BY <1>8 DEF vars, Shelf!vars, Outcome
<1> QED
  BY <1>1, <1>2, <1>3, <1>4, <1>5, <1>6, <1>7, <1>8
     DEF Next, OrderStarts, OrderGoesOn

\* createTransaction, which reads the stock before its transaction and writes
\* it as an absolute number, sells as if each order were one step, with the
\* exceptions AtomicCheckout names.
THEOREM Sells_Atomically == Spec => SellsAtomically
<1>1. Init => Shelf!Init
  <2> SUFFICES ASSUME Init PROVE Shelf!Init
    OBVIOUS
  <2>1. Outcomes = [o \in Orders |-> Shelf!Pending]
    BY DEF Init, Outcomes, Outcome, Shelf!Pending
  <2> QED
    BY <2>1 DEF Init, Shelf!Init, Outcomes
<1>2. IInv /\ IInv' /\ [Next]_vars => [Shelf!Next]_(Shelf!vars)
  BY NextSellsAtomically
<1> QED
  BY <1>1, <1>2, AlwaysInv, PTL DEF Spec, SellsAtomically, Shelf!Spec

=============================================================================
