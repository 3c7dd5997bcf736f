--------------------------- MODULE PromiseProofs ---------------------------
(***************************************************************************)
(* What the abstract specifications guarantee: PayOnce for any set of      *)
(* items, AtomicBalance for any users, calls and amounts, AtomicCheckout   *)
(* for any products, orders and quantities, AtomicOrder for any orders.  A *)
(* specification that implements one of them inherits its theorems through *)
(* its refinement mapping.                                                 *)
(***************************************************************************)
EXTENDS Integers, Sequences, TLAPS

CONSTANTS Items, Users, Calls, Amounts, InitialBalance,
          Products, Orders, Quantities, InitialStock, Supplies

VARIABLES entitled, waived, payouts,
          balance, past, mutations,
          stock, onHand,
          outcome, overlapped, contended,
          money, accepted, goods, told, returns, touched, forgotten, misheard

Payouts == INSTANCE PayOnce
Account == INSTANCE AtomicBalance
Shelf == INSTANCE AtomicCheckout
Order == INSTANCE AtomicOrder

-----------------------------------------------------------------------------

\* An item that the promise covers is paid out at most once and only if it
\* was entitled: nothing but Payout pays, and no item loses its entitlement.
THEOREM PaidOnce_Always == Payouts!Spec => []Payouts!PaidOnce
<1> DEFINE Inv == Payouts!TypeOK /\ Payouts!PaidOnce
<1>1. Payouts!Init => Inv
  BY DEF Payouts!Init, Payouts!TypeOK, Payouts!PaidOnce
<1>2. Inv /\ [Payouts!Next]_(Payouts!vars) => Inv'
  <2> SUFFICES ASSUME Payouts!TypeOK, Payouts!PaidOnce,
                      [Payouts!Next]_(Payouts!vars)
               PROVE  Payouts!TypeOK' /\ Payouts!PaidOnce'
    OBVIOUS
  <2>1. ASSUME NEW i \in Items, Payouts!Entitle(i)
        PROVE  Payouts!TypeOK' /\ Payouts!PaidOnce'
    BY <2>1 DEF Payouts!Entitle, Payouts!TypeOK, Payouts!PaidOnce
  <2>2. ASSUME NEW i \in Items, Payouts!Payout(i)
        PROVE  Payouts!TypeOK' /\ Payouts!PaidOnce'
    <3>1. Payouts!TypeOK'
      BY <2>2 DEF Payouts!Payout, Payouts!TypeOK
    <3>2. ASSUME NEW k \in Items \ waived
          PROVE  payouts'[k] <= 1 /\ (payouts'[k] = 1 => k \in entitled)
      <4>1. CASE k = i
        BY <2>2, <3>2, <4>1
           DEF Payouts!Payout, Payouts!MayPay, Payouts!TypeOK
      <4>2. CASE k # i
        BY <2>2, <3>2, <4>2
           DEF Payouts!Payout, Payouts!TypeOK, Payouts!PaidOnce
      <4> QED
        BY <4>1, <4>2
    <3> QED
      BY <2>2, <3>1, <3>2 DEF Payouts!Payout, Payouts!PaidOnce
  <2>3. ASSUME NEW items \in SUBSET Items, Payouts!Waive(items)
        PROVE  Payouts!TypeOK' /\ Payouts!PaidOnce'
    BY <2>3 DEF Payouts!Waive, Payouts!TypeOK, Payouts!PaidOnce
  <2>4. CASE UNCHANGED Payouts!vars
    BY <2>4 DEF Payouts!vars, Payouts!TypeOK, Payouts!PaidOnce
  <2> QED
    BY <2>1, <2>2, <2>3, <2>4 DEF Payouts!Next
<1> QED
  BY <1>1, <1>2, PTL DEF Payouts!Spec

-----------------------------------------------------------------------------

Row == [type : {"IN", "OUT"}, amount : Amounts,
        oldBalance : Int, newBalance : Int]

\* The types of the account's variables.  A balance is one of the past ones.
AccountType ==
  /\ balance \in [Users -> Int]
  /\ past \in [Users -> SUBSET Int]
  /\ \A u \in Users : balance[u] \in past[u]
  /\ mutations \in [Users -> Seq(Row)]

\* A posted row moves the balance by its amount, from a past balance.
LEMMA PostKeepsTruth ==
  ASSUME Amounts \subseteq Nat, AccountType, Account!Truthful,
         NEW u \in Users, NEW type \in {"IN", "OUT"}, NEW amount \in Amounts,
         Account!Post(u, type, amount,
           balance[u] + IF type = "IN" THEN amount ELSE -amount)
  PROVE  AccountType' /\ Account!Truthful'
<1> DEFINE signed == IF type = "IN" THEN amount ELSE -amount
           left == balance[u] + signed
           old == mutations[u]
<1>1. signed \in Int /\ balance[u] \in Int /\ left \in Int /\ past[u] \subseteq Int
  BY DEF AccountType
<1>2. PICK seen \in past[u] :
        /\ u \notin overlapped => seen = balance[u]
        /\ mutations' = [mutations EXCEPT ![u] =
             Append(@, [type |-> type, amount |-> amount, oldBalance |-> seen,
                        newBalance |-> seen + (left - balance[u])])]
  BY DEF Account!Post
<1> DEFINE row == [type |-> type, amount |-> amount, oldBalance |-> seen,
                   newBalance |-> seen + (left - balance[u])]
<1>3. seen \in Int /\ row.newBalance = seen + signed
  BY <1>1, <1>2
<1>4. row \in Row
  BY <1>1, <1>3 DEF Row
<1>5. /\ balance' = [balance EXCEPT ![u] = left]
      /\ past' = [past EXCEPT ![u] = @ \cup {left}]
      /\ overlapped' = overlapped
  BY DEF Account!Post
<1>6. /\ mutations' = [mutations EXCEPT ![u] = Append(old, row)]
      /\ old \in Seq(Row)
  BY <1>2 DEF AccountType
<1> HIDE DEF row, signed
<1>7. AccountType'
  <2>1. balance' \in [Users -> Int]
    BY <1>1, <1>5 DEF AccountType
  <2>2. past' \in [Users -> SUBSET Int]
    BY <1>1, <1>5 DEF AccountType
  <2>3. \A v \in Users : balance'[v] \in past'[v]
    BY <1>1, <1>5 DEF AccountType
  <2>4. mutations' \in [Users -> Seq(Row)]
    <3>1. Append(old, row) \in Seq(Row)
      BY <1>4, <1>6
    <3> QED
      BY <1>6, <3>1 DEF AccountType
  <2> QED
    BY <2>1, <2>2, <2>3, <2>4 DEF AccountType
<1>8. \A v \in Users : past[v] \subseteq past'[v]
  BY <1>5 DEF AccountType
<1>9. ASSUME NEW v \in Users, NEW i \in 1..Len(mutations'[v])
      PROVE  LET r == mutations'[v][i]
             IN /\ r.newBalance - r.oldBalance =
                     IF r.type = "IN" THEN r.amount ELSE -r.amount
                /\ r.oldBalance \in past'[v]
                /\ v \notin overlapped => r.newBalance \in past'[v]
  <2>1. CASE v # u
    <3>1. mutations'[v] = mutations[v]
      BY <1>6, <2>1 DEF AccountType
    <3> QED
      BY <1>8, <1>9, <3>1 DEF Account!Truthful
  <2>2. CASE v = u
    <3>1. PICK n \in Nat : n = Len(old)
      BY <1>6
    <3>2. /\ mutations'[v] = Append(old, row)
          /\ Len(mutations'[v]) = n + 1
          /\ mutations'[v][n + 1] = row
          /\ \A j \in 1..n : mutations'[v][j] = old[j]
      BY <1>4, <1>6, <2>2, <3>1 DEF AccountType
    <3>3. CASE i = n + 1
      <4>1. /\ row.type = type /\ row.amount = amount /\ row.oldBalance = seen
            /\ row.newBalance = seen + signed
        BY <1>3 DEF row
      <4>2. row.newBalance - row.oldBalance = signed
        BY <1>1, <1>3, <4>1
      <4>3. v \notin overlapped => row.newBalance \in past'[v]
        BY <1>2, <1>5, <2>2, <4>1 DEF AccountType
      <4>4. row.oldBalance \in past'[v]
        BY <1>2, <1>8, <2>2, <4>1
      <4> QED
        BY <3>2, <3>3, <4>1, <4>2, <4>3, <4>4 DEF signed
    <3>4. CASE i # n + 1
      <4>1. i \in 1..n /\ mutations'[v][i] = mutations[v][i]
        BY <1>9, <2>2, <3>2, <3>4
      <4> QED
        BY <1>8, <2>2, <3>1, <4>1 DEF Account!Truthful
    <3> QED
      BY <3>3, <3>4
  <2> QED
    BY <2>1, <2>2
<1> QED
  BY <1>5, <1>7, <1>9 DEF Account!Truthful

\* An account whose deductions never overlapped is never overdrawn, and the
\* rows of a statement move the balance by their amounts, from and to balances
\* the account has had.
THEOREM Account_Promise ==
  ASSUME Amounts \subseteq Nat, InitialBalance \in [Users -> Nat]
  PROVE  Account!Spec => [](Account!Solvent /\ Account!Truthful)
<1> DEFINE Inv == AccountType /\ Account!Solvent /\ Account!Truthful
<1>1. Account!Init => Inv
  BY DEF Account!Init, AccountType, Account!Solvent, Account!Truthful
<1>2. Inv /\ [Account!Next]_(Account!vars) => Inv'
  <2> SUFFICES ASSUME AccountType, Account!Solvent, Account!Truthful,
                      [Account!Next]_(Account!vars)
               PROVE  AccountType' /\ Account!Solvent' /\ Account!Truthful'
    OBVIOUS
  <2>1. ASSUME NEW c \in Calls, NEW u \in Users, NEW amount \in Amounts,
               Account!Add(c, u, amount)
        PROVE  AccountType' /\ Account!Solvent' /\ Account!Truthful'
    <3>1. AccountType' /\ Account!Truthful'
      BY <2>1, PostKeepsTruth DEF Account!Add
    <3>2. Account!Solvent'
      BY <2>1 DEF Account!Add, Account!Post, Account!Solvent, AccountType
    <3> QED
      BY <3>1, <3>2
  <2>2. ASSUME NEW c \in Calls, NEW u \in Users, NEW amount \in Amounts,
               Account!Deduct(c, u, amount)
        PROVE  AccountType' /\ Account!Solvent' /\ Account!Truthful'
    <3>1. balance[u] - amount = balance[u] + (-amount)
      BY DEF AccountType
    <3>2. AccountType' /\ Account!Truthful'
      BY <2>2, <3>1, PostKeepsTruth DEF Account!Deduct
    <3>3. Account!Solvent'
      BY <2>2 DEF Account!Deduct, Account!Post, Account!Solvent, AccountType
    <3> QED
      BY <3>2, <3>3
  <2>3. CASE /\ UNCHANGED <<balance, past, mutations>>
             /\ overlapped \subseteq overlapped' /\ contended \subseteq contended'
    BY <2>3 DEF AccountType, Account!Solvent, Account!Truthful
  <2> QED
    BY <2>1, <2>2, <2>3 DEF Account!Next, Account!vars, Account!Refuse,
       Account!Fail, Account!Overlap
<1> QED
  BY <1>1, <1>2, PTL DEF Account!Spec

-----------------------------------------------------------------------------

\* The types of the shelf's variables.
ShelfType ==
  /\ stock \in [Products -> Nat]
  /\ onHand \in [Products -> Int]

\* The stock is what there is, and no unit is sold that is not there, with the
\* exceptions of the promise.
THEOREM Shelf_Promise ==
  ASSUME Quantities \subseteq Nat, Supplies \subseteq Nat,
         InitialStock \in [Products -> Nat]
  PROVE  Shelf!Spec => []Shelf!Stocked
<1> DEFINE Inv == ShelfType /\ Shelf!Stocked
<1>1. Shelf!Init => Inv
  BY DEF Shelf!Init, ShelfType, Shelf!Stocked
<1>2. Inv /\ [Shelf!Next]_(Shelf!vars) => Inv'
  <2> SUFFICES ASSUME ShelfType, Shelf!Stocked, [Shelf!Next]_(Shelf!vars)
               PROVE  ShelfType' /\ Shelf!Stocked'
    OBVIOUS
  <2>1. ASSUME NEW o \in Orders, NEW p \in Products, NEW q \in Quantities,
               Shelf!Sell(o, p, q)
        PROVE  ShelfType' /\ Shelf!Stocked'
    <3>1. PICK left \in Nat : left = stock'[p]
      BY <2>1 DEF Shelf!Sell
    <3>2. /\ stock' = [stock EXCEPT ![p] = left]
          /\ onHand' = [onHand EXCEPT ![p] = @ - q]
          /\ p \notin overlapped => left = stock[p] - q
          /\ p \notin contended => left <= onHand'[p]
          /\ overlapped' = overlapped /\ contended' = contended
      BY <2>1, <3>1 DEF Shelf!Sell
    <3>3. ShelfType'
      BY <3>1, <3>2 DEF ShelfType
    <3> QED
      BY <3>1, <3>2, <3>3 DEF ShelfType, Shelf!Stocked
  <2>2. ASSUME NEW o \in Orders, NEW p \in Products, NEW q \in Quantities,
               Shelf!Return(o, p, q)
        PROVE  ShelfType' /\ Shelf!Stocked'
    BY <2>2 DEF Shelf!Return, ShelfType, Shelf!Stocked
  <2>3. ASSUME NEW p \in Products, NEW n \in Supplies, Shelf!Supply(p, n)
        PROVE  ShelfType' /\ Shelf!Stocked'
    BY <2>3 DEF Shelf!Supply, ShelfType, Shelf!Stocked
  <2>4. CASE /\ UNCHANGED <<stock, onHand>>
             /\ overlapped \subseteq overlapped' /\ contended \subseteq contended'
    BY <2>4 DEF ShelfType, Shelf!Stocked
  <2> QED
    BY <2>1, <2>2, <2>3, <2>4 DEF Shelf!Next, Shelf!vars, Shelf!Refuse,
       Shelf!Fail, Shelf!Overlap
<1> QED
  BY <1>1, <1>2, PTL DEF Shelf!Spec

-----------------------------------------------------------------------------

\* The types of what is promised about orders.
OrderType ==
  /\ money \in [Orders -> {"none", "in", "refused"}]
  /\ goods \in [Orders -> {"none", "asked", "delivered", "rejected"}]
  /\ told \in [Orders -> {"open", "canceled", "delivered", "rejected"}]
  /\ returns \in [Orders -> Nat]

OrderInv == OrderType /\ Order!Honest

\* No step of AtomicOrder makes the shop dishonest about an order.
LEMMA StepKeepsHonest ==
  ASSUME OrderInv, [Order!Next]_(Order!vars)
  PROVE  OrderInv'
<1> USE DEF OrderInv, OrderType, Order!Honest, Order!Ends
<1>1. ASSUME NEW o \in Orders, Order!Pay(o)
      PROVE  OrderInv'
  BY <1>1 DEF Order!Pay
<1>2. ASSUME NEW o \in Orders, Order!Accept(o)
      PROVE  OrderInv'
  BY <1>2 DEF Order!Accept
<1>3. ASSUME NEW o \in Orders, Order!Cancel(o)
      PROVE  OrderInv'
  BY <1>3 DEF Order!Cancel
<1>4. ASSUME NEW o \in Orders, Order!Ask(o)
      PROVE  OrderInv'
  BY <1>4 DEF Order!Ask
<1>5. ASSUME NEW o \in Orders, Order!Settle(o)
      PROVE  OrderInv'
  BY <1>5 DEF Order!Settle
<1>6. ASSUME NEW o \in Orders, Order!Tell(o)
      PROVE  OrderInv'
  BY <1>6 DEF Order!Tell
<1>7. ASSUME NEW o \in Orders, Order!Return(o)
      PROVE  OrderInv'
  BY <1>7 DEF Order!Return, Order!MayReturn
<1>8. ASSUME NEW o \in Orders, Order!Interfere(o)
      PROVE  OrderInv'
  BY <1>8 DEF Order!Interfere
<1>9. ASSUME NEW orders \in SUBSET Orders, Order!Forget(orders)
      PROVE  OrderInv'
  BY <1>9 DEF Order!Forget
<1>10. ASSUME NEW o \in Orders, Order!Mishear(o)
       PROVE  OrderInv'
  BY <1>10 DEF Order!Mishear
<1>11. CASE UNCHANGED Order!vars
  BY <1>11 DEF Order!vars
<1> QED
  BY <1>1, <1>2, <1>3, <1>4, <1>5, <1>6, <1>7, <1>8, <1>9, <1>10, <1>11
     DEF Order!Next

LEMMA OrderInvariant == Order!Spec => []OrderInv
<1>1. Order!Init => OrderInv
  BY DEF Order!Init, OrderInv, OrderType, Order!Honest, Order!Ends
<1> QED
  BY <1>1, StepKeepsHonest, PTL DEF Order!Spec

\* Goods are asked for only for an accepted order, and an order is accepted
\* only for money; what the shop says of an order is true, unless it misheard
\* the supplier; the money is returned only if the supplier rejected, and once.
THEOREM Order_Promise == Order!Spec => []Order!Honest
<1>1. OrderInv => Order!Honest
  BY DEF OrderInv
<1> QED
  BY <1>1, OrderInvariant, PTL

\* An order stays accepted, delivered, rejected and cancelled.
THEOREM Order_Final == Order!Spec => Order!Final
<1> DEFINE Kept == \A o \in Orders : o \notin touched' =>
                     /\ o \in accepted => o \in accepted'
                     /\ goods[o] \in Order!Ends => goods'[o] = goods[o]
                     /\ told[o] = "canceled" => told'[o] = "canceled"
<1>1. OrderInv /\ [Order!Next]_(Order!vars) => [Kept]_(Order!vars)
  <2> SUFFICES ASSUME OrderInv, [Order!Next]_(Order!vars),
                      NEW o \in Orders, o \notin touched'
               PROVE  /\ o \in accepted => o \in accepted'
                      /\ goods[o] \in Order!Ends => goods'[o] = goods[o]
                      /\ told[o] = "canceled" => told'[o] = "canceled"
    OBVIOUS
  <2> USE DEF OrderInv, OrderType, Order!Honest, Order!Ends
  <2>1. ASSUME NEW e \in Orders, Order!Tell(e), told[o] = "canceled"
        PROVE  e # o
    <3>1. touched' = touched /\ goods[e] # "none"
      BY <2>1 DEF Order!Tell
    <3> QED
      BY <2>1, <3>1
  <2>2. ASSUME NEW e \in Orders, Order!Tell(e)
        PROVE  /\ o \in accepted => o \in accepted'
               /\ goods[o] \in Order!Ends => goods'[o] = goods[o]
               /\ told[o] = "canceled" => told'[o] = "canceled"
    BY <2>1, <2>2 DEF Order!Tell
  <2>3. ASSUME NEW e \in Orders, Order!Interfere(e)
        PROVE  /\ o \in accepted => o \in accepted'
               /\ goods[o] \in Order!Ends => goods'[o] = goods[o]
               /\ told[o] = "canceled" => told'[o] = "canceled"
    BY <2>3 DEF Order!Interfere
  <2>4. ASSUME NEW e \in Orders, \/ Order!Pay(e) \/ Order!Accept(e) \/ Order!Cancel(e)
                                 \/ Order!Ask(e) \/ Order!Settle(e) \/ Order!Return(e)
        PROVE  /\ o \in accepted => o \in accepted'
               /\ goods[o] \in Order!Ends => goods'[o] = goods[o]
               /\ told[o] = "canceled" => told'[o] = "canceled"
    BY <2>4 DEF Order!Pay, Order!Accept, Order!Cancel, Order!Ask, Order!Settle,
                Order!Return
  <2>5. ASSUME NEW e \in Orders, Order!Mishear(e)
        PROVE  /\ o \in accepted => o \in accepted'
               /\ goods[o] \in Order!Ends => goods'[o] = goods[o]
               /\ told[o] = "canceled" => told'[o] = "canceled"
    <3>1. touched' = touched /\ goods[e] # "none"
      BY <2>5 DEF Order!Mishear
    <3>2. told[o] = "canceled" => e # o
      BY <3>1
    <3> QED
      BY <2>5, <3>2 DEF Order!Mishear
  <2> QED
    BY <2>2, <2>3, <2>4, <2>5 DEF Order!Next, Order!Forget, Order!vars
<1> QED
  BY <1>1, OrderInvariant, PTL DEF Order!Spec, Order!Final

\* AtomicOrder implements PayOnce: its returns are payouts, to which a
\* rejected order is entitled.
THEOREM Order_Returns_Once == Order!Spec => Order!ReturnsOnce
<1> DEFINE rejected == {o \in Orders : goods[o] = "rejected"}
<1>1. Order!Init => Order!Payouts!Init
  BY DEF Order!Init, Order!Payouts!Init
<1>2. OrderInv /\ [Order!Next]_(Order!vars)
        => [Order!Payouts!Next]_(Order!Payouts!vars)
  <2> SUFFICES ASSUME OrderType, [Order!Next]_(Order!vars)
               PROVE  [Order!Payouts!Next]_(Order!Payouts!vars)
    BY DEF OrderInv
  <2>1. ASSUME UNCHANGED <<goods, touched, forgotten, returns>>
        PROVE  UNCHANGED Order!Payouts!vars
    BY <2>1 DEF Order!Payouts!vars
  <2>2. ASSUME NEW o \in Orders, Order!Ask(o) \/ Order!Settle(o)
        PROVE  [Order!Payouts!Next]_(Order!Payouts!vars)
    <3>1. PICK answer \in {"asked", "delivered", "rejected"} :
            /\ goods[o] \in {"none", "asked"}
            /\ goods' = [goods EXCEPT ![o] = answer]
            /\ UNCHANGED <<touched, forgotten, returns>>
      BY <2>2 DEF Order!Ask, Order!Settle, Order!Ends
    <3>2. CASE answer = "rejected"
      <4>1. rejected' = rejected \cup {o}
        BY <3>1, <3>2 DEF OrderType
      <4>2. Order!Payouts!Entitle(o)
        BY <3>1, <4>1 DEF Order!Payouts!Entitle
      <4> QED
        BY <4>2 DEF Order!Payouts!Next
    <3>3. CASE answer # "rejected"
      <4>1. rejected' = rejected
        BY <3>1, <3>3 DEF OrderType
      <4> QED
        BY <3>1, <4>1 DEF Order!Payouts!vars
    <3> QED
      BY <3>2, <3>3
  <2>3. ASSUME NEW o \in Orders, Order!Return(o)
        PROVE  Order!Payouts!Next
    <3>1. Order!Payouts!Payout(o)
      BY <2>3 DEF Order!Return, Order!MayReturn, Order!Payouts!Payout,
                  Order!Payouts!MayPay
    <3> QED
      BY <3>1 DEF Order!Payouts!Next
  <2>4. ASSUME NEW items \in SUBSET Orders,
               touched' \cup forgotten' = (touched \cup forgotten) \cup items,
               UNCHANGED <<goods, returns>>
        PROVE  Order!Payouts!Next
    <3>1. Order!Payouts!Waive(items)
      BY <2>4 DEF Order!Payouts!Waive
    <3> QED
      BY <3>1 DEF Order!Payouts!Next
  <2>5. ASSUME NEW o \in Orders, Order!Interfere(o)
        PROVE  Order!Payouts!Next
    <3>1. touched' \cup forgotten' = (touched \cup forgotten) \cup {o}
      BY <2>5 DEF Order!Interfere
    <3> QED
      BY <2>4, <2>5, <3>1 DEF Order!Interfere
  <2>6. ASSUME NEW orders \in SUBSET Orders, Order!Forget(orders)
        PROVE  Order!Payouts!Next
    <3>1. touched' \cup forgotten' = (touched \cup forgotten) \cup orders
      BY <2>6 DEF Order!Forget
    <3> QED
      BY <2>4, <2>6, <3>1 DEF Order!Forget
  <2>7. ASSUME NEW o \in Orders,
               \/ Order!Pay(o) \/ Order!Accept(o) \/ Order!Cancel(o)
               \/ Order!Tell(o) \/ Order!Mishear(o)
        PROVE  UNCHANGED Order!Payouts!vars
    BY <2>1, <2>7 DEF Order!Pay, Order!Accept, Order!Cancel, Order!Tell,
                      Order!Mishear
  <2> QED
    BY <2>1, <2>2, <2>3, <2>5, <2>6, <2>7 DEF Order!Next, Order!vars
<1> QED
  BY <1>1, <1>2, OrderInvariant, PTL
     DEF Order!Spec, Order!ReturnsOnce, Order!Payouts!Spec

=============================================================================
