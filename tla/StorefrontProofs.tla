-------------------------- MODULE StorefrontProofs --------------------------
(***************************************************************************)
(* The money of the shop, for any catalogue, any number of buyers and any  *)
(* number of changes.                                                      *)
(***************************************************************************)
EXTENDS Storefront, TLAPS

-----------------------------------------------------------------------------
(* Arithmetic.                                                             *)

LEMMA Distributes ==
  ASSUME NEW a \in Int, NEW b \in Int, NEW c \in Int
  PROVE  (a + b) * c = a * c + b * c
  BY Z3

LEMMA ProductIsNat ==
  ASSUME NEW a \in Nat, NEW b \in Nat
  PROVE  a * b \in Nat /\ a * b = b * a /\ (a > 0 /\ b > 0 => a * b > 0)
  BY Z3

\* Math.ceil: the least whole number that is not less than the quotient.
LEMMA CeilDivCovers ==
  ASSUME NEW a \in Nat, NEW b \in Nat \ {0}
  PROVE  CeilDiv(a, b) \in Nat /\ CeilDiv(a, b) * b >= a
<1> DEFINE q == (a + b - 1) \div b
           r == (a + b - 1) % b
<1>1. a + b - 1 \in Nat
  OBVIOUS
<1>2. q \in Int /\ r \in 0..(b - 1) /\ a + b - 1 = b * q + r
  BY <1>1, Z3
<1>3. q >= 0
  BY <1>1, Z3
<1>4. q * b = a + b - 1 - r
  BY <1>2, Z3
<1>5. q * b >= a
  BY <1>2, <1>4, Z3
<1> QED
  BY <1>2, <1>3, <1>5 DEF CeilDiv

\* Nothing is lost by dividing: a multiple is covered by its factor.
LEMMA CeilDivAtLeast ==
  ASSUME NEW a \in Nat, NEW b \in Nat \ {0}, NEW n \in Nat, a >= n * b
  PROVE  CeilDiv(a, b) >= n
<1> DEFINE q == CeilDiv(a, b)
<1>1. q \in Nat /\ q * b >= n * b
  BY CeilDivCovers, Z3
<1> HIDE DEF q
<1>2. ASSUME q < n PROVE FALSE
  <2>1. n = q + (n - q) /\ n - q >= 1 /\ n - q \in Nat
    BY <1>1, <1>2
  <2>2. (n - q) * b \in Nat /\ (n - q) * b > 0
    BY <2>1, ProductIsNat
  <2>3. (q + (n - q)) * b = q * b + (n - q) * b
    BY <1>1, <2>1, Distributes
  <2>4. q * b \in Nat /\ n * b \in Nat
    BY <1>1, ProductIsNat
  <2>5. n * b = q * b + (n - q) * b
    BY <2>1, <2>3
  <2> QED
    BY <1>1, <2>2, <2>4, <2>5
<1> QED
  BY <1>1, <1>2 DEF q

\* The arithmetic of a total: rest is what is left after the percentage.
LEMMA TotalCovers ==
  ASSUME NEW price \in Nat, NEW pct \in 0..99
  PROVE  /\ CeilDiv(price * 100, 100 - pct) \in Nat
         /\ CeilDiv(price * 100, 100 - pct) >= price
         /\ CeilDiv(price * 100, 100 - pct) * (100 - pct) >= price * 100
<1>1. PICK d \in Nat \ {0} : d = 100 - pct
  OBVIOUS
<1>2. PICK a \in Nat : a = price * 100
  OBVIOUS
<1>3. a >= price * d
  <2>1. (d + pct) * price = d * price + pct * price
    BY Distributes
  <2>2. /\ pct * price \in Nat /\ d * price \in Nat
        /\ d * price = price * d
    BY ProductIsNat
  <2>3. d + pct = 100
    BY <1>1
  <2> QED
    BY <1>2, <2>1, <2>2, <2>3
<1>4. CeilDiv(a, d) \in Nat /\ CeilDiv(a, d) * d >= a
  BY CeilDivCovers
<1>5. CeilDiv(a, d) >= price
  BY <1>3, CeilDivAtLeast
<1> QED
  BY <1>1, <1>2, <1>4, <1>5

\* Who pays with a method bears its fees: what is left of the total of an
\* order, after the fixed fee and the percentage of it, is the price at least;
\* and the total is never less than price and fees (createTransaction and
\* payInquiry, totalPrice).
THEOREM Pricing_OrderTotal ==
  ASSUME NEW price \in Nat, NEW m \in Method, NEW excess \in {0, 1}
  PROVE  /\ OrderTotal(price, m, excess) \in Nat
         /\ OrderTotal(price, m, excess) >= price + m.fees
         /\ (OrderTotal(price, m, excess) - m.fees) * (100 - m.pct) >= 100 * price
<1> DEFINE c == CeilDiv(price * 100, 100 - m.pct)
           d == 100 - m.pct
<1>1. d \in 1..100 /\ m.fees \in Nat /\ m.pct \in 0..99
  BY DEF Method
<1>2. c \in Nat /\ c >= price /\ c * d >= price * 100
  <2>1. PICK pct \in 0..99 : pct = m.pct
    BY <1>1
  <2>2. LET x == CeilDiv(price * 100, 100 - pct)
        IN x \in Nat /\ x >= price /\ x * (100 - pct) >= price * 100
    BY TotalCovers
  <2> QED
    BY <2>1, <2>2
<1>3. OrderTotal(price, m, excess) = c + excess + m.fees
  BY DEF OrderTotal
<1> HIDE DEF c
<1> HIDE DEF d
<1>4. (c + excess) * d >= c * d
  <2>1. (c + excess) * d = c * d + excess * d
    BY <1>1, <1>2, Distributes
  <2>2. excess * d \in Nat /\ c * d \in Nat
    BY <1>1, <1>2, ProductIsNat
  <2> QED
    BY <2>1, <2>2
<1>5. (c + excess) * d >= 100 * price
  <2>1. c * d \in Nat /\ (c + excess) * d \in Nat
    BY <1>1, <1>2, ProductIsNat
  <2> QED
    BY <1>2, <1>4, <2>1
<1>6. OrderTotal(price, m, excess) - m.fees = c + excess
  BY <1>1, <1>2, <1>3
<1> QED
  BY <1>1, <1>2, <1>3, <1>5, <1>6 DEF d

\* The same for what a deposit asks for (createDeposit).
THEOREM Pricing_DepositTotal ==
  ASSUME NEW amount \in Nat, NEW m \in Method
  PROVE  /\ DepositTotal(amount, m) \in Nat
         /\ DepositTotal(amount, m) >= amount + m.fees
         /\ (DepositTotal(amount, m) - m.fees) * (100 - m.pct) >= 100 * amount
<1>1. DepositTotal(amount, m) = OrderTotal(amount, m, 0)
  <2>1. CeilDiv(amount * 100, 100 - m.pct) \in Nat /\ m.fees \in Nat
    BY TotalCovers DEF Method
  <2> QED
    BY <2>1 DEF DepositTotal, OrderTotal
<1> QED
  BY <1>1, Pricing_OrderTotal

\* A percentage of something is something.
LEMMA ShareIsNat ==
  ASSUME NEW n \in Nat, NEW pct \in Nat
  PROVE  (n * pct) \div 100 \in Nat
<1>1. n * pct \in Nat
  BY Z3
<1> QED
  BY <1>1, Z3

\* A price is a number whatever it is computed from, and not below the cost if
\* no part of it is negative (ProductsService and the sync).
LEMMA PriceCoversCost ==
  ASSUME NEW cost \in Int, NEW profit \in Int, NEW pct \in Int
  PROVE  /\ PriceOf(cost, profit, pct) \in Int
         /\ {cost, profit, pct} \subseteq Nat => PriceOf(cost, profit, pct) >= cost
<1>1. (cost * pct) \div 100 \in Int
  <2>1. cost * pct \in Int
    BY Z3
  <2> QED
    BY <2>1, Z3
<1>2. {cost, profit, pct} \subseteq Nat => (cost * pct) \div 100 \in Nat
  BY ShareIsNat
<1> HIDE DEF PriceOf
<1>3. PICK share \in Int : share = (cost * pct) \div 100
  BY <1>1
<1>4. PriceOf(cost, profit, pct) = cost + profit + share
  BY <1>3 DEF PriceOf
<1> QED
  BY <1>2, <1>3, <1>4

-----------------------------------------------------------------------------
(* Types.                                                                  *)

\* What the price of an order and its total have to do with each other.
LEMMA TotalTypes ==
  ASSUME NEW price \in Nat, NEW m \in Methods
  PROVE  /\ m.kind \in Kinds /\ m.fees \in Nat
         /\ Total(price, m) \in Nat /\ Total(price, m) >= price
<1>1. m \in Method
  BY CatalogueAssumption
<1>2. Excess(price, m) \in {0, 1}
  BY DEF Excess
<1>3. /\ Total(price, m) \in Nat
      /\ Total(price, m) >= price + m.fees
  BY <1>1, <1>2, Pricing_OrderTotal DEF Total
<1>4. m.kind \in Kinds /\ m.fees \in Nat
  BY <1>1 DEF Method
<1> QED
  BY <1>3, <1>4

LEMMA InitTypes == Init => TypeOK
<1> SUFFICES ASSUME Init PROVE TypeOK
  OBVIOUS
<1>1. CatalogueTypeOK
  <2>1. NoProduct \in Product
    BY DEF NoProduct, Product
  <2>2. 0 \in 0..MaxEdits
    BY CatalogueAssumption
  <2> QED
    BY <2>1, <2>2 DEF Init, CatalogueInit, CatalogueTypeOK
<1> QED
  BY <1>1, StorefrontAssumption DEF Init, TypeOK, Buyer, Bill, Sale, NoSale

\* A method that is there is one of Methods.
LEMMA MethodThere ==
  ASSUME CatalogueTypeOK, method.kind # "gone" PROVE method \in Methods
  BY DEF CatalogueTypeOK

\* A price computed now covers the cost, or a part of it is negative.
LEMMA RiskCovers ==
  ASSUME NEW cost \in Int, NEW profit \in Int, NEW pct \in Int
  PROVE  /\ RiskOf(cost, profit, pct) \subseteq Risks
         /\ RiskOf(cost, profit, pct) = {} => PriceOf(cost, profit, pct) >= cost
<1>1. CASE {cost, profit, pct} \subseteq Nat
  BY <1>1, PriceCoversCost DEF RiskOf
<1>2. CASE ~({cost, profit, pct} \subseteq Nat)
  BY <1>2 DEF RiskOf, Risks
<1> QED
  BY <1>1, <1>2

\* What the catalogue's actions do to the product, and the price they leave.
LEMMA EditProduct ==
  ASSUME CatalogueTypeOK, EditCatalogue
  PROVE  /\ product' \in Product /\ risk' \subseteq Risks
         /\ (risk = {} => product.price >= product.cost)
              => (risk' = {} => product'.price >= product'.cost)
<1>1. /\ product \in Product /\ risk \subseteq Risks
      /\ product.at \in {"none", "listed", "deleted"}
      /\ product.open \in BOOLEAN /\ product.cost \in Int
      /\ product.profit \in Int /\ product.pct \in Int /\ product.price \in Int
  BY DEF CatalogueTypeOK, Product
<1>2. ASSUME NEW new \in NewProducts, CreateProduct(new)
      PROVE  /\ product' \in Product /\ risk' \subseteq Risks
             /\ risk' = {} => product'.price >= product'.cost
  <2>1. new.cost \in Int /\ new.profit \in Int /\ new.pct \in Int
    BY CatalogueAssumption
  <2>2. PriceOf(new.cost, new.profit, new.pct) \in Int
    BY <2>1, PriceCoversCost
  <2>3. product' = [at |-> "listed", open |-> TRUE, cost |-> new.cost,
                    profit |-> new.profit, pct |-> new.pct,
                    price |-> PriceOf(new.cost, new.profit, new.pct)]
    BY <1>2 DEF CreateProduct
  <2>4. risk' = RiskOf(new.cost, new.profit, new.pct)
    BY <1>2 DEF CreateProduct
  <2>5. product' \in Product
    BY <2>1, <2>2, <2>3 DEF Product
  <2>6. /\ product'.cost = new.cost
        /\ product'.price = PriceOf(new.cost, new.profit, new.pct)
    BY <2>3
  <2> QED
    BY <2>1, <2>4, <2>5, <2>6, RiskCovers
<1>3. ASSUME NEW data \in ProductUpdates, UpdateProduct(data)
      PROVE  /\ product' \in Product /\ risk' \subseteq Risks
             /\ (risk = {} => product.price >= product.cost)
                  => (risk' = {} => product'.price >= product'.cost)
  <2> DEFINE cost == IF "cost" \in DOMAIN data THEN data["cost"] ELSE product["cost"]
             profit == IF "profit" \in DOMAIN data THEN data["profit"]
                                                   ELSE product["profit"]
             pct == IF "pct" \in DOMAIN data THEN data["pct"] ELSE product["pct"]
             open == IF "open" \in DOMAIN data THEN data["open"] ELSE product["open"]
             price == IF PriceThere(data)
                        THEN PriceOf(data.cost, data.profit, data.pct)
                        ELSE product.price
  <2>1. /\ "cost" \in DOMAIN data => data["cost"] \in Int
        /\ "profit" \in DOMAIN data => data["profit"] \in Int
        /\ "pct" \in DOMAIN data => data["pct"] \in Int
        /\ "open" \in DOMAIN data => data["open"] \in BOOLEAN
    BY UpdatesAssumption
  <2>2. cost \in Int /\ profit \in Int /\ pct \in Int /\ open \in BOOLEAN
    BY <1>1, <2>1
  <2>3. PriceThere(data) =>
          /\ data.cost \in Int /\ data.profit \in Int /\ data.pct \in Int
          /\ "cost" \in DOMAIN data
    BY <1>3, <2>1 DEF UpdateProduct, PriceIsWhole
  <2>4. price \in Int
    BY <1>1, <2>3, PriceCoversCost
  <2>5. product' = [product EXCEPT !.cost = cost, !.profit = profit, !.pct = pct,
                                  !.open = open, !.price = price]
    BY <1>3 DEF UpdateProduct
  <2>6. risk' = IF PriceThere(data) THEN RiskOf(data.cost, data.profit, data.pct)
                ELSE risk \cup {r \in {"stale"} : "cost" \in DOMAIN data}
    BY <1>3 DEF UpdateProduct
  <2>7. cost = IF "cost" \in DOMAIN data THEN data.cost ELSE product.cost
    OBVIOUS
  <2> HIDE DEF cost, profit, pct, open, price
  <2>8. product' = [at |-> product.at, open |-> open, cost |-> cost,
                    profit |-> profit, pct |-> pct, price |-> price]
    BY <1>1, <2>5 DEF Product
  <2>9. product' \in Product
    BY <1>1, <2>2, <2>4, <2>8 DEF Product
  <2>10. product'.cost = cost /\ product'.price = price
    BY <2>8
  <2>11. CASE PriceThere(data)
    <3>1. cost = data.cost /\ price = PriceOf(data.cost, data.profit, data.pct)
      BY <2>3, <2>7, <2>11 DEF price
    <3>2. risk' = RiskOf(data.cost, data.profit, data.pct)
      BY <2>6, <2>11
    <3> QED
      BY <2>3, <2>9, <2>10, <2>11, <3>1, <3>2, RiskCovers
  <2>12. CASE ~PriceThere(data)
    <3>1. price = product.price
      BY <2>12 DEF price
    <3>2. risk' = risk \cup {r \in {"stale"} : "cost" \in DOMAIN data}
      BY <2>6, <2>12
    <3>3. risk' \subseteq Risks
      BY <1>1, <3>2 DEF Risks
    <3>4. risk' = {} => risk = {} /\ "cost" \notin DOMAIN data
      BY <3>2
    <3> QED
      BY <2>7, <2>9, <2>10, <3>1, <3>3, <3>4
  <2> QED
    BY <2>11, <2>12
<1>4. ASSUME NEW referred, DeleteProduct(referred)
      PROVE  /\ product' \in Product /\ risk' \subseteq Risks
             /\ product'.price >= product'.cost
  <2>1. product' = [at |-> "deleted", open |-> FALSE, cost |-> 0, profit |-> 0,
                    pct |-> 0, price |-> 0]
    BY <1>4 DEF DeleteProduct, NoProduct
  <2>2. product' \in Product
    BY <2>1 DEF Product
  <2> QED
    BY <1>1, <1>4, <2>1, <2>2 DEF DeleteProduct
<1>5. ASSUME NEW cost \in Costs, SyncProduct(cost)
      PROVE  /\ product' \in Product /\ risk' \subseteq Risks
             /\ product'.price >= product'.cost
  <2> DEFINE price == PriceOf(cost, 0, TierPercent(cost))
  <2>1. cost \in Nat /\ TierPercent(cost) \in Nat
    BY CatalogueAssumption DEF TierPercent
  <2>2. price \in Int /\ price >= cost
    BY <2>1, PriceCoversCost
  <2>3. risk' = {}
    BY <1>5 DEF SyncProduct
  <2>4. \/ product' = [product EXCEPT !.cost = cost, !.price = price]
        \/ product' = [at |-> "listed", open |-> TRUE, cost |-> cost,
                       profit |-> 0, pct |-> TierPercent(cost), price |-> price]
    BY <1>5 DEF SyncProduct
  <2> HIDE DEF price
  <2>5. CASE product' = [product EXCEPT !.cost = cost, !.price = price]
    <3>1. product' = [at |-> product.at, open |-> product.open, cost |-> cost,
                      profit |-> product.profit, pct |-> product.pct,
                      price |-> price]
      BY <1>1, <2>5 DEF Product
    <3> QED
      BY <1>1, <2>1, <2>2, <2>3, <3>1 DEF Product
  <2>6. CASE product' = [at |-> "listed", open |-> TRUE, cost |-> cost,
                         profit |-> 0, pct |-> TierPercent(cost), price |-> price]
    BY <2>1, <2>2, <2>3, <2>6 DEF Product
  <2> QED
    BY <2>4, <2>5, <2>6
<1>6. ASSUME \/ \E new \in Methods \ {method} : UpdatePaymentMethod(new)
             \/ DeletePaymentMethod
      PROVE  UNCHANGED <<product, risk>>
  BY <1>6 DEF UpdatePaymentMethod, DeletePaymentMethod
<1> QED
  BY <1>1, <1>2, <1>3, <1>4, <1>5, <1>6 DEF EditCatalogue

\* The type of the catalogue survives its actions.
LEMMA EditTypes ==
  ASSUME CatalogueTypeOK, EditCatalogue PROVE CatalogueTypeOK'
<1> DEFINE Kept == /\ method' \in Methods \cup {[kind |-> "gone"]}
                   /\ edits' \in 0..MaxEdits
<1>1. ASSUME NEW new \in NewProducts, CreateProduct(new) PROVE Kept
  BY <1>1 DEF CreateProduct, CatalogueTypeOK
<1>2. edits \in 0..MaxEdits /\ (Edit => edits' \in 0..MaxEdits)
  BY CatalogueAssumption DEF CatalogueTypeOK, Edit
<1>3. ASSUME NEW data \in ProductUpdates, UpdateProduct(data) PROVE Kept
  <2>1. Edit /\ method' = method
    BY <1>3 DEF UpdateProduct
  <2> QED
    BY <1>2, <2>1 DEF CatalogueTypeOK
<1>4. ASSUME NEW referred, DeleteProduct(referred) PROVE Kept
  BY <1>2, <1>4 DEF DeleteProduct, CatalogueTypeOK
<1>5. ASSUME NEW cost \in Costs, SyncProduct(cost) PROVE Kept
  BY <1>2, <1>5 DEF SyncProduct, CatalogueTypeOK
<1>6. ASSUME \/ \E new \in Methods \ {method} : UpdatePaymentMethod(new)
             \/ DeletePaymentMethod
      PROVE  Kept
  BY <1>2, <1>6 DEF UpdatePaymentMethod, DeletePaymentMethod
<1>7. Kept
  BY <1>1, <1>3, <1>4, <1>5, <1>6 DEF EditCatalogue
<1> QED
  BY <1>7, EditProduct DEF CatalogueTypeOK

\* What a buyer has read, by how far it is.
LEMMA BuyerKnows ==
  ASSUME TypeOK, NEW b \in Buyers,
         buyer[b].at \in {"viewing", "quoted", "found", "priced", "inserted", "paid"}
  PROVE  /\ buyer[b].bought \in Sales
         /\ buyer[b].price \in Int /\ buyer[b].cost \in Int
         /\ buyer[b].quantity \in Quantities /\ buyer[b].quote \in Int
         /\ buyer[b].loss \subseteq Risks
         /\ buyer[b].at \in {"priced", "inserted", "paid"} =>
              buyer[b].price \in Nat /\ buyer[b].by \in Methods
         /\ buyer[b].at = "paid" => buyer[b].answer \in Answer
<1> buyer[b] \in Buyer
  BY DEF TypeOK
<1> QED
  BY DEF Buyer

\* A buyer goes on, the others stay.
LEMMA GotoTypes ==
  ASSUME TypeOK, NEW b \in Buyers, NEW state, Goto(b, state)
  PROVE  /\ buyer'[b] = state
         /\ \A c \in Buyers \ {b} : buyer'[c] = buyer[c]
         /\ state \in Buyer => buyer' \in [Buyers -> Buyer]
  BY DEF TypeOK, Goto

LEMMA DoneIsAState == [at |-> "done"] \in Buyer /\ [at |-> "idle"] \in Buyer
  BY DEF Buyer

\* What is on the page, or read by the handler.
LEMMA PricesRead ==
  ASSUME TypeOK, NEW quantity \in Quantities
  PROVE  /\ product.price * quantity \in Int /\ product.cost * quantity \in Int
         /\ product.price >= product.cost
              => product.price * quantity >= product.cost * quantity
<1>1. /\ product.price \in Int /\ product.cost \in Int /\ quantity \in Nat
  BY StorefrontAssumption DEF TypeOK, CatalogueTypeOK, Product
<1>2. product.price * quantity \in Int /\ product.cost * quantity \in Int
  BY <1>1, Z3
<1>3. ASSUME product.price >= product.cost
      PROVE  product.price * quantity >= product.cost * quantity
  <2>1. PICK more \in Nat : product.price = product.cost + more
    <3>1. product.price - product.cost \in Nat
      BY <1>1, <1>3
    <3> QED
      BY <1>1, <3>1
  <2>2. (product.cost + more) * quantity = product.cost * quantity + more * quantity
    BY <1>1, Distributes
  <2>3. more * quantity \in Nat
    BY <1>1, ProductIsNat
  <2> QED
    BY <1>2, <2>1, <2>2, <2>3
<1> QED
  BY <1>2, <1>3

\* A price within the limits of a method is not negative.
LEMMA FittingPrice ==
  ASSUME CatalogueTypeOK, NEW price \in Int, method.kind # "gone",
         WithinLimits(price, method)
  PROVE  price \in Nat /\ method \in Methods
<1>1. method \in Methods
  BY MethodThere
<1>2. method.min \in Nat
  BY <1>1, CatalogueAssumption DEF Method
<1> QED
  BY <1>1, <1>2 DEF WithinLimits

\* The steps that only move a buyer on: the state each leads to.
Reads(b) ==
  \/ ShowMethods(b) \/ FindProduct(b) \/ FindInquiry(b) \/ FindPaymentMethod(b)
  \/ RefuseMethod(b) \/ InsertOrder(b) \/ InsertRefused(b)

Views(b) ==
  \/ \E quantity \in Quantities : ViewProduct(b, quantity)
  \/ \E i \in Bills : ViewInquiry(b, i)

LEMMA ReadsTypes ==
  ASSUME TypeOK, NEW b \in Buyers, Reads(b)
  PROVE  /\ \E state \in Buyer : Goto(b, state)
         /\ UNCHANGED <<catalogue, bill, sale, charged, tries, changed>>
<1>1. ASSUME ShowMethods(b) PROVE \E state \in Buyer : Goto(b, state)
  <2> DEFINE quote == IF Offered(b, buyer[b].price)
                        THEN Total(buyer[b].price, method) ELSE NotOffered
  <2>1. buyer[b].at = "viewing" /\ Goto(b, [buyer[b] EXCEPT !.at = "quoted",
                                                            !.quote = quote])
    BY <1>1 DEF ShowMethods
  <2>2. quote \in Int
    <3>1. CASE Offered(b, buyer[b].price)
      <4>1. method \in Methods /\ buyer[b].price \in Nat
        BY <2>1, <3>1, BuyerKnows, FittingPrice DEF Offered, TypeOK
      <4>2. Total(buyer[b].price, method) \in Int
        BY <4>1, TotalTypes
      <4> QED
        BY <3>1, <4>2
    <3>2. CASE ~Offered(b, buyer[b].price)
      BY <3>2 DEF NotOffered
    <3> QED
      BY <3>1, <3>2
  <2> HIDE DEF quote
  <2>3. [buyer[b] EXCEPT !.at = "quoted", !.quote = quote] \in Buyer
    <3>1. buyer[b] \in [at : {"viewing", "quoted", "found"}, bought : Sales,
                        price : Int, cost : Int, quantity : Quantities,
                        quote : Int, loss : SUBSET Risks]
      BY <2>1 DEF TypeOK, Buyer
    <3> QED
      BY <2>2, <3>1 DEF Buyer
  <2> QED
    BY <2>1, <2>3
<1>2. ASSUME FindProduct(b) \/ FindInquiry(b)
      PROVE  \E state \in Buyer : Goto(b, state)
  <2>1. buyer[b].at = "quoted"
    BY <1>2 DEF FindProduct, FindInquiry
  <2>2. buyer[b] \in [at : {"viewing", "quoted", "found"}, bought : Sales,
                      price : Int, cost : Int, quantity : Quantities,
                      quote : Int, loss : SUBSET Risks]
    BY <2>1 DEF TypeOK, Buyer
  <2>3. ASSUME NEW price \in Int, NEW cost \in Int, NEW loss \in SUBSET Risks
        PROVE  /\ [buyer[b] EXCEPT !.at = "found", !.loss = loss, !.price = price,
                                   !.cost = cost] \in Buyer
               /\ [buyer[b] EXCEPT !.at = "found", !.price = price,
                                   !.cost = cost] \in Buyer
    BY <2>2 DEF Buyer
  <2>4. CASE FindProduct(b)
    <3>1. /\ product.price * buyer[b].quantity \in Int
          /\ product.cost * buyer[b].quantity \in Int
          /\ risk \in SUBSET Risks
      BY <2>2, PricesRead DEF TypeOK, CatalogueTypeOK
    <3>2. \/ Goto(b, [buyer[b] EXCEPT !.at = "found", !.loss = risk,
                        !.price = product.price * buyer[b].quantity,
                        !.cost = product.cost * buyer[b].quantity])
          \/ Goto(b, [at |-> "done"])
      BY <2>4 DEF FindProduct
    <3>3. [buyer[b] EXCEPT !.at = "found", !.loss = risk,
             !.price = product.price * buyer[b].quantity,
             !.cost = product.cost * buyer[b].quantity] \in Buyer
      BY <2>3, <3>1
    <3> QED
      BY <3>2, <3>3, DoneIsAState
  <2>5. CASE FindInquiry(b)
    <3>1. CASE bill[buyer[b].bought].at = "SUCCESS"
      <4>1. bill[buyer[b].bought].total \in Nat
        BY <2>5, <3>1, StorefrontAssumption DEF FindInquiry, TypeOK, Bill
      <4>2. Goto(b, [buyer[b] EXCEPT !.at = "found",
                       !.price = bill[buyer[b].bought].total,
                       !.cost = bill[buyer[b].bought].total])
        BY <2>5, <3>1 DEF FindInquiry
      <4>3. [buyer[b] EXCEPT !.at = "found",
               !.price = bill[buyer[b].bought].total,
               !.cost = bill[buyer[b].bought].total] \in Buyer
        <5>1. bill[buyer[b].bought].total \in Int /\ {} \in SUBSET Risks
          BY <4>1
        <5> QED
          BY <2>3, <5>1
      <4> QED
        BY <4>2, <4>3
    <3>2. CASE bill[buyer[b].bought].at # "SUCCESS"
      BY <2>5, <3>2, DoneIsAState DEF FindInquiry
    <3> QED
      BY <3>1, <3>2
  <2> QED
    BY <1>2, <2>4, <2>5
<1>3. ASSUME FindPaymentMethod(b) PROVE \E state \in Buyer : Goto(b, state)
  <2>1. buyer[b].at = "found" /\ buyer[b].price \in Int
    BY <1>3, BuyerKnows DEF FindPaymentMethod
  <2>2. method \in Methods /\ buyer[b].price \in Nat
    BY <1>3, <2>1, FittingPrice DEF FindPaymentMethod, MethodFits, TypeOK
  <2> QED
    BY <1>3, <2>1, <2>2, BuyerKnows DEF FindPaymentMethod, Buyer
<1>4. ASSUME InsertOrder(b) PROVE \E state \in Buyer : Goto(b, state)
  <2>1. buyer[b].at = "priced"
    BY <1>4 DEF InsertOrder
  <2>2. [buyer[b] EXCEPT !.at = "inserted"] \in Buyer
    BY <2>1 DEF TypeOK, Buyer
  <2> QED
    BY <1>4, <2>2 DEF InsertOrder
<1>5. ASSUME RefuseMethod(b) \/ InsertRefused(b)
      PROVE  \E state \in Buyer : Goto(b, state)
  BY <1>5, DoneIsAState DEF RefuseMethod, InsertRefused
<1>6. UNCHANGED <<catalogue, bill, sale, charged, tries, changed>>
  BY DEF Reads, ShowMethods, FindProduct, FindInquiry, FindPaymentMethod,
     RefuseMethod, InsertOrder, InsertRefused
<1> QED
  BY <1>1, <1>2, <1>3, <1>4, <1>5, <1>6 DEF Reads

LEMMA ViewsTypes ==
  ASSUME TypeOK, NEW b \in Buyers, Views(b)
  PROVE  /\ \E state \in Buyer : Goto(b, state) /\ state.at = "viewing"
         /\ changed' = changed \ {b}
         /\ UNCHANGED <<catalogue, bill, sale, charged, tries>>
<1>1. ASSUME NEW bought \in Sales, NEW price \in Int, NEW cost \in Int,
             NEW quantity \in Quantities, Look(b, bought, price, cost, quantity)
      PROVE  \E state \in Buyer : Goto(b, state) /\ state.at = "viewing"
  <2> DEFINE state == [at |-> "viewing", bought |-> bought, price |-> price,
                       cost |-> cost, quantity |-> quantity, quote |-> NotOffered, loss |-> {}]
  <2>1. state \in Buyer /\ state.at = "viewing"
    BY DEF Buyer, NotOffered
  <2>2. Goto(b, state)
    BY <1>1 DEF Look
  <2> QED
    BY <2>1, <2>2
<1>2. ASSUME NEW quantity \in Quantities, ViewProduct(b, quantity)
      PROVE  \E state \in Buyer : Goto(b, state) /\ state.at = "viewing"
  BY <1>1, <1>2, PricesRead DEF ViewProduct, Sales
<1>3. ASSUME NEW i \in Bills, ViewInquiry(b, i)
      PROVE  \E state \in Buyer : Goto(b, state) /\ state.at = "viewing"
  <2>1. bill[i].total \in Nat /\ i \in Sales
    BY <1>3, StorefrontAssumption DEF ViewInquiry, TypeOK, Bill, Sales
  <2> QED
    BY <1>1, <1>3, <2>1 DEF ViewInquiry
<1>4. /\ changed' = changed \ {b}
      /\ UNCHANGED <<catalogue, bill, sale, charged, tries>>
  BY DEF Views, ViewProduct, ViewInquiry, Look
<1> QED
  BY <1>2, <1>3, <1>4 DEF Views

\* The steps of Next, those that only move a buyer on taken together.
LEMMA NextCases ==
  ASSUME Next
  PROVE  \/ \E b \in Buyers : \/ Views(b) \/ Reads(b) \/ CreatePayment(b)
                              \/ CommitOrder(b) \/ RollbackOrder(b)
         \/ \E i \in Bills, total \in BillTotals, status \in {"SUCCESS", "PENDING"} :
              CreateInquiry(i, total, status)
         \/ \E s \in Sales : RefundSale(s)
         \/ EditCatalogue
  BY DEF Next, Shopping, Views, Reads

\* The row that CommitOrder writes.
Row(b) ==
  [at |-> "sold", kind |-> buyer[b].by.kind, price |-> buyer[b].price,
   total |-> buyer[b].answer.amount, fees |-> buyer[b].answer.fee,
   profit |-> ProfitOf(buyer[b]), asked |-> Total(buyer[b].price, buyer[b].by),
   quote |-> buyer[b].quote, loss |-> buyer[b].loss, changed |-> b \in changed,
   back |-> 0]

LEMMA Commits ==
  ASSUME TypeOK, NEW b \in Buyers, CommitOrder(b)
  PROVE  /\ buyer[b].at = "paid" /\ buyer[b].bought \in Sales
         /\ Row(b) \in Sale
         /\ sale'[buyer[b].bought] = Row(b)
         /\ \A s \in Sales \ {buyer[b].bought} : sale'[s] = sale[s]
         /\ sale' \in [Sales -> Sale]
         /\ bill' \in [Bills -> Bill]
         /\ Goto(b, [at |-> "done"])
         /\ UNCHANGED <<catalogue, charged, tries, changed>>
<1>1. /\ buyer[b].at = "paid" /\ Goto(b, [at |-> "done"])
      /\ UNCHANGED <<catalogue, charged, tries, changed>>
      /\ sale' = [sale EXCEPT ![buyer[b].bought] = Row(b)]
  BY DEF CommitOrder, Row
<1>2. /\ buyer[b].price \in Nat /\ buyer[b].cost \in Int /\ buyer[b].quote \in Int
      /\ buyer[b].loss \subseteq Risks /\ buyer[b].by \in Methods
      /\ buyer[b].bought \in Sales /\ buyer[b].answer \in Answer
  BY <1>1, BuyerKnows
<1>3. /\ buyer[b].answer.amount \in Nat /\ buyer[b].answer.fee \in Nat
      /\ Total(buyer[b].price, buyer[b].by) \in Nat
      /\ buyer[b].by.kind \in Kinds /\ ProfitOf(buyer[b]) \in Int
  BY <1>2, TotalTypes DEF Answer, ProfitOf
<1>4. Row(b) \in Sale
  BY <1>2, <1>3 DEF Row, Sale
<1>5. bill' \in [Bills -> Bill]
  <2>1. [at |-> "deleted"] \in Bill
    BY DEF Bill
  <2>2. \/ bill' = bill
        \/ bill' = [bill EXCEPT ![buyer[b].bought] = [at |-> "deleted"]]
    BY DEF CommitOrder
  <2> QED
    BY <2>1, <2>2 DEF TypeOK
<1>6. sale \in [Sales -> Sale]
  BY DEF TypeOK
<1> QED
  BY <1>1, <1>2, <1>4, <1>5, <1>6

\* A buyer whose row is inserted keeps what it has read.
LEMMA OnlyTheState ==
  ASSUME TypeOK, NEW b \in Buyers, buyer[b].at \in {"priced", "inserted"},
         NEW at
  PROVE  LET k == [buyer[b] EXCEPT !.at = at]
         IN /\ k.at = at /\ k.bought = buyer[b].bought
            /\ k.price = buyer[b].price /\ k.cost = buyer[b].cost
            /\ k.loss = buyer[b].loss /\ k.by = buyer[b].by
            /\ k.quote = buyer[b].quote
<1> buyer[b] \in [at : {"priced", "inserted"}, bought : Sales, price : Nat,
                  cost : Int, quantity : Quantities, quote : Int,
                  loss : SUBSET Risks, by : Methods]
  BY DEF TypeOK, Buyer
<1> QED
  OBVIOUS

\* What is asked for and what is answered: the amount is paid, and covers the
\* price; SALDO takes the total, a provider at least that.
LEMMA AnswerTypes ==
  ASSUME NEW price \in Nat, NEW m \in Methods, NEW answer \in Answers(price, m)
  PROVE  /\ answer \in Answer
         /\ PaidAmount(price, m, answer) \in Nat
         /\ price <= answer.amount /\ answer.amount <= PaidAmount(price, m, answer)
         /\ m.kind = "SALDO" =>
              /\ PaidAmount(price, m, answer) = Total(price, m)
              /\ answer.amount + answer.fee = Total(price, m)
         /\ m.kind # "SALDO" =>
              /\ PaidAmount(price, m, answer) = answer.amount
              /\ answer.amount - Total(price, m) \in Surcharges
<1>1. Total(price, m) \in Nat /\ Total(price, m) >= price
  BY TotalTypes
<1>2. CASE m.kind = "SALDO"
  <2>1. answer = [amount |-> price, fee |-> Total(price, m) - price]
    BY <1>2 DEF Answers
  <2>2. answer.amount = price /\ answer.fee = Total(price, m) - price
    BY <2>1
  <2>3. Total(price, m) - price \in Nat
    BY <1>1
  <2>4. answer \in Answer
    BY <2>1, <2>3 DEF Answer
  <2> QED
    BY <1>1, <1>2, <2>2, <2>4 DEF PaidAmount
<1>3. CASE m.kind # "SALDO"
  <2>1. PICK more \in Surcharges, fee \in ProviderFees :
          answer = [amount |-> Total(price, m) + more, fee |-> fee]
    BY <1>3 DEF Answers
  <2>2. more \in Nat /\ fee \in Nat
    BY StorefrontAssumption
  <2>3. answer.amount = Total(price, m) + more
    BY <2>1
  <2>4. answer.amount - Total(price, m) = more /\ answer.amount \in Nat
    BY <1>1, <2>2, <2>3
  <2>5. answer \in Answer
    BY <1>1, <2>1, <2>2 DEF Answer
  <2> QED
    BY <1>1, <1>3, <2>2, <2>3, <2>4, <2>5 DEF PaidAmount
<1> QED
  BY <1>2, <1>3

\* What is charged, and for whom.
LEMMA Charges ==
  ASSUME TypeOK, NEW b \in Buyers, CreatePayment(b)
  PROVE  /\ buyer[b].at = "inserted" /\ buyer[b].bought \in Sales
         /\ buyer'[b] \in Buyer /\ Goto(b, buyer'[b])
         /\ buyer'[b].at = "paid" /\ buyer'[b].bought = buyer[b].bought
         /\ buyer'[b].price = buyer[b].price /\ buyer'[b].cost = buyer[b].cost
         /\ buyer'[b].quote = buyer[b].quote /\ buyer'[b].loss = buyer[b].loss
         /\ buyer'[b].by = buyer[b].by
         /\ buyer[b].price \in Nat /\ buyer[b].by \in Methods
         /\ buyer'[b].answer \in Answers(buyer[b].price, buyer[b].by)
         /\ charged'[buyer[b].bought] =
              charged[buyer[b].bought]
                + PaidAmount(buyer[b].price, buyer[b].by, buyer'[b].answer)
         /\ \A s \in Sales \ {buyer[b].bought} : charged'[s] = charged[s]
         /\ charged' \in [Sales -> Nat]
         /\ UNCHANGED <<catalogue, bill, sale, tries, changed>>
<1> DEFINE paid(answer) ==
      [at |-> "paid", bought |-> buyer[b].bought, price |-> buyer[b].price,
       cost |-> buyer[b].cost, quantity |-> buyer[b].quantity,
       quote |-> buyer[b].quote, loss |-> buyer[b].loss, by |-> buyer[b].by,
       answer |-> answer]
<1>1. PICK answer \in Answers(buyer[b].price, buyer[b].by) :
        /\ charged' = [charged EXCEPT ![buyer[b].bought] =
                         @ + PaidAmount(buyer[b].price, buyer[b].by, answer)]
        /\ Goto(b, paid(answer))
  BY DEF CreatePayment
<1>2. /\ buyer[b].at = "inserted"
      /\ UNCHANGED <<catalogue, bill, sale, tries, changed>>
  BY DEF CreatePayment
<1>3. /\ buyer[b].bought \in Sales /\ buyer[b].price \in Nat
      /\ buyer[b].cost \in Int /\ buyer[b].quantity \in Quantities
      /\ buyer[b].quote \in Int /\ buyer[b].loss \subseteq Risks
      /\ buyer[b].by \in Methods
  BY <1>2, BuyerKnows
<1>4. /\ answer \in Answer
      /\ PaidAmount(buyer[b].price, buyer[b].by, answer) \in Nat
  BY <1>3, AnswerTypes
<1>5. buyer'[b] = paid(answer)
  BY <1>1, GotoTypes
<1>6. buyer'[b] \in Buyer
  BY <1>3, <1>4, <1>5 DEF Buyer
<1>7. charged \in [Sales -> Nat]
  BY DEF TypeOK
<1> QED
  BY <1>1, <1>2, <1>3, <1>4, <1>5, <1>6, <1>7

LEMMA StepTypes == TypeOK /\ [Next]_vars => TypeOK'
<1> SUFFICES ASSUME TypeOK, [Next]_vars PROVE TypeOK'
  OBVIOUS
<1> USE DEF catalogue
<1>1. ASSUME NEW b \in Buyers, Views(b) PROVE TypeOK'
  BY <1>1, ViewsTypes, GotoTypes DEF TypeOK, CatalogueTypeOK
<1>2. ASSUME NEW b \in Buyers, Reads(b) PROVE TypeOK'
  BY <1>2, ReadsTypes, GotoTypes DEF TypeOK, CatalogueTypeOK
<1>3. ASSUME NEW b \in Buyers, CreatePayment(b) PROVE TypeOK'
  BY <1>3, Charges, GotoTypes DEF TypeOK, CatalogueTypeOK
<1>4. ASSUME NEW b \in Buyers, CommitOrder(b) PROVE TypeOK'
  <2>1. buyer' \in [Buyers -> Buyer]
    BY <1>4, Commits, GotoTypes, DoneIsAState
  <2> QED
    BY <1>4, <2>1, Commits DEF TypeOK, CatalogueTypeOK
<1>5. ASSUME NEW b \in Buyers, RollbackOrder(b) PROVE TypeOK'
  <2>1. /\ buyer[b].bought \in Sales /\ tries[buyer[b].bought] < MaxTries
        /\ tries' = [tries EXCEPT ![buyer[b].bought] = @ + 1]
        /\ Goto(b, [at |-> "idle"])
        /\ UNCHANGED <<catalogue, bill, sale, charged, changed>>
    BY <1>5, BuyerKnows DEF RollbackOrder
  <2>2. buyer' \in [Buyers -> Buyer]
    BY <2>1, GotoTypes, DoneIsAState
  <2>3. tries' \in [Sales -> 0..MaxTries]
    BY <2>1, StorefrontAssumption DEF TypeOK
  <2> QED
    BY <2>1, <2>2, <2>3 DEF TypeOK, CatalogueTypeOK
<1>6. ASSUME NEW i \in Bills, NEW total \in BillTotals,
             NEW status \in {"SUCCESS", "PENDING"}, CreateInquiry(i, total, status)
      PROVE  TypeOK'
  <2>1. [at |-> status, total |-> total] \in Bill
    BY DEF Bill
  <2>2. bill' \in [Bills -> Bill]
    BY <1>6, <2>1 DEF CreateInquiry, TypeOK
  <2> QED
    BY <1>6, <2>2 DEF CreateInquiry, TypeOK, CatalogueTypeOK
<1>7. ASSUME NEW s \in Sales, RefundSale(s) PROVE TypeOK'
  <2>1. [sale[s] EXCEPT !.at = "refunded", !.back = sale[s].total] \in Sale
    BY <1>7 DEF RefundSale, TypeOK, Sale
  <2>2. sale' \in [Sales -> Sale]
    BY <1>7, <2>1 DEF RefundSale, TypeOK
  <2> QED
    BY <1>7, <2>2 DEF RefundSale, TypeOK, CatalogueTypeOK
<1>8. CASE EditCatalogue
  <2>1. CatalogueTypeOK'
    BY <1>8, EditTypes DEF TypeOK
  <2>2. /\ changed' = changed \cup Midway
        /\ UNCHANGED <<buyer, bill, sale, charged, tries>>
    BY <1>8 DEF EditCatalogue
  <2> QED
    BY <2>1, <2>2 DEF TypeOK, Midway
<1>9. CASE UNCHANGED vars
  BY <1>9 DEF vars, TypeOK, CatalogueTypeOK
<1> QED
  BY <1>1, <1>2, <1>3, <1>4, <1>5, <1>6, <1>7, <1>8, <1>9, NextCases

\* Types (the catalogue, the bills and the orders, what the handlers have
\* read).
THEOREM Storefront_TypeOK == Spec => []TypeOK
  BY InitTypes, StepTypes, PTL DEF Spec

-----------------------------------------------------------------------------
(* Losses.                                                                 *)

\* The invariant: a price without a risk covers the cost, on the shelf and in
\* the hands of a buyer.
PriceCovers == risk = {} => product.price >= product.cost

LossKnown ==
  \A b \in Buyers : buyer[b].at \in {"found", "priced", "inserted", "paid"} =>
    buyer[b].loss # {} \/ buyer[b].price >= buyer[b].cost

LossInv == TypeOK /\ PriceCovers /\ LossKnown /\ NoLossUnlessStaleOrNegative

\* What a step that only moves a buyer on leaves in its hands.
LEMMA ReadsLoss ==
  ASSUME LossInv, NEW b \in Buyers, Reads(b) PROVE LossKnown'
<1> DEFINE Known(k) == k.at \in {"found", "priced", "inserted", "paid"} =>
                         k.loss # {} \/ k.price >= k.cost
<1>1. /\ TypeOK /\ Known(buyer[b])
      /\ \A c \in Buyers \ {b} : buyer'[c] = buyer[c]
  BY ReadsTypes, GotoTypes DEF LossInv, LossKnown
<1>2. ASSUME ShowMethods(b) PROVE Known(buyer'[b])
  <2>1. buyer'[b] = [buyer[b] EXCEPT !.at = "quoted",
          !.quote = IF Offered(b, buyer[b].price)
                      THEN Total(buyer[b].price, method) ELSE NotOffered]
    BY <1>1, <1>2, GotoTypes DEF ShowMethods
  <2>2. buyer[b] \in [at : {"viewing", "quoted", "found"}, bought : Sales,
                      price : Int, cost : Int, quantity : Quantities,
                      quote : Int, loss : SUBSET Risks]
    BY <1>1, <1>2 DEF ShowMethods, TypeOK, Buyer
  <2> QED
    BY <2>1, <2>2
<1>3. ASSUME FindProduct(b) PROVE Known(buyer'[b])
  <2>1. CASE buyer'[b] = [buyer[b] EXCEPT !.at = "found", !.loss = risk,
               !.price = product.price * buyer[b].quantity,
               !.cost = product.cost * buyer[b].quantity]
    <3>1. buyer[b] \in [at : {"viewing", "quoted", "found"}, bought : Sales,
                        price : Int, cost : Int, quantity : Quantities,
                        quote : Int, loss : SUBSET Risks]
      BY <1>1, <1>3 DEF FindProduct, TypeOK, Buyer
    <3>2. /\ buyer'[b].loss = risk
          /\ buyer'[b].price = product.price * buyer[b].quantity
          /\ buyer'[b].cost = product.cost * buyer[b].quantity
      BY <2>1, <3>1
    <3>3. product.price >= product.cost =>
            product.price * buyer[b].quantity >= product.cost * buyer[b].quantity
      BY <1>1, <3>1, PricesRead
    <3> QED
      BY <3>2, <3>3 DEF LossInv, PriceCovers
  <2>2. CASE buyer'[b] = [at |-> "done"]
    BY <2>2
  <2>3. \/ Goto(b, [buyer[b] EXCEPT !.at = "found", !.loss = risk,
                      !.price = product.price * buyer[b].quantity,
                      !.cost = product.cost * buyer[b].quantity])
        \/ Goto(b, [at |-> "done"])
    BY <1>3 DEF FindProduct
  <2> QED
    BY <1>1, <2>1, <2>2, <2>3, GotoTypes
<1>4. ASSUME FindInquiry(b) PROVE Known(buyer'[b])
  <2>1. CASE buyer'[b] = [buyer[b] EXCEPT !.at = "found",
                            !.price = bill[buyer[b].bought].total,
                            !.cost = bill[buyer[b].bought].total]
             /\ bill[buyer[b].bought].at = "SUCCESS"
    <3>1. buyer[b] \in [at : {"viewing", "quoted", "found"}, bought : Sales,
                        price : Int, cost : Int, quantity : Quantities,
                        quote : Int, loss : SUBSET Risks]
      BY <1>1, <1>4 DEF FindInquiry, TypeOK, Buyer
    <3>2. /\ buyer'[b].price = bill[buyer[b].bought].total
          /\ buyer'[b].cost = bill[buyer[b].bought].total
      BY <2>1, <3>1
    <3>3. bill[buyer[b].bought].total \in Nat
      BY <1>1, <1>4, <2>1, StorefrontAssumption DEF FindInquiry, TypeOK, Bill
    <3> QED
      BY <3>2, <3>3
  <2>2. CASE buyer'[b] = [at |-> "done"]
    BY <2>2
  <2>3. \/ /\ Goto(b, [buyer[b] EXCEPT !.at = "found",
                         !.price = bill[buyer[b].bought].total,
                         !.cost = bill[buyer[b].bought].total])
           /\ bill[buyer[b].bought].at = "SUCCESS"
        \/ Goto(b, [at |-> "done"])
    BY <1>4 DEF FindInquiry
  <2> QED
    BY <1>1, <2>1, <2>2, <2>3, GotoTypes
<1>5. ASSUME FindPaymentMethod(b) PROVE Known(buyer'[b])
  <2>1. /\ buyer[b].at = "found"
        /\ buyer'[b].price = buyer[b].price
        /\ buyer'[b].cost = buyer[b].cost
        /\ buyer'[b].loss = buyer[b].loss
    BY <1>1, <1>5, GotoTypes DEF FindPaymentMethod
  <2> QED
    BY <1>1, <2>1
<1>6. ASSUME InsertOrder(b) PROVE Known(buyer'[b])
  <2>1. buyer[b].at = "priced" /\ buyer'[b] = [buyer[b] EXCEPT !.at = "inserted"]
    BY <1>1, <1>6, GotoTypes DEF InsertOrder
  <2>2. /\ buyer'[b].price = buyer[b].price /\ buyer'[b].cost = buyer[b].cost
        /\ buyer'[b].loss = buyer[b].loss
    BY <1>1, <2>1 DEF TypeOK, Buyer
  <2> QED
    BY <1>1, <2>1, <2>2
<1>7. ASSUME RefuseMethod(b) \/ InsertRefused(b) PROVE Known(buyer'[b])
  <2>1. buyer'[b] = [at |-> "done"]
    BY <1>1, <1>7, GotoTypes DEF RefuseMethod, InsertRefused
  <2> QED
    BY <2>1
<1>8. Known(buyer'[b])
  BY <1>2, <1>3, <1>4, <1>5, <1>6, <1>7 DEF Reads
<1> QED
  BY <1>1, <1>8 DEF LossInv, LossKnown

LEMMA StepLoss == LossInv /\ [Next]_vars => LossInv'
<1> SUFFICES ASSUME LossInv, [Next]_vars PROVE LossInv'
  OBVIOUS
<1> USE DEF catalogue
<1>1. TypeOK /\ TypeOK'
  BY StepTypes DEF LossInv
<1>2. ASSUME NEW b \in Buyers, Reads(b) PROVE LossInv'
  BY <1>1, <1>2, ReadsTypes, ReadsLoss DEF LossInv, PriceCovers,
     NoLossUnlessStaleOrNegative, Sold
<1>3. ASSUME NEW b \in Buyers, Views(b) PROVE LossInv'
  <2>1. LossKnown'
    BY <1>1, <1>3, ViewsTypes, GotoTypes DEF LossInv, LossKnown
  <2> QED
    BY <1>1, <1>3, <2>1, ViewsTypes DEF LossInv, PriceCovers, NoLossUnlessStaleOrNegative, Sold
<1>4. ASSUME NEW b \in Buyers, CreatePayment(b) PROVE LossInv'
  <2>1. /\ buyer[b].at = "inserted"
        /\ buyer'[b].price = buyer[b].price /\ buyer'[b].cost = buyer[b].cost
        /\ buyer'[b].loss = buyer[b].loss
        /\ \A c \in Buyers \ {b} : buyer'[c] = buyer[c]
    BY <1>1, <1>4, Charges, GotoTypes
  <2>2. LossKnown'
    BY <2>1 DEF LossInv, LossKnown
  <2> QED
    BY <1>1, <1>4, <2>2, Charges DEF LossInv, PriceCovers, NoLossUnlessStaleOrNegative, Sold
<1>5. ASSUME NEW b \in Buyers, CommitOrder(b) PROVE LossInv'
  <2>1. LossKnown'
    BY <1>1, <1>5, Commits, GotoTypes DEF LossInv, LossKnown
  <2>2. Row(b).profit < 0 => Row(b).loss # {}
    <3>1. buyer[b].price \in Int /\ buyer[b].cost \in Int /\ buyer[b].at = "paid"
      BY <1>1, <1>5, Commits, BuyerKnows
    <3>2. buyer[b].loss # {} \/ buyer[b].price >= buyer[b].cost
      BY <3>1 DEF LossInv, LossKnown
    <3> QED
      BY <3>1, <3>2 DEF Row, ProfitOf
  <2>3. NoLossUnlessStaleOrNegative'
    BY <1>1, <1>5, <2>2, Commits DEF LossInv, NoLossUnlessStaleOrNegative, Sold
  <2> QED
    BY <1>1, <1>5, <2>1, <2>3, Commits DEF LossInv, PriceCovers
<1>6. ASSUME NEW b \in Buyers, RollbackOrder(b) PROVE LossInv'
  <2>1. /\ Goto(b, [at |-> "idle"])
        /\ UNCHANGED <<catalogue, sale>>
    BY <1>6 DEF RollbackOrder
  <2>2. LossKnown'
    BY <1>1, <2>1, GotoTypes DEF LossInv, LossKnown
  <2> QED
    BY <1>1, <2>1, <2>2 DEF LossInv, PriceCovers, NoLossUnlessStaleOrNegative, Sold
<1>7. ASSUME NEW i \in Bills, NEW total \in BillTotals,
             NEW status \in {"SUCCESS", "PENDING"}, CreateInquiry(i, total, status)
      PROVE  LossInv'
  BY <1>1, <1>7 DEF CreateInquiry, LossInv, PriceCovers, LossKnown,
     NoLossUnlessStaleOrNegative, Sold
<1>8. ASSUME NEW s \in Sales, RefundSale(s) PROVE LossInv'
  <2>1. /\ sale[s].at = "sold"
        /\ sale' = [sale EXCEPT ![s] = [sale[s] EXCEPT !.at = "refunded",
                                                       !.back = sale[s].total]]
        /\ UNCHANGED <<catalogue, buyer>>
    BY <1>8 DEF RefundSale
  <2>2. sale'[s].profit = sale[s].profit /\ sale'[s].loss = sale[s].loss
    BY <1>1, <2>1 DEF TypeOK, Sale
  <2>3. \A o \in Sales \ {s} : sale'[o] = sale[o]
    BY <1>1, <2>1 DEF TypeOK
  <2>4. NoLossUnlessStaleOrNegative'
    BY <2>1, <2>2, <2>3 DEF LossInv, NoLossUnlessStaleOrNegative, Sold
  <2> QED
    BY <1>1, <2>1, <2>4 DEF LossInv, PriceCovers, LossKnown
<1>9. CASE EditCatalogue
  <2>1. PriceCovers'
    BY <1>1, <1>9, EditProduct DEF LossInv, PriceCovers, TypeOK
  <2>2. UNCHANGED <<buyer, sale>>
    BY <1>9 DEF EditCatalogue
  <2> QED
    BY <1>1, <2>1, <2>2 DEF LossInv, LossKnown, NoLossUnlessStaleOrNegative, Sold
<1>10. CASE UNCHANGED vars
  BY <1>1, <1>10 DEF vars, LossInv, PriceCovers, LossKnown, NoLossUnlessStaleOrNegative, Sold
<1> QED
  BY <1>2, <1>3, <1>4, <1>5, <1>6, <1>7, <1>8, <1>9, <1>10, NextCases

\* Nothing is sold below its cost, however often the catalogue changes, unless
\* an administrator sent a negative number or changed the cost and left the
\* price (ProductsService.create and update, AutoService.getDigiflazzProduct).
THEOREM Storefront_NoLoss == Spec => []NoLossUnlessStaleOrNegative
<1>1. Init => LossInv
  <2> SUFFICES ASSUME Init PROVE LossInv
    OBVIOUS
  <2>1. PriceCovers
    BY DEF Init, CatalogueInit, NoProduct, PriceCovers
  <2> QED
    BY <2>1, InitTypes DEF Init, LossInv, LossKnown, NoLossUnlessStaleOrNegative, Sold, NoSale
<1>2. LossInv => NoLossUnlessStaleOrNegative
  BY DEF LossInv
<1> QED
  BY <1>1, <1>2, StepLoss, PTL DEF Spec

-----------------------------------------------------------------------------
(* Charges and refunds.                                                    *)

\* Between the insert of the row and the end of the transaction.
Paying(b) == buyer[b].at \in {"inserted", "paid"}

\* The invariant: the primary key lets one buyer at a time pay for an order,
\* and only if it has not been sold.
OneAtATime ==
  /\ \A b, c \in Buyers : Paying(b) /\ Paying(c) /\ buyer[b].bought = buyer[c].bought
                            => b = c
  /\ \A b \in Buyers : Paying(b) => ~Sold(buyer[b].bought)

\* What has been charged by whoever is paying...
ChargedSoFar ==
  \A b \in Buyers : Paying(b) =>
    LET s == buyer[b].bought
        sum == PaidAmount(buyer[b].price, buyer[b].by, buyer[b].answer)
    IN IF buyer[b].at = "paid"
         THEN /\ buyer[b].answer \in Answers(buyer[b].price, buyer[b].by)
              /\ charged[s] >= sum
              /\ tries[s] = 0 => charged[s] = sum
         ELSE tries[s] = 0 => charged[s] = 0

\* ...and by nobody.
NothingCharged ==
  \A s \in Sales :
    ~Sold(s) /\ tries[s] = 0 /\ (\A b \in Buyers : Paying(b) => buyer[b].bought # s)
      => charged[s] = 0

\* What a row of an order says about what was charged.
RowTells ==
  \A s \in Sales : Sold(s) =>
    /\ sale[s].price <= sale[s].total /\ sale[s].total <= charged[s]
    /\ sale[s].at = "refunded" => sale[s].back = sale[s].total

ChargeInv == /\ TypeOK /\ OneAtATime /\ ChargedSoFar /\ NothingCharged
             /\ RowTells /\ ChargedOnceUnlessRolledBack

\* Steps that no charge notices: nobody begins or ends a payment.
LEMMA NobodyPays ==
  ASSUME ChargeInv, UNCHANGED <<sale, charged, tries>>,
         \A b \in Buyers : \/ buyer'[b] = buyer[b]
                           \/ ~Paying(b) /\ ~Paying(b)'
  PROVE  /\ OneAtATime' /\ ChargedSoFar' /\ NothingCharged'
         /\ RowTells' /\ ChargedOnceUnlessRolledBack'
<1>1. \A b \in Buyers : /\ Paying(b)' => Paying(b) /\ buyer'[b] = buyer[b]
                        /\ Paying(b) => Paying(b)' /\ buyer'[b] = buyer[b]
  BY DEF Paying
<1>2. \A s \in Sales : Sold(s)' <=> Sold(s)
  BY DEF Sold
<1>3. OneAtATime'
  BY <1>1 DEF ChargeInv, OneAtATime, Sold
<1>4. ChargedSoFar'
  BY <1>1 DEF ChargeInv, ChargedSoFar
<1>5. NothingCharged'
  BY <1>1, <1>2 DEF ChargeInv, NothingCharged
<1>6. RowTells' /\ ChargedOnceUnlessRolledBack'
  BY <1>2 DEF ChargeInv, RowTells, ChargedOnceUnlessRolledBack
<1> QED
  BY <1>3, <1>4, <1>5, <1>6

\* The insert: the primary key has seen nobody else.
LEMMA StepInsert ==
  ASSUME ChargeInv, TypeOK', NEW b \in Buyers, InsertOrder(b) PROVE ChargeInv'
<1> DEFINE s == buyer[b].bought
<1>1. /\ buyer[b].at = "priced" /\ ~Sold(s)
      /\ \A c \in Buyers : Paying(c) => buyer[c].bought # s
      /\ Goto(b, [buyer[b] EXCEPT !.at = "inserted"])
      /\ UNCHANGED <<sale, charged, tries>>
  BY DEF InsertOrder, Paying, Sold
<1>2. TypeOK /\ s \in Sales
  BY <1>1, BuyerKnows DEF ChargeInv
<1>3. /\ buyer'[b] = [buyer[b] EXCEPT !.at = "inserted"]
      /\ \A c \in Buyers \ {b} : buyer'[c] = buyer[c]
  BY <1>1, <1>2, GotoTypes
<1>4. buyer'[b].at = "inserted" /\ buyer'[b].bought = s
  BY <1>1, <1>2, <1>3, OnlyTheState
<1>5. tries[s] = 0 => charged[s] = 0
  BY <1>1, <1>2 DEF ChargeInv, NothingCharged
<1>6. \A c \in Buyers \ {b} : Paying(c)' <=> Paying(c)
  BY <1>3 DEF Paying
<1>7. \A o \in Sales : Sold(o)' <=> Sold(o)
  BY <1>1 DEF Sold
<1> HIDE DEF s
<1>8. OneAtATime'
  <2>1. ASSUME NEW c \in Buyers, Paying(c)', c # b
        PROVE  Paying(c) /\ buyer'[c] = buyer[c]
    BY <1>3, <2>1 DEF Paying
  <2>2. ASSUME NEW c \in Buyers, NEW d \in Buyers, Paying(c)', Paying(d)',
               buyer'[c].bought = buyer'[d].bought
        PROVE  c = d
    <3>1. CASE c = b \/ d = b
      BY <1>1, <1>4, <2>1, <2>2, <3>1
    <3>2. CASE c # b /\ d # b
      BY <2>1, <2>2, <3>2 DEF ChargeInv, OneAtATime
    <3> QED
      BY <3>1, <3>2
  <2>3. ASSUME NEW c \in Buyers, Paying(c)' PROVE ~Sold(buyer[c].bought)'
    <3>1. CASE c = b
      BY <1>1, <1>4, <3>1 DEF Sold
    <3>2. CASE c # b
      <4>1. Paying(c) /\ buyer'[c] = buyer[c]
        BY <1>3, <2>3, <3>2 DEF Paying
      <4> QED
        BY <1>1, <4>1 DEF ChargeInv, OneAtATime, Sold
    <3> QED
      BY <3>1, <3>2
  <2> QED
    BY <2>2, <2>3 DEF OneAtATime
<1>9. ChargedSoFar'
  <2> SUFFICES ASSUME NEW c \in Buyers, Paying(c)'
               PROVE  LET o == buyer'[c].bought
                          paid == PaidAmount(buyer'[c].price, buyer'[c].by,
                                             buyer'[c].answer)
                      IN IF buyer'[c].at = "paid"
                           THEN /\ buyer'[c].answer \in
                                     Answers(buyer'[c].price, buyer'[c].by)
                                /\ charged'[o] >= paid
                                /\ tries'[o] = 0 => charged'[o] = paid
                           ELSE tries'[o] = 0 => charged'[o] = 0
    BY DEF ChargedSoFar
  <2>1. CASE c = b
    BY <1>1, <1>4, <1>5, <2>1
  <2>2. CASE c # b
    <3>1. buyer'[c] = buyer[c] /\ Paying(c)
      BY <1>3, <1>6, <2>2
    <3> QED
      BY <1>1, <3>1 DEF ChargeInv, ChargedSoFar
  <2> QED
    BY <2>1, <2>2
<1>10. NothingCharged'
  <2> SUFFICES ASSUME NEW o \in Sales, ~Sold(o)', tries'[o] = 0,
                      \A c \in Buyers : Paying(c)' => buyer'[c].bought # o
               PROVE  charged'[o] = 0
    BY DEF NothingCharged
  <2>1. Paying(b)'
    BY <1>4 DEF Paying
  <2>2. \A c \in Buyers : Paying(c) => buyer[c].bought # o
    BY <1>1, <1>3, <1>6 DEF Paying
  <2> QED
    BY <1>1, <1>7, <2>2 DEF ChargeInv, NothingCharged
<1>11. RowTells' /\ ChargedOnceUnlessRolledBack'
  BY <1>1, <1>7 DEF ChargeInv, RowTells, ChargedOnceUnlessRolledBack
<1> QED
  BY <1>8, <1>9, <1>10, <1>11 DEF ChargeInv

\* The charge.
LEMMA StepCharge ==
  ASSUME ChargeInv, TypeOK', NEW b \in Buyers, CreatePayment(b) PROVE ChargeInv'
<1> DEFINE s == buyer[b].bought
           sum == PaidAmount(buyer[b].price, buyer[b].by, buyer'[b].answer)
<1>1. /\ TypeOK /\ buyer[b].at = "inserted" /\ s \in Sales /\ sum \in Nat
      /\ Goto(b, buyer'[b])
      /\ buyer'[b].answer \in Answers(buyer[b].price, buyer[b].by)
      /\ charged'[s] = charged[s] + sum
      /\ \A o \in Sales \ {s} : charged'[o] = charged[o]
      /\ UNCHANGED <<sale, tries>>
  BY Charges, AnswerTypes DEF ChargeInv
<1>2. \A c \in Buyers \ {b} : buyer'[c] = buyer[c]
  BY <1>1, GotoTypes
<1>3. /\ buyer'[b].at = "paid" /\ buyer'[b].bought = s
      /\ buyer'[b].price = buyer[b].price /\ buyer'[b].by = buyer[b].by
  BY Charges DEF ChargeInv
<1>4. /\ charged[s] \in Nat
      /\ tries[s] = 0 => charged[s] = 0
  BY <1>1 DEF ChargeInv, ChargedSoFar, Paying, TypeOK
<1>5. \A c \in Buyers : Paying(c)' <=> Paying(c)
  BY <1>1, <1>2, <1>3 DEF Paying
<1>6. \A c \in Buyers : Paying(c) => buyer'[c].bought = buyer[c].bought
  BY <1>2, <1>3
<1>7. Paying(b) /\ ~Sold(s) /\ \A c \in Buyers \ {b} : Paying(c) => buyer[c].bought # s
  BY <1>1 DEF ChargeInv, OneAtATime, Paying
<1>8. \A o \in Sales : Sold(o)' <=> Sold(o)
  BY <1>1 DEF Sold
<1>9. \A c \in Buyers : Paying(c) => buyer[c].bought \in Sales
  BY <1>1, BuyerKnows DEF Paying
<1>10. OneAtATime'
  BY <1>1, <1>5, <1>6 DEF ChargeInv, OneAtATime, Sold
<1>11. ChargedSoFar'
  <2> SUFFICES ASSUME NEW c \in Buyers, Paying(c)'
               PROVE  LET o == buyer'[c].bought
                          paid == PaidAmount(buyer'[c].price, buyer'[c].by,
                                             buyer'[c].answer)
                      IN IF buyer'[c].at = "paid"
                           THEN /\ buyer'[c].answer \in
                                     Answers(buyer'[c].price, buyer'[c].by)
                                /\ charged'[o] >= paid
                                /\ tries'[o] = 0 => charged'[o] = paid
                           ELSE tries'[o] = 0 => charged'[o] = 0
    BY DEF ChargedSoFar
  <2>1. CASE c = b
    <3>1. charged'[s] >= sum
      BY <1>1, <1>4
    <3>2. tries[s] = 0 => charged'[s] = sum
      BY <1>1, <1>4
    <3>3. /\ buyer'[c].at = "paid" /\ buyer'[c].bought = s
          /\ buyer'[c].answer \in Answers(buyer'[c].price, buyer'[c].by)
      BY <1>1, <1>3, <2>1
    <3>4. PaidAmount(buyer'[c].price, buyer'[c].by, buyer'[c].answer) = sum
      BY <1>3, <2>1
    <3> HIDE DEF s, sum
    <3> QED
      BY <1>1, <3>1, <3>2, <3>3, <3>4
  <2>2. CASE c # b
    <3>1. buyer'[c] = buyer[c] /\ Paying(c)
      BY <1>2, <1>5, <2>2
    <3>2. charged'[buyer[c].bought] = charged[buyer[c].bought]
      BY <1>1, <1>7, <1>9, <2>2, <3>1
    <3> QED
      BY <1>1, <3>1, <3>2 DEF ChargeInv, ChargedSoFar
  <2> QED
    BY <2>1, <2>2
<1>12. NothingCharged'
  <2> SUFFICES ASSUME NEW o \in Sales, ~Sold(o)', tries'[o] = 0,
                      \A c \in Buyers : Paying(c)' => buyer'[c].bought # o
               PROVE  charged'[o] = 0
    BY DEF NothingCharged
  <2>1. \A c \in Buyers : Paying(c) => buyer[c].bought # o
    BY <1>5, <1>6
  <2>2. charged'[o] = charged[o]
    BY <1>1, <1>7, <2>1
  <2> QED
    BY <1>1, <1>8, <2>1, <2>2 DEF ChargeInv, NothingCharged
<1>13. RowTells' /\ ChargedOnceUnlessRolledBack'
  <2>1. \A o \in Sales : Sold(o) => charged'[o] = charged[o]
    BY <1>1, <1>7
  <2> QED
    BY <1>1, <1>8, <2>1 DEF ChargeInv, RowTells, ChargedOnceUnlessRolledBack
<1> QED
  BY <1>10, <1>11, <1>12, <1>13 DEF ChargeInv

\* The end of a payment, committed or rolled back: the others go on.
LEMMA PaymentEnds ==
  ASSUME ChargeInv, NEW b \in Buyers, Paying(b), Goto(b, [at |-> "done"])
           \/ Goto(b, [at |-> "idle"])
  PROVE  /\ ~Paying(b)'
         /\ \A c \in Buyers \ {b} : buyer'[c] = buyer[c]
         /\ \A c \in Buyers \ {b} : Paying(c) => buyer[c].bought # buyer[b].bought
         /\ ~Sold(buyer[b].bought)
<1>1. /\ buyer'[b].at \in {"done", "idle"}
      /\ \A c \in Buyers \ {b} : buyer'[c] = buyer[c]
  BY GotoTypes DEF ChargeInv
<1> QED
  BY <1>1 DEF ChargeInv, OneAtATime, Paying

\* The commit.
LEMMA StepCommit ==
  ASSUME ChargeInv, TypeOK', NEW b \in Buyers, CommitOrder(b) PROVE ChargeInv'
<1> DEFINE s == buyer[b].bought
           total == Total(buyer[b].price, buyer[b].by)
           answer == buyer[b].answer
           sum == PaidAmount(buyer[b].price, buyer[b].by, answer)
<1>1. /\ TypeOK /\ buyer[b].at = "paid" /\ s \in Sales
      /\ sale'[s] = Row(b)
      /\ \A o \in Sales \ {s} : sale'[o] = sale[o]
      /\ Goto(b, [at |-> "done"])
      /\ UNCHANGED <<charged, tries>>
  BY Commits DEF ChargeInv
<1>2. /\ ~Paying(b)'
      /\ \A c \in Buyers \ {b} : buyer'[c] = buyer[c]
      /\ \A c \in Buyers \ {b} : Paying(c) => buyer[c].bought # s
      /\ ~Sold(s)
  BY <1>1, PaymentEnds DEF Paying
<1>3. buyer[b].price \in Nat /\ buyer[b].by \in Methods
  BY <1>1, BuyerKnows
<1>4. /\ answer \in Answers(buyer[b].price, buyer[b].by)
      /\ charged[s] >= sum /\ (tries[s] = 0 => charged[s] = sum)
  BY <1>1 DEF ChargeInv, ChargedSoFar, Paying
<1>5. charged[s] \in Nat
  BY <1>1 DEF TypeOK
<1>6. /\ sale'[s].at = "sold" /\ sale'[s].kind = buyer[b].by.kind
      /\ sale'[s].price = buyer[b].price /\ sale'[s].total = answer.amount
      /\ sale'[s].fees = answer.fee /\ sale'[s].asked = total
  BY <1>1 DEF Row
<1>14. /\ answer \in Answer /\ sum \in Nat
       /\ buyer[b].price <= answer.amount /\ answer.amount <= sum
       /\ buyer[b].by.kind = "SALDO" =>
            sum = total /\ answer.amount + answer.fee = total
       /\ buyer[b].by.kind # "SALDO" =>
            sum = answer.amount /\ answer.amount - total \in Surcharges
  BY <1>3, <1>4, AnswerTypes
<1>15. answer.amount \in Nat
  BY <1>14 DEF Answer
<1> HIDE DEF s, total, answer, sum
<1>7. \A o \in Sales : Sold(o)' <=> o = s \/ Sold(o)
  BY <1>1, <1>6 DEF Sold
<1>8. ASSUME NEW c \in Buyers, Paying(c)'
      PROVE  c # b /\ Paying(c) /\ buyer'[c] = buyer[c] /\ buyer[c].bought # s
  BY <1>2, <1>8 DEF Paying
<1>9. OneAtATime'
  <2>1. ASSUME NEW c \in Buyers, NEW d \in Buyers, Paying(c)', Paying(d)',
               buyer'[c].bought = buyer'[d].bought
        PROVE  c = d
    BY <1>8, <2>1 DEF ChargeInv, OneAtATime
  <2>2. ASSUME NEW c \in Buyers, Paying(c)' PROVE ~Sold(buyer[c].bought)'
    <3>1. Paying(c) /\ buyer'[c] = buyer[c] /\ buyer[c].bought # s
      BY <1>8, <2>2
    <3>2. buyer[c].bought \in Sales
      BY <1>1, <3>1, BuyerKnows DEF Paying
    <3> QED
      BY <1>1, <3>1, <3>2 DEF ChargeInv, OneAtATime, Sold
  <2> QED
    BY <2>1, <2>2 DEF OneAtATime
<1>10. ChargedSoFar'
  <2> SUFFICES ASSUME NEW c \in Buyers, Paying(c)'
               PROVE  LET o == buyer'[c].bought
                          paid == PaidAmount(buyer'[c].price, buyer'[c].by,
                                             buyer'[c].answer)
                      IN IF buyer'[c].at = "paid"
                           THEN /\ buyer'[c].answer \in
                                     Answers(buyer'[c].price, buyer'[c].by)
                                /\ charged'[o] >= paid
                                /\ tries'[o] = 0 => charged'[o] = paid
                           ELSE tries'[o] = 0 => charged'[o] = 0
    BY DEF ChargedSoFar
  <2> QED
    BY <1>1, <1>8 DEF ChargeInv, ChargedSoFar
<1>11. NothingCharged'
  <2> SUFFICES ASSUME NEW o \in Sales, ~Sold(o)', tries'[o] = 0,
                      \A c \in Buyers : Paying(c)' => buyer'[c].bought # o
               PROVE  charged'[o] = 0
    BY DEF NothingCharged
  <2>1. o # s /\ ~Sold(o)
    BY <1>7
  <2>2. ASSUME NEW c \in Buyers, Paying(c) PROVE buyer[c].bought # o
    <3>1. CASE c = b
      BY <2>1, <3>1 DEF s
    <3>2. CASE c # b
      BY <1>2, <2>2, <3>2 DEF Paying
    <3> QED
      BY <3>1, <3>2
  <2> QED
    BY <1>1, <2>1, <2>2 DEF ChargeInv, NothingCharged
<1>12. RowTells'
  <2> SUFFICES ASSUME NEW o \in Sales, Sold(o)'
               PROVE  /\ sale'[o].price <= sale'[o].total
                      /\ sale'[o].total <= charged'[o]
                      /\ sale'[o].at = "refunded" => sale'[o].back = sale'[o].total
    BY DEF RowTells
  <2>1. CASE o = s
    BY <1>1, <1>3, <1>4, <1>5, <1>6, <1>14, <1>15, <2>1
  <2>2. CASE o # s
    BY <1>1, <1>7, <2>2 DEF ChargeInv, RowTells
  <2> QED
    BY <2>1, <2>2
<1>13. ChargedOnceUnlessRolledBack'
  <2> SUFFICES ASSUME NEW o \in Sales, Sold(o)', tries'[o] = 0
               PROVE  IF sale'[o].kind = "SALDO"
                        THEN /\ charged'[o] = sale'[o].asked
                             /\ charged'[o] = sale'[o].total + sale'[o].fees
                        ELSE /\ charged'[o] = sale'[o].total
                             /\ charged'[o] - sale'[o].asked \in Surcharges
    BY DEF ChargedOnceUnlessRolledBack
  <2>1. CASE o = s
    BY <1>1, <1>4, <1>6, <1>14, <2>1
  <2>2. CASE o # s
    BY <1>1, <1>7, <2>2 DEF ChargeInv, ChargedOnceUnlessRolledBack
  <2> QED
    BY <2>1, <2>2
<1> QED
  BY <1>9, <1>10, <1>11, <1>12, <1>13 DEF ChargeInv

\* The rollback: the charge stays, and the order counts as tried.
LEMMA StepRollback ==
  ASSUME ChargeInv, TypeOK', NEW b \in Buyers, RollbackOrder(b) PROVE ChargeInv'
<1> DEFINE s == buyer[b].bought
<1>1. /\ TypeOK /\ Paying(b) /\ s \in Sales
      /\ tries' = [tries EXCEPT ![s] = @ + 1]
      /\ Goto(b, [at |-> "idle"])
      /\ UNCHANGED <<sale, charged>>
  BY BuyerKnows DEF ChargeInv, RollbackOrder, Paying
<1>2. /\ ~Paying(b)'
      /\ \A c \in Buyers \ {b} : buyer'[c] = buyer[c]
      /\ \A c \in Buyers \ {b} : Paying(c) => buyer[c].bought # s
      /\ ~Sold(s)
  BY <1>1, PaymentEnds
<1>3. /\ tries'[s] # 0
      /\ \A o \in Sales \ {s} : tries'[o] = tries[o]
  BY <1>1 DEF TypeOK
<1> HIDE DEF s
<1>4. ASSUME NEW c \in Buyers, Paying(c)'
      PROVE  /\ c # b /\ Paying(c) /\ buyer'[c] = buyer[c]
             /\ buyer[c].bought # s /\ buyer[c].bought \in Sales
  <2>1. c # b /\ Paying(c) /\ buyer'[c] = buyer[c] /\ buyer[c].bought # s
    BY <1>2, <1>4 DEF Paying
  <2> QED
    BY <1>1, <2>1, BuyerKnows DEF Paying
<1>5. OneAtATime'
  <2>1. ASSUME NEW c \in Buyers, NEW d \in Buyers, Paying(c)', Paying(d)',
               buyer'[c].bought = buyer'[d].bought
        PROVE  c = d
    BY <1>4, <2>1 DEF ChargeInv, OneAtATime
  <2>2. ASSUME NEW c \in Buyers, Paying(c)' PROVE ~Sold(buyer[c].bought)'
    BY <1>1, <1>4, <2>2 DEF ChargeInv, OneAtATime, Sold
  <2> QED
    BY <2>1, <2>2 DEF OneAtATime
<1>6. ChargedSoFar'
  <2> SUFFICES ASSUME NEW c \in Buyers, Paying(c)'
               PROVE  LET o == buyer'[c].bought
                          paid == PaidAmount(buyer'[c].price, buyer'[c].by,
                                             buyer'[c].answer)
                      IN IF buyer'[c].at = "paid"
                           THEN /\ buyer'[c].answer \in
                                     Answers(buyer'[c].price, buyer'[c].by)
                                /\ charged'[o] >= paid
                                /\ tries'[o] = 0 => charged'[o] = paid
                           ELSE tries'[o] = 0 => charged'[o] = 0
    BY DEF ChargedSoFar
  <2> QED
    BY <1>1, <1>3, <1>4 DEF ChargeInv, ChargedSoFar
<1>7. NothingCharged'
  <2> SUFFICES ASSUME NEW o \in Sales, ~Sold(o)', tries'[o] = 0,
                      \A c \in Buyers : Paying(c)' => buyer'[c].bought # o
               PROVE  charged'[o] = 0
    BY DEF NothingCharged
  <2>1. o # s /\ ~Sold(o) /\ tries[o] = 0
    BY <1>1, <1>3 DEF Sold
  <2>2. ASSUME NEW c \in Buyers, Paying(c) PROVE buyer[c].bought # o
    <3>1. CASE c = b
      BY <2>1, <3>1 DEF s
    <3>2. CASE c # b
      BY <1>2, <2>2, <3>2 DEF Paying
    <3> QED
      BY <3>1, <3>2
  <2> QED
    BY <1>1, <2>1, <2>2 DEF ChargeInv, NothingCharged
<1>8. RowTells' /\ ChargedOnceUnlessRolledBack'
  BY <1>1, <1>2, <1>3 DEF ChargeInv, RowTells, ChargedOnceUnlessRolledBack, Sold
<1> QED
  BY <1>5, <1>6, <1>7, <1>8 DEF ChargeInv

\* The refund.
LEMMA StepRefund ==
  ASSUME ChargeInv, TypeOK', NEW s \in Sales, RefundSale(s) PROVE ChargeInv'
<1>1. /\ TypeOK /\ sale[s].at = "sold"
      /\ sale' = [sale EXCEPT ![s] = [sale[s] EXCEPT !.at = "refunded",
                                                     !.back = sale[s].total]]
      /\ UNCHANGED <<buyer, charged, tries>>
  BY DEF ChargeInv, RefundSale
<1>2. /\ sale'[s].at = "refunded" /\ sale'[s].back = sale[s].total
      /\ sale'[s].total = sale[s].total /\ sale'[s].price = sale[s].price
      /\ sale'[s].fees = sale[s].fees /\ sale'[s].kind = sale[s].kind
      /\ sale'[s].asked = sale[s].asked
  BY <1>1 DEF TypeOK, Sale
<1>3. \A o \in Sales \ {s} : sale'[o] = sale[o]
  BY <1>1 DEF TypeOK
<1>4. \A o \in Sales : Sold(o)' <=> Sold(o)
  BY <1>1, <1>2, <1>3 DEF Sold
<1>5. OneAtATime'
  <2>1. \A b \in Buyers : Paying(b) => buyer[b].bought # s
    BY <1>1 DEF ChargeInv, OneAtATime, Sold
  <2>2. \A b \in Buyers : Paying(b) => buyer[b].bought \in Sales
    BY <1>1, BuyerKnows DEF Paying
  <2> QED
    BY <1>1, <1>3, <2>1, <2>2 DEF ChargeInv, OneAtATime, Paying, Sold
<1>6. ChargedSoFar'
  BY <1>1 DEF ChargeInv, ChargedSoFar, Paying
<1>7. NothingCharged'
  BY <1>1, <1>4 DEF ChargeInv, NothingCharged, Paying
<1>8. RowTells'
  <2>1. Sold(s)
    BY <1>1 DEF Sold
  <2> SUFFICES ASSUME NEW o \in Sales, Sold(o)'
               PROVE  /\ sale'[o].price <= sale'[o].total
                      /\ sale'[o].total <= charged'[o]
                      /\ sale'[o].at = "refunded" => sale'[o].back = sale'[o].total
    BY DEF RowTells
  <2>2. CASE o = s
    BY <1>1, <1>2, <2>1, <2>2 DEF ChargeInv, RowTells
  <2>3. CASE o # s
    BY <1>1, <1>3, <1>4, <2>3 DEF ChargeInv, RowTells
  <2> QED
    BY <2>2, <2>3
<1>9. ChargedOnceUnlessRolledBack'
  BY <1>1, <1>2, <1>3, <1>4 DEF ChargeInv, ChargedOnceUnlessRolledBack
<1> QED
  BY <1>5, <1>6, <1>7, <1>8, <1>9 DEF ChargeInv

LEMMA StepCharges == ChargeInv /\ [Next]_vars => ChargeInv'
<1> SUFFICES ASSUME ChargeInv, [Next]_vars PROVE ChargeInv'
  OBVIOUS
<1>1. TypeOK /\ TypeOK'
  BY StepTypes DEF ChargeInv
<1>2. ASSUME NEW b \in Buyers, Reads(b), ~InsertOrder(b) PROVE ChargeInv'
  <2>1. UNCHANGED <<sale, charged, tries>>
    BY <1>1, <1>2, ReadsTypes
  <2>2. \A c \in Buyers \ {b} : buyer'[c] = buyer[c]
    BY <1>1, <1>2, ReadsTypes, GotoTypes
  <2>3. buyer[b].at \in {"viewing", "quoted", "found", "priced"}
    BY <1>2 DEF Reads, ShowMethods, FindProduct, FindInquiry, FindPaymentMethod,
       RefuseMethod, InsertRefused
  <2>4. buyer'[b].at \in {"quoted", "found", "priced", "done"}
    <3>1. ASSUME buyer[b].at \in {"viewing", "quoted"}
          PROVE  buyer[b] \in [at : {"viewing", "quoted", "found"}, bought : Sales,
                               price : Int, cost : Int, quantity : Quantities,
                               quote : Int, loss : SUBSET Risks]
      BY <1>1, <3>1 DEF TypeOK, Buyer
    <3>2. CASE ShowMethods(b)
      <4>1. buyer[b].at = "viewing"
        BY <3>2 DEF ShowMethods
      <4>2. PICK q : Goto(b, [buyer[b] EXCEPT !.at = "quoted", !.quote = q])
        BY <3>2 DEF ShowMethods
      <4>3. buyer'[b] = [buyer[b] EXCEPT !.at = "quoted", !.quote = q]
        BY <1>1, <4>2, GotoTypes
      <4>4. buyer'[b].at = "quoted"
        BY <3>1, <4>1, <4>3
      <4> QED
        BY <4>4
    <3>3. CASE FindProduct(b)
      <4>1. buyer[b].at = "quoted"
        BY <3>3 DEF FindProduct
      <4>2. \/ Goto(b, [buyer[b] EXCEPT !.at = "found", !.loss = risk,
                          !.price = product.price * buyer[b].quantity,
                          !.cost = product.cost * buyer[b].quantity])
            \/ Goto(b, [at |-> "done"])
        BY <3>3 DEF FindProduct
      <4>3. \/ buyer'[b] = [buyer[b] EXCEPT !.at = "found", !.loss = risk,
                              !.price = product.price * buyer[b].quantity,
                              !.cost = product.cost * buyer[b].quantity]
            \/ buyer'[b] = [at |-> "done"]
        BY <1>1, <4>2, GotoTypes
      <4>4. buyer[b] \in [at : {"viewing", "quoted", "found"}, bought : Sales,
                          price : Int, cost : Int, quantity : Quantities,
                          quote : Int, loss : SUBSET Risks]
        BY <3>1, <4>1
      <4>5. CASE buyer'[b] = [at |-> "done"]
        BY <4>5
      <4>6. CASE buyer'[b] # [at |-> "done"]
        <5>1. buyer'[b].at = "found"
          BY <4>3, <4>4, <4>6
        <5> QED
          BY <5>1
      <4> QED
        BY <4>5, <4>6
    <3>4. CASE FindInquiry(b)
      <4>1. buyer[b].at = "quoted"
        BY <3>4 DEF FindInquiry
      <4>2. \/ Goto(b, [buyer[b] EXCEPT !.at = "found",
                          !.price = bill[buyer[b].bought].total,
                          !.cost = bill[buyer[b].bought].total])
            \/ Goto(b, [at |-> "done"])
        BY <3>4 DEF FindInquiry
      <4>3. \/ buyer'[b] = [buyer[b] EXCEPT !.at = "found",
                              !.price = bill[buyer[b].bought].total,
                              !.cost = bill[buyer[b].bought].total]
            \/ buyer'[b] = [at |-> "done"]
        BY <1>1, <4>2, GotoTypes
      <4>4. buyer[b] \in [at : {"viewing", "quoted", "found"}, bought : Sales,
                          price : Int, cost : Int, quantity : Quantities,
                          quote : Int, loss : SUBSET Risks]
        BY <3>1, <4>1
      <4>5. CASE buyer'[b] = [at |-> "done"]
        BY <4>5
      <4>6. CASE buyer'[b] # [at |-> "done"]
        <5>1. buyer'[b].at = "found"
          BY <4>3, <4>4, <4>6
        <5> QED
          BY <5>1
      <4> QED
        BY <4>5, <4>6
    <3>5. CASE FindPaymentMethod(b)
      BY <1>1, <3>5, GotoTypes DEF FindPaymentMethod
    <3>6. CASE RefuseMethod(b) \/ InsertRefused(b)
      BY <1>1, <3>6, GotoTypes DEF RefuseMethod, InsertRefused
    <3> QED
      BY <1>2, <3>2, <3>3, <3>4, <3>5, <3>6 DEF Reads
  <2>5. ASSUME NEW c \in Buyers
        PROVE  buyer'[c] = buyer[c] \/ (~Paying(c) /\ ~Paying(c)')
    <3>1. c = b => ~Paying(c) /\ buyer'[c].at \notin {"inserted", "paid"}
      BY <2>3, <2>4 DEF Paying
    <3>2. c # b => buyer'[c] = buyer[c]
      BY <2>2
    <3> QED
      BY <3>1, <3>2 DEF Paying
  <2> QED
    BY <1>1, <2>1, <2>5, NobodyPays DEF ChargeInv
<1>3. ASSUME NEW b \in Buyers, Views(b) PROVE ChargeInv'
  <2>1. /\ UNCHANGED <<sale, charged, tries>>
        /\ buyer[b].at = "idle"
    BY <1>1, <1>3, ViewsTypes DEF Views, ViewProduct, ViewInquiry
  <2>2. /\ buyer'[b].at = "viewing"
        /\ \A c \in Buyers \ {b} : buyer'[c] = buyer[c]
    BY <1>1, <1>3, ViewsTypes, GotoTypes
  <2>3. ASSUME NEW c \in Buyers
        PROVE  buyer'[c] = buyer[c] \/ (~Paying(c) /\ ~Paying(c)')
    <3>1. c = b => ~Paying(c) /\ buyer'[c].at \notin {"inserted", "paid"}
      BY <2>1, <2>2 DEF Paying
    <3>2. c # b => buyer'[c] = buyer[c]
      BY <2>2
    <3> QED
      BY <3>1, <3>2 DEF Paying
  <2> QED
    BY <1>1, <2>1, <2>3, NobodyPays DEF ChargeInv
<1>4. ASSUME NEW b \in Buyers,
             \/ InsertOrder(b) \/ CreatePayment(b) \/ CommitOrder(b)
             \/ RollbackOrder(b)
      PROVE  ChargeInv'
  BY <1>1, <1>4, StepInsert, StepCharge, StepCommit, StepRollback
<1>5. ASSUME NEW s \in Sales, RefundSale(s) PROVE ChargeInv'
  BY <1>1, <1>5, StepRefund
<1>6. ASSUME \/ \E i \in Bills, total \in BillTotals,
                   status \in {"SUCCESS", "PENDING"} :
                  CreateInquiry(i, total, status)
             \/ EditCatalogue \/ UNCHANGED vars
      PROVE  ChargeInv'
  <2>1. UNCHANGED <<buyer, sale, charged, tries>>
    BY <1>6 DEF CreateInquiry, EditCatalogue, vars
  <2> QED
    BY <1>1, <2>1, NobodyPays DEF ChargeInv
<1> QED
  BY <1>2, <1>3, <1>4, <1>5, <1>6, NextCases

LEMMA ChargesHold == Spec => []ChargeInv
<1>1. Init => ChargeInv
  <2> SUFFICES ASSUME Init PROVE ChargeInv
    OBVIOUS
  <2>1. /\ \A b \in Buyers : ~Paying(b)
        /\ \A s \in Sales : ~Sold(s) /\ charged[s] = 0
    BY DEF Init, Paying, Sold, NoSale
  <2> QED
    BY <2>1, InitTypes DEF ChargeInv, OneAtATime, ChargedSoFar, NothingCharged,
       RowTells, ChargedOnceUnlessRolledBack
<1> QED
  BY <1>1, StepCharges, PTL DEF Spec

\* An order is charged once, however many buyers pay the same bill, and its row
\* accounts for it: the amount asked for by SALDO, the answer of a provider with
\* whatever surcharge it takes, unless a payment of it was rolled back
\* (createTransaction, payInquiry, PaymentService.createPayment).
THEOREM Storefront_ChargedOnce == Spec => []ChargedOnceUnlessRolledBack
  BY ChargesHold, PTL DEF ChargeInv

\* A refund gives back at most what was charged, and at least the price
\* (QueueConsumer, PaymentService.createPayment for SALDO).
THEOREM Storefront_Refund == Spec => []RefundKeepsAtMostFees
<1>1. ChargeInv => RefundKeepsAtMostFees
  BY DEF ChargeInv, RowTells, RefundKeepsAtMostFees, Sold, TypeOK, Sale
<1> QED
  BY <1>1, ChargesHold, PTL

-----------------------------------------------------------------------------
(* Quotes.                                                                 *)

\* What the page shows to b for a price with the method as it is now...
Shown(b, price) == IF Offered(b, price) THEN Total(price, method) ELSE NotOffered

\* ...and what it showed when the order has read that method and taken it.
ShownOf(price, m) ==
  IF WithinLimits(Total(price, m), m) THEN Total(price, m) ELSE NotOffered

\* What b has read is there as b has read it; a bill may have been paid.
PriceStands(b) ==
  /\ buyer[b].bought = b => buyer[b].price = product.price * buyer[b].quantity
  /\ buyer[b].bought \in Bills =>
       LET i == buyer[b].bought
       IN \/ bill[i].at = "deleted"
          \/ bill[i].at \in {"SUCCESS", "PENDING"} /\ buyer[b].price = bill[i].total

\* The invariant: as long as nothing has changed under a buyer, price and quote
\* are those of the catalogue, and after that those of what it keeps.
QuoteInv(b) ==
  /\ buyer[b].at \notin {"idle", "done"} =>
       buyer[b].bought = b \/ buyer[b].bought \in Bills
  /\ buyer[b].at \in {"viewing", "quoted"} /\ b \notin changed => PriceStands(b)
  /\ buyer[b].at \in {"quoted", "found"} /\ b \notin changed =>
       buyer[b].quote = Shown(b, buyer[b].price)
  /\ buyer[b].at \in {"priced", "inserted", "paid"} /\ b \notin changed =>
       buyer[b].quote = ShownOf(buyer[b].price, buyer[b].by)
  /\ buyer[b].at \in {"inserted", "paid"} /\ buyer[b].bought = b =>
       StrictlyWithin(Total(buyer[b].price, buyer[b].by), buyer[b].by)

Quotes == \A b \in Buyers : QuoteInv(b)

\* A buyer who stays where it is, and has nothing changed under it unnoticed.
LEMMA StayingKeepsQuote ==
  ASSUME NEW b \in Buyers, QuoteInv(b), buyer'[b] = buyer[b],
         b \in changed => b \in changed',
         buyer[b].at \in Reading /\ b \notin changed' =>
           product' = product /\ method' = method,
         \A i \in Bills : \/ bill'[i] = bill[i] \/ bill[i].at = "none"
                          \/ bill'[i].at = "deleted"
  PROVE  QuoteInv(b)'
<1>1. ASSUME buyer[b].at \in {"viewing", "quoted"}, b \notin changed'
      PROVE  PriceStands(b)'
  <2>1. PriceStands(b) /\ product' = product
    BY <1>1 DEF QuoteInv, Reading
  <2>2. PICK k : k = buyer[b]
    OBVIOUS
  <2>3. k.bought \in Bills =>
          \/ bill'[k.bought].at = "deleted"
          \/ /\ bill'[k.bought].at \in {"SUCCESS", "PENDING"}
             /\ k.price = bill'[k.bought].total
    BY <2>1, <2>2 DEF PriceStands
  <2> QED
    BY <2>1, <2>2, <2>3 DEF PriceStands
<1>2. ASSUME buyer[b].at \in {"quoted", "found"}, b \notin changed'
      PROVE  buyer'[b].quote = Shown(b, buyer[b].price)'
  <2>1. method' = method /\ buyer[b].quote = Shown(b, buyer[b].price)
    BY <1>2 DEF QuoteInv, Reading
  <2> QED
    BY <2>1 DEF Shown, Offered
<1> QED
  BY <1>1, <1>2 DEF QuoteInv

\* Before the method is kept.
LEMMA EarlyRecord ==
  ASSUME TypeOK, NEW b \in Buyers, buyer[b].at \in {"viewing", "quoted", "found"}
  PROVE  buyer[b] \in [at : {"viewing", "quoted", "found"}, bought : Sales,
                       price : Int, cost : Int, quantity : Quantities,
                       quote : Int, loss : SUBSET Risks]
BY DEF TypeOK, Buyer

\* Looking at the product or at a bill.
LEMMA ViewsQuote ==
  ASSUME TypeOK, NEW b \in Buyers, Views(b)
  PROVE  QuoteInv(b)'
<1>1. ASSUME NEW bought \in Sales, NEW price, NEW cost, NEW quantity \in Quantities,
             Look(b, bought, price, cost, quantity)
      PROVE  /\ buyer'[b].at = "viewing" /\ buyer'[b].bought = bought
             /\ buyer'[b].price = price /\ buyer'[b].quantity = quantity
             /\ UNCHANGED <<product, bill>>
  BY <1>1, GotoTypes DEF Look, catalogue
<1>2. ASSUME NEW quantity \in Quantities, ViewProduct(b, quantity)
      PROVE  QuoteInv(b)'
  <2>1. /\ buyer'[b].at = "viewing" /\ buyer'[b].bought = b
        /\ buyer'[b].price = product.price * quantity
        /\ buyer'[b].quantity = quantity
        /\ UNCHANGED <<product, bill>>
    BY <1>1, <1>2 DEF ViewProduct, Sales
  <2>2. b \notin Bills
    BY StorefrontAssumption
  <2>3. PriceStands(b)'
    BY <2>1, <2>2 DEF PriceStands
  <2> QED
    BY <2>1, <2>3 DEF QuoteInv
<1>3. ASSUME NEW i \in Bills, ViewInquiry(b, i)
      PROVE  QuoteInv(b)'
  <2>1. /\ buyer'[b].at = "viewing" /\ buyer'[b].bought = i
        /\ buyer'[b].price = bill[i].total
        /\ bill[i].at \in {"SUCCESS", "PENDING"}
        /\ UNCHANGED <<product, bill>>
    BY <1>1, <1>3 DEF ViewInquiry, Sales
  <2>2. b \notin Bills
    BY StorefrontAssumption
  <2>3. PriceStands(b)'
    BY <2>1, <2>2 DEF PriceStands
  <2> QED
    BY <2>1, <2>3 DEF QuoteInv
<1> QED
  BY <1>2, <1>3 DEF Views

\* Reading on: the order reads again what the page has read.
LEMMA ReadsQuote ==
  ASSUME TypeOK, NEW b \in Buyers, QuoteInv(b), Reads(b)
  PROVE  QuoteInv(b)'
<1>1. UNCHANGED <<product, method, bill, changed>>
  BY ReadsTypes DEF catalogue
<1>2. CASE ShowMethods(b)
  <2> DEFINE quote == Shown(b, buyer[b].price)
  <2>1. /\ buyer[b].at = "viewing"
        /\ buyer'[b] = [buyer[b] EXCEPT !.at = "quoted", !.quote = quote]
    BY <1>2, GotoTypes DEF ShowMethods, Shown
  <2>2. /\ buyer'[b].at = "quoted" /\ buyer'[b].quote = quote
        /\ buyer'[b].bought = buyer[b].bought /\ buyer'[b].price = buyer[b].price
        /\ buyer'[b].quantity = buyer[b].quantity
    BY <2>1, EarlyRecord
  <2>3. b \notin changed => PriceStands(b)'
    BY <1>1, <2>1, <2>2 DEF QuoteInv, PriceStands
  <2>4. buyer'[b].quote = Shown(b, buyer[b].price)'
    BY <1>1, <2>2 DEF Shown, Offered
  <2> QED
    BY <1>1, <2>1, <2>2, <2>3, <2>4 DEF QuoteInv
<1>3. ASSUME buyer'[b] = [at |-> "done"]
      PROVE  QuoteInv(b)'
  BY <1>3 DEF QuoteInv
<1>4. ASSUME buyer[b].at = "quoted", NEW price, b \notin changed => price = buyer[b].price,
             buyer'[b].at = "found", buyer'[b].bought = buyer[b].bought,
             buyer'[b].price = price, buyer'[b].quote = buyer[b].quote
      PROVE  QuoteInv(b)'
  <2>1. b \notin changed => buyer'[b].quote = Shown(b, buyer[b].price)'
    BY <1>1, <1>4 DEF QuoteInv, Shown, Offered
  <2> QED
    BY <1>1, <1>4, <2>1 DEF QuoteInv
<1>5. CASE FindProduct(b)
  <2> DEFINE price == product.price * buyer[b].quantity
             cost == product.cost * buyer[b].quantity
  <2>1. buyer[b].at = "quoted" /\ buyer[b].bought = b
    BY <1>5 DEF FindProduct
  <2>2. b \notin changed => price = buyer[b].price
    BY <2>1 DEF QuoteInv, PriceStands
  <2>3. \/ buyer'[b] = [buyer[b] EXCEPT !.at = "found", !.loss = risk,
                                       !.price = price, !.cost = cost]
        \/ buyer'[b] = [at |-> "done"]
    BY <1>5, GotoTypes DEF FindProduct
  <2>4. CASE buyer'[b] = [buyer[b] EXCEPT !.at = "found", !.loss = risk,
                                         !.price = price, !.cost = cost]
    <3>1. /\ buyer'[b].at = "found" /\ buyer'[b].bought = buyer[b].bought
          /\ buyer'[b].price = price /\ buyer'[b].quote = buyer[b].quote
      BY <2>1, <2>4, EarlyRecord
    <3> QED
      BY <1>4, <2>1, <2>2, <3>1
  <2> QED
    BY <1>3, <2>3, <2>4
<1>6. CASE FindInquiry(b)
  <2> DEFINE total == bill[buyer[b].bought].total
  <2>1. buyer[b].at = "quoted" /\ buyer[b].bought \in Bills
    BY <1>6 DEF FindInquiry
  <2>2. \/ /\ buyer'[b] = [buyer[b] EXCEPT !.at = "found", !.price = total,
                                          !.cost = total]
           /\ bill[buyer[b].bought].at = "SUCCESS"
        \/ buyer'[b] = [at |-> "done"]
    BY <1>6, GotoTypes DEF FindInquiry
  <2>3. CASE /\ buyer'[b] = [buyer[b] EXCEPT !.at = "found", !.price = total,
                                            !.cost = total]
             /\ bill[buyer[b].bought].at = "SUCCESS"
    <3>1. /\ buyer'[b].at = "found" /\ buyer'[b].bought = buyer[b].bought
          /\ buyer'[b].price = total /\ buyer'[b].quote = buyer[b].quote
      BY <2>1, <2>3, EarlyRecord
    <3>2. b \notin changed => total = buyer[b].price
      BY <2>1, <2>3 DEF QuoteInv, PriceStands
    <3> QED
      BY <1>4, <2>1, <3>1, <3>2
  <2> QED
    BY <1>3, <2>2, <2>3
<1>7. CASE FindPaymentMethod(b)
  <2>1. /\ buyer[b].at = "found" /\ MethodFits(b, buyer[b].price)
        /\ buyer'[b].at = "priced" /\ buyer'[b].bought = buyer[b].bought
        /\ buyer'[b].price = buyer[b].price /\ buyer'[b].quote = buyer[b].quote
        /\ buyer'[b].by = method
    BY <1>7, GotoTypes DEF FindPaymentMethod
  <2>2. Shown(b, buyer[b].price) = ShownOf(buyer[b].price, method)
    BY <2>1 DEF Shown, ShownOf, Offered, MethodFits
  <2> QED
    BY <1>1, <2>1, <2>2 DEF QuoteInv
<1>8. CASE InsertOrder(b)
  <2>1. /\ buyer[b].at = "priced" /\ ~RefusesTotal(b)
        /\ buyer'[b] = [buyer[b] EXCEPT !.at = "inserted"]
    BY <1>8, GotoTypes DEF InsertOrder
  <2>2. /\ buyer'[b].at = "inserted" /\ buyer'[b].bought = buyer[b].bought
        /\ buyer'[b].price = buyer[b].price /\ buyer'[b].quote = buyer[b].quote
        /\ buyer'[b].by = buyer[b].by
    BY <2>1, OnlyTheState
  <2>3. buyer[b].bought = b =>
          StrictlyWithin(Total(buyer[b].price, buyer[b].by), buyer[b].by)
    BY <2>1 DEF RefusesTotal
  <2> QED
    BY <1>1, <2>1, <2>2, <2>3 DEF QuoteInv
<1>9. CASE RefuseMethod(b) \/ InsertRefused(b)
  BY <1>3, <1>9, GotoTypes DEF RefuseMethod, InsertRefused
<1> QED
  BY <1>2, <1>5, <1>6, <1>7, <1>8, <1>9 DEF Reads

\* The row of an order says what the page said.
LEMMA CommitAsQuoted ==
  ASSUME TypeOK, NEW b \in Buyers, QuoteInv(b), CommitOrder(b), ChargedAsQuoted
  PROVE  ChargedAsQuoted'
<1> DEFINE s == buyer[b].bought
           total == Total(buyer[b].price, buyer[b].by)
<1>1. /\ buyer[b].at = "paid" /\ s \in Sales /\ sale'[s] = Row(b)
      /\ \A o \in Sales \ {s} : sale'[o] = sale[o]
  BY Commits
<1>2. /\ buyer[b].price \in Nat /\ buyer[b].by \in Methods /\ total \in Nat
      /\ buyer[b].by.min \in Nat /\ buyer[b].by.max \in Nat
  BY <1>1, BuyerKnows, TotalTypes, CatalogueAssumption DEF Method
<1>3. ASSUME b \notin changed
      PROVE  IF buyer[b].quote = NotOffered THEN s \in Bills
             ELSE total = buyer[b].quote
  <2>1. buyer[b].quote = IF WithinLimits(total, buyer[b].by) THEN total
                         ELSE NotOffered
    BY <1>1, <1>3 DEF QuoteInv, ShownOf
  <2>2. CASE s = b
    <3>1. buyer[b].by.min < total /\ total < buyer[b].by.max
      BY <1>1, <2>2 DEF QuoteInv, StrictlyWithin
    <3>2. total # NotOffered /\ WithinLimits(total, buyer[b].by)
      BY <1>2, <3>1 DEF WithinLimits, NotOffered
    <3> QED
      BY <2>1, <3>2
  <2>3. CASE s # b
    BY <1>1, <2>1, <2>3 DEF QuoteInv
  <2> QED
    BY <2>2, <2>3
<1>4. /\ Row(b).asked = total
      /\ Row(b).quote = buyer[b].quote
      /\ Row(b).changed = (b \in changed)
  <2>1. Row(b).asked = total /\ Row(b).quote = buyer[b].quote
    BY DEF Row
  <2>2. Row(b).changed = (b \in changed)
    BY Zenon DEF Row
  <2> QED
    BY <2>1, <2>2
<1> HIDE DEF s, total
<1>5. ASSUME NEW o \in Sales, Sold(o)', ~sale'[o].changed
      PROVE  IF sale'[o].quote = NotOffered THEN o \in Bills
             ELSE sale'[o].asked = sale'[o].quote
  <2>1. CASE o = s
    BY <1>1, <1>3, <1>4, <1>5, <2>1
  <2>2. CASE o # s
    BY <1>1, <1>5, <2>2 DEF ChargedAsQuoted, Sold
  <2> QED
    BY <2>1, <2>2
<1> QED
  BY <1>5 DEF ChargedAsQuoted

LEMMA RefundAsQuoted ==
  ASSUME TypeOK, NEW s \in Sales, RefundSale(s), ChargedAsQuoted
  PROVE  ChargedAsQuoted'
<1>1. /\ sale[s].at = "sold"
      /\ sale' = [sale EXCEPT ![s] = [sale[s] EXCEPT !.at = "refunded",
                                                     !.back = sale[s].total]]
  BY DEF RefundSale
<1>2. /\ sale'[s].asked = sale[s].asked
      /\ sale'[s].quote = sale[s].quote /\ sale'[s].changed = sale[s].changed
  BY <1>1 DEF TypeOK, Sale
<1>3. \A o \in Sales \ {s} : sale'[o] = sale[o]
  BY <1>1 DEF TypeOK
<1> QED
  BY <1>1, <1>2, <1>3 DEF ChargedAsQuoted, Sold

LEMMA StepQuotes ==
  TypeOK /\ Quotes /\ ChargedAsQuoted /\ [Next]_vars => Quotes' /\ ChargedAsQuoted'
<1> SUFFICES ASSUME TypeOK, Quotes, ChargedAsQuoted, [Next]_vars
             PROVE  Quotes' /\ ChargedAsQuoted'
  OBVIOUS
<1> USE DEF catalogue
<1>1. ASSUME NEW b \in Buyers, Views(b)
      PROVE  Quotes' /\ ChargedAsQuoted'
  <2>1. ASSUME NEW c \in Buyers PROVE QuoteInv(c)'
    <3>1. CASE c = b
      BY <1>1, <3>1, ViewsQuote
    <3>2. CASE c # b
      BY <1>1, <3>2, ViewsTypes, GotoTypes, StayingKeepsQuote DEF Quotes
    <3> QED
      BY <3>1, <3>2
  <2> QED
    BY <1>1, <2>1, ViewsTypes DEF Quotes, ChargedAsQuoted, Sold
<1>2. ASSUME NEW b \in Buyers, Reads(b)
      PROVE  Quotes' /\ ChargedAsQuoted'
  <2>1. ASSUME NEW c \in Buyers PROVE QuoteInv(c)'
    <3>1. CASE c = b
      BY <1>2, <3>1, ReadsQuote DEF Quotes
    <3>2. CASE c # b
      BY <1>2, <3>2, ReadsTypes, GotoTypes, StayingKeepsQuote DEF Quotes
    <3> QED
      BY <3>1, <3>2
  <2> QED
    BY <1>2, <2>1, ReadsTypes DEF Quotes, ChargedAsQuoted, Sold
<1>3. ASSUME NEW b \in Buyers, CreatePayment(b)
      PROVE  Quotes' /\ ChargedAsQuoted'
  <2>1. /\ buyer[b].at = "inserted"
        /\ \A c \in Buyers \ {b} : buyer'[c] = buyer[c]
        /\ UNCHANGED <<product, method, bill, sale, changed>>
    BY <1>3, Charges, GotoTypes
  <2>2. /\ buyer'[b].at = "paid" /\ buyer'[b].bought = buyer[b].bought
        /\ buyer'[b].price = buyer[b].price /\ buyer'[b].quote = buyer[b].quote
        /\ buyer'[b].by = buyer[b].by
    BY <1>3, Charges
  <2>3. ASSUME NEW c \in Buyers PROVE QuoteInv(c)'
    <3>1. CASE c = b
      BY <2>1, <2>2, <3>1 DEF Quotes, QuoteInv
    <3>2. CASE c # b
      BY <2>1, <3>2, StayingKeepsQuote DEF Quotes
    <3> QED
      BY <3>1, <3>2
  <2> QED
    BY <2>1, <2>3 DEF Quotes, ChargedAsQuoted, Sold
<1>4. ASSUME NEW b \in Buyers, CommitOrder(b)
      PROVE  Quotes' /\ ChargedAsQuoted'
  <2>1. /\ buyer'[b] = [at |-> "done"]
        /\ \A c \in Buyers \ {b} : buyer'[c] = buyer[c]
        /\ UNCHANGED <<product, method, changed>>
    BY <1>4, Commits, GotoTypes
  <2>2. \A i \in Bills : bill'[i] = bill[i] \/ bill'[i].at = "deleted"
    BY <1>4 DEF CommitOrder, TypeOK
  <2>3. ASSUME NEW c \in Buyers PROVE QuoteInv(c)'
    <3>1. CASE c = b
      BY <2>1, <3>1 DEF QuoteInv
    <3>2. CASE c # b
      BY <2>1, <2>2, <3>2, StayingKeepsQuote DEF Quotes
    <3> QED
      BY <3>1, <3>2
  <2> QED
    BY <1>4, <2>3, CommitAsQuoted DEF Quotes
<1>5. ASSUME NEW b \in Buyers, RollbackOrder(b)
      PROVE  Quotes' /\ ChargedAsQuoted'
  <2>1. Goto(b, [at |-> "idle"]) /\ UNCHANGED <<product, method, bill, sale, changed>>
    BY <1>5 DEF RollbackOrder
  <2>2. /\ buyer'[b] = [at |-> "idle"]
        /\ \A c \in Buyers \ {b} : buyer'[c] = buyer[c]
    BY <2>1, GotoTypes
  <2>3. ASSUME NEW c \in Buyers PROVE QuoteInv(c)'
    <3>1. CASE c = b
      BY <2>2, <3>1 DEF QuoteInv
    <3>2. CASE c # b
      BY <2>1, <2>2, <3>2, StayingKeepsQuote DEF Quotes
    <3> QED
      BY <3>1, <3>2
  <2> QED
    BY <2>1, <2>3 DEF Quotes, ChargedAsQuoted, Sold
<1>6. ASSUME NEW i \in Bills, NEW total \in BillTotals,
             NEW status \in {"SUCCESS", "PENDING"}, CreateInquiry(i, total, status)
      PROVE  Quotes' /\ ChargedAsQuoted'
  <2>1. /\ UNCHANGED <<product, method, buyer, sale, changed>>
        /\ \A j \in Bills : bill'[j] = bill[j] \/ bill[j].at = "none"
    BY <1>6 DEF CreateInquiry, TypeOK
  <2>2. \A c \in Buyers : QuoteInv(c)'
    BY <2>1, StayingKeepsQuote DEF Quotes
  <2> QED
    BY <2>1, <2>2 DEF Quotes, ChargedAsQuoted, Sold
<1>7. ASSUME NEW s \in Sales, RefundSale(s)
      PROVE  Quotes' /\ ChargedAsQuoted'
  <2>1. UNCHANGED <<product, method, buyer, bill, changed>>
    BY <1>7 DEF RefundSale
  <2>2. \A c \in Buyers : QuoteInv(c)'
    BY <2>1, StayingKeepsQuote DEF Quotes
  <2> QED
    BY <1>7, <2>2, RefundAsQuoted DEF Quotes
<1>8. CASE EditCatalogue
  <2>1. changed' = changed \cup Midway /\ UNCHANGED <<buyer, bill, sale>>
    BY <1>8 DEF EditCatalogue
  <2>2. \A c \in Buyers : QuoteInv(c)'
    BY <2>1, StayingKeepsQuote DEF Quotes, Midway
  <2> QED
    BY <2>1, <2>2 DEF Quotes, ChargedAsQuoted, Sold
<1>9. CASE UNCHANGED vars
  <2>1. \A c \in Buyers : QuoteInv(c)'
    BY <1>9, StayingKeepsQuote DEF Quotes, vars
  <2> QED
    BY <1>9, <2>1 DEF Quotes, ChargedAsQuoted, Sold, vars
<1> QED
  BY <1>1, <1>2, <1>3, <1>4, <1>5, <1>6, <1>7, <1>8, <1>9, NextCases

LEMMA QuotesHold == Spec => [](TypeOK /\ Quotes /\ ChargedAsQuoted)
<1>1. Init => Quotes /\ ChargedAsQuoted
  BY DEF Init, Quotes, QuoteInv, ChargedAsQuoted, Sold, NoSale
<1> QED
  BY <1>1, StepQuotes, Storefront_TypeOK, PTL DEF Spec

\* Page and order agree about the total, whoever buys and however many: only a
\* change of the catalogue between them makes a difference, and a method that
\* was not offered takes a bill only (UiService, createTransaction, payInquiry).
THEOREM Storefront_AsQuoted == Spec => []ChargedAsQuoted
  BY QuotesHold, PTL

\* The refusal of a method that was on the page.
Refused(b) ==
  \/ Sold(buyer[b].bought)
  \/ /\ buyer[b].at = "priced"
     /\ buyer[b].quote \in {buyer[b].by.min, buyer[b].by.max}

LEMMA StepAccepts ==
  ASSUME TypeOK, Quotes, [Next]_vars, NEW b \in Buyers,
         buyer[b].at \in {"found", "priced"}, buyer'[b].at = "done",
         buyer[b].quote # NotOffered, b \notin changed
  PROVE  Refused(b)
<1>1. QuoteInv(b)
  BY DEF Quotes
<1>2. CASE RefuseMethod(b)
  <2>1. CASE buyer[b].at = "found"
    <3>1. buyer[b].quote = Shown(b, buyer[b].price)
      BY <1>1, <2>1 DEF QuoteInv
    <3>2. Offered(b, buyer[b].price)
      BY <3>1 DEF Shown
    <3>3. ~MethodFits(b, buyer[b].price)
      BY <1>2, <2>1 DEF RefuseMethod
    <3> QED
      BY <3>2, <3>3 DEF Offered, MethodFits
  <2>2. CASE buyer[b].at = "priced"
    <3> DEFINE m == buyer[b].by
               total == Total(buyer[b].price, m)
    <3>1. total \in Nat /\ m.min \in Nat /\ m.max \in Nat
      BY <2>2, BuyerKnows, TotalTypes, CatalogueAssumption DEF Method
    <3>2. buyer[b].quote = total /\ WithinLimits(total, m)
      BY <1>1, <2>2 DEF QuoteInv, ShownOf
    <3>3. ~StrictlyWithin(total, m)
      BY <1>2, <2>2 DEF RefuseMethod, RefusesTotal
    <3> HIDE DEF m, total
    <3>4. total \in {m.min, m.max}
      BY <3>1, <3>2, <3>3 DEF WithinLimits, StrictlyWithin
    <3> QED
      BY <2>2, <3>2, <3>4 DEF Refused, m
  <2> QED
    BY <2>1, <2>2
<1>3. CASE InsertRefused(b)
  BY <1>3 DEF InsertRefused, Refused, Sold
<1>4. ASSUME NEW c \in Buyers, Reads(c), ~RefuseMethod(b), ~InsertRefused(b)
      PROVE  FALSE
  <2>1. CASE c # b
    BY <1>4, <2>1, ReadsTypes, GotoTypes
  <2>2. CASE c = b
    <3>1. CASE FindPaymentMethod(b)
      BY <3>1, GotoTypes DEF FindPaymentMethod
    <3>2. CASE InsertOrder(b)
      <4>1. buyer'[b] = [buyer[b] EXCEPT !.at = "inserted"] /\ buyer[b].at = "priced"
        BY <3>2, GotoTypes DEF InsertOrder
      <4> QED
        BY <4>1, OnlyTheState
    <3>3. CASE ShowMethods(b) \/ FindProduct(b) \/ FindInquiry(b)
      BY <3>3 DEF ShowMethods, FindProduct, FindInquiry
    <3> QED
      BY <1>4, <2>2, <3>1, <3>2, <3>3 DEF Reads
  <2> QED
    BY <2>1, <2>2
<1>5. ASSUME NEW c \in Buyers, Views(c)
      PROVE  FALSE
  <2>1. buyer[c].at = "idle"
    BY <1>5 DEF Views, ViewProduct, ViewInquiry
  <2> QED
    BY <1>5, <2>1, ViewsTypes, GotoTypes
<1>6. ASSUME NEW c \in Buyers, CreatePayment(c) \/ CommitOrder(c) \/ RollbackOrder(c)
      PROVE  FALSE
  <2>1. buyer[c].at \in {"inserted", "paid"}
    BY <1>6 DEF CreatePayment, CommitOrder, RollbackOrder
  <2>2. \E state : Goto(c, state)
    BY <1>6 DEF CreatePayment, CommitOrder, RollbackOrder
  <2> QED
    BY <2>1, <2>2, GotoTypes
<1>7. ASSUME \/ \E i \in Bills, total \in BillTotals,
                   status \in {"SUCCESS", "PENDING"} :
                  CreateInquiry(i, total, status)
             \/ \E s \in Sales : RefundSale(s)
             \/ EditCatalogue \/ UNCHANGED vars
      PROVE  FALSE
  BY <1>7 DEF CreateInquiry, RefundSale, EditCatalogue, vars
<1> QED
  BY <1>2, <1>3, <1>4, <1>5, <1>6, <1>7, NextCases

\* What the page offers the order accepts, but for a total that is exactly a
\* limit, a changed catalogue, or a bill somebody else has paid.
THEOREM Storefront_Accepts == Spec => OfferedIsAccepted
<1>1. TypeOK /\ Quotes /\ [Next]_vars =>
        [\A b \in Buyers :
           /\ buyer[b].at \in {"found", "priced"}
           /\ buyer'[b].at = "done"
           /\ buyer[b].quote # NotOffered
           /\ b \notin changed
           => \/ Sold(buyer[b].bought)
              \/ /\ buyer[b].at = "priced"
                 /\ buyer[b].quote \in {buyer[b].by.min, buyer[b].by.max}]_vars
  BY StepAccepts DEF Refused
<1> QED
  BY <1>1, QuotesHold, PTL DEF Spec, OfferedIsAccepted

=============================================================================
