----------------------------- MODULE Catalogue -----------------------------
(***************************************************************************)
(* The catalogue behind the shop, for one product and one payment method:  *)
(* ProductsService (create, update, delete), AutoService.getDigiflazzProduct *)
(* (the sync with the supplier) and PaymentMethodService.                  *)
(*                                                                         *)
(* An update whose price is not a whole number, or NaN because a part of   *)
(* the formula was not sent, is rejected by the database and changes       *)
(* nothing; the sync ends at the first such product.  Those calls take no  *)
(* step here.                                                              *)
(***************************************************************************)
EXTENDS Pricing

CONSTANTS
  Costs,           \* prices in the supplier's price list
  NewProducts,     \* what an administrator may send for a new product
  ProductUpdates,  \* and for one that exists: records of some fields
  Methods,         \* what the payment method may be
  MaxEdits         \* BOUND: changes of the catalogue

Kinds == {"SALDO", "PROVIDER"}

\* A row of payment_method; open: isAvailable, with access TRANSACTION.
Method == [kind : Kinds, open : BOOLEAN, fees : Nat, pct : 0..99,
           min : Nat, max : Nat]

\* The supplier's prices are positive.  What an administrator sends is any
\* number: the DTOs of a product ask for numbers, negative ones included
\* (fractions do not pass the database).  The numbers of a payment method are
\* assumed to make sense; its DTO does not ask for that either.
ASSUME CatalogueAssumption ==
  /\ Costs \subseteq Nat \ {0}
  /\ NewProducts \subseteq [cost : Int, profit : Int, pct : Int]
  /\ Methods \subseteq Method /\ MaxEdits \in Nat
ASSUME UpdatesAssumption ==
  \A data \in ProductUpdates :
    /\ \A f \in {"cost", "profit", "pct"} \cap DOMAIN data : data[f] \in Int
    /\ "open" \in DOMAIN data => data.open \in BOOLEAN

VARIABLES
  product,  \* the product, or where it is not
  method,   \* the payment method; "gone" once deleted
  risk,     \* history: why the price may be below the cost
  edits     \* changes so far

catalogue == <<product, method, risk, edits>>

Product == [at : {"none", "listed", "deleted"}, open : BOOLEAN, cost : Int,
            profit : Int, pct : Int, price : Int]

\* "negative": the price was computed from a negative number; "stale": the
\* cost was changed after that and the price was not.
Risks == {"negative", "stale"}

RiskOf(cost, profit, pct) ==
  IF {cost, profit, pct} \subseteq Nat THEN {} ELSE {"negative"}

NoProduct == [at |-> "none", open |-> FALSE, cost |-> 0, profit |-> 0,
              pct |-> 0, price |-> 0]

CatalogueTypeOK ==
  /\ product \in Product
  /\ method \in Methods \cup {[kind |-> "gone"]}
  /\ risk \subseteq Risks
  /\ edits \in 0..MaxEdits

CatalogueInit ==
  /\ product = NoProduct
  /\ method \in {m \in Methods : m.open}
  /\ risk = {}
  /\ edits = 0

Edit == edits < MaxEdits /\ edits' = edits + 1

-----------------------------------------------------------------------------

\* ProductsService.create; the defaults of the DTO make every part a number.
CreateProduct(new) ==
  /\ product.at = "none"
  /\ WholePercent(new.cost, new.pct)
  /\ product' = [at |-> "listed", open |-> TRUE, cost |-> new.cost,
                 profit |-> new.profit, pct |-> new.pct,
                 price |-> PriceOf(new.cost, new.profit, new.pct)]
  /\ risk' = RiskOf(new.cost, new.profit, new.pct)
  /\ UNCHANGED <<method, edits>>

\* Which fields of the update are there, as the code asks: neither absent nor
\* 0 (both are falsy).
Truthy(data, field) == field \in DOMAIN data /\ data[field] # 0

\* The price follows if cost and one part of the profit are sent...
PriceThere(data) ==
  Truthy(data, "cost") /\ (Truthy(data, "profit") \/ Truthy(data, "pct"))

\* ...and is a number only if both parts are.
PriceIsWhole(data) ==
  /\ {"cost", "profit", "pct"} \subseteq DOMAIN data
  /\ WholePercent(data.cost, data.pct)

\* Every field sent is written; a stale price becomes right again only with
\* all parts of it.
UpdateProduct(data) ==
  LET sent(f) == IF f \in DOMAIN data THEN data[f] ELSE product[f]
      newPrice == PriceThere(data)
  IN /\ product.at = "listed"
     /\ Edit
     /\ newPrice => PriceIsWhole(data)
     /\ product' = [product EXCEPT
          !.cost = sent("cost"), !.profit = sent("profit"),
          !.pct = sent("pct"), !.open = sent("open"),
          !.price = IF newPrice
                      THEN PriceOf(data.cost, data.profit, data.pct) ELSE @]
     /\ risk' = IF newPrice THEN RiskOf(data.cost, data.profit, data.pct)
                ELSE risk \cup {r \in {"stale"} : "cost" \in DOMAIN data}
     /\ UNCHANGED method

\* The foreign key of the inquiries (NO ACTION) refuses the deletion of a
\* product they refer to.
DeleteProduct(referred) ==
  /\ product.at = "listed"
  /\ ~referred
  /\ Edit
  /\ product' = [NoProduct EXCEPT !.at = "deleted"]
  /\ UNCHANGED <<method, risk>>

\* Mutant: the sync leaves the price to the administrator.
SyncCostOnly(cost) ==
  /\ WholePercent(cost, TierPercent(cost))
  /\ product.at = "listed"
  /\ Edit
  /\ product' = [product EXCEPT !.cost = cost]
  /\ risk' = {}
  /\ UNCHANGED method

\* The upsert of the sync: cost and price change together, profit and pct of a
\* product that exists are left alone.
SyncProduct(cost) ==
  LET price == PriceOf(cost, 0, TierPercent(cost))
  IN /\ WholePercent(cost, TierPercent(cost))
     /\ \/ /\ product.at = "listed"
           /\ Edit
           /\ product' = [product EXCEPT !.cost = cost, !.price = price]
        \/ /\ product.at = "none"
           /\ product' = [at |-> "listed", open |-> TRUE, cost |-> cost,
                          profit |-> 0, pct |-> TierPercent(cost),
                          price |-> price]
           /\ UNCHANGED edits
     /\ risk' = {}
     /\ UNCHANGED method

\* The row is looked up first; that changes nothing, the update is one call.
UpdatePaymentMethod(new) ==
  /\ method.kind # "gone"
  /\ Edit
  /\ method' = new
  /\ UNCHANGED <<product, risk>>

\* Orders keep their copy of its name and type; the reference becomes NULL.
DeletePaymentMethod ==
  /\ method.kind # "gone"
  /\ Edit
  /\ method' = [kind |-> "gone"]
  /\ UNCHANGED <<product, risk>>

=============================================================================
