-------------------------------- MODULE Shop --------------------------------
(***************************************************************************)
(* What the shop shows: the storefront and the lists.  They share nothing, *)
(* so a behaviour is about one of them, and the other one stays as it was. *)
(***************************************************************************)
EXTENDS Storefront, Listing

VARIABLE focus  \* which of the two the behaviour is about

shopVars == <<focus, vars, listVars>>

ShopInit ==
  /\ focus \in {"storefront", "lists"}
  /\ Init /\ ListInit

InShop == focus = "storefront" /\ UNCHANGED <<focus, listVars>>
InLists == focus = "lists" /\ UNCHANGED <<focus, vars>>

\* Next and ListNext, disjunct by disjunct, so that TLC counts each.
ShopNext ==
  \/ \E b \in Buyers, quantity \in Quantities : InShop /\ ViewProduct(b, quantity)
  \/ \E b \in Buyers, i \in Bills : InShop /\ ViewInquiry(b, i)
  \/ \E b \in Buyers : InShop /\ ShowMethods(b)
  \/ \E b \in Buyers : InShop /\ FindProduct(b)
  \/ \E b \in Buyers : InShop /\ FindInquiry(b)
  \/ \E b \in Buyers : InShop /\ FindPaymentMethod(b)
  \/ \E b \in Buyers : InShop /\ RefuseMethod(b)
  \/ \E b \in Buyers : InShop /\ InsertOrder(b)
  \/ \E b \in Buyers : InShop /\ InsertRefused(b)
  \/ \E b \in Buyers : InShop /\ CreatePayment(b)
  \/ \E b \in Buyers : InShop /\ CommitOrder(b)
  \/ \E b \in Buyers : InShop /\ RollbackOrder(b)
  \/ \E i \in Bills, total \in BillTotals, status \in {"SUCCESS", "PENDING"} :
       InShop /\ CreateInquiry(i, total, status)
  \/ \E s \in Sales : InShop /\ RefundSale(s)
  \/ InShop /\ EditCatalogue
  \/ \E list \in Lists, order \in {"any", "newest", "oldest"} :
       InLists /\ OpenList(list, order)
  \/ InLists /\ CountRows
  \/ InLists /\ FindRows
  \/ InLists /\ TurnPage
  \/ InLists /\ CloseList
  \/ InLists /\ CreateRow
  \/ \E row \in 1..MaxRows : InLists /\ DeleteRow(row)

ShopSpec == ShopInit /\ [][ShopNext]_shopVars

\* The types of both.
ShopTypeOK == TypeOK /\ ListTypeOK

=============================================================================
