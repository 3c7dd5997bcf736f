---------------------------- MODULE AtomicOrder ----------------------------
(***************************************************************************)
(* What the shop promises about an order, whichever handler acts for it:   *)
(* the money comes in or is refused, the shop accepts the order, asks the  *)
(* supplier for the goods once, tells the customer what the supplier did,  *)
(* and returns the money of a rejected order once.                         *)
(*                                                                         *)
(* Three exceptions are part of the promise.  An administrator may accept  *)
(* an order, or say of it, what he likes, and after that its goods and its *)
(* returns are his.  A crash may make the shop forget that it has returned *)
(* the money.  And the shop may mishear a supplier who has not rejected.   *)
(*                                                                         *)
(* Transaction implements this.                                            *)
(***************************************************************************)
EXTENDS Naturals

CONSTANT Orders

VARIABLES
  money,     \* what the payment provider or the balance did
  accepted,  \* orders the shop takes for paid
  goods,     \* what the supplier did
  told,      \* what the shop says of the order
  returns,   \* how often the money was returned
  touched,   \* orders an administrator changed
  forgotten, \* orders whose return a crash made the shop forget
  misheard   \* orders the shop called rejected although the supplier did not

vars == <<money, accepted, goods, told, returns, touched, forgotten, misheard>>

Ends == {"delivered", "rejected"}

Init ==
  /\ money = [o \in Orders |-> "none"]
  /\ accepted = {}
  /\ goods = [o \in Orders |-> "none"]
  /\ told = [o \in Orders |-> "open"]
  /\ returns = [o \in Orders |-> 0]
  /\ touched = {}
  /\ forgotten = {}
  /\ misheard = {}

Pay(o) ==
  /\ money[o] = "none"
  /\ \E outcome \in {"in", "refused"} :
       money' = [money EXCEPT ![o] = outcome]
  /\ UNCHANGED <<accepted, goods, told, returns, touched, forgotten, misheard>>

Accept(o) ==
  /\ money[o] = "in"
  /\ accepted' = accepted \cup {o}
  /\ UNCHANGED <<money, goods, told, returns, touched, forgotten, misheard>>

\* The customer takes the order back: nothing was paid, and nothing will be.
Cancel(o) ==
  /\ money[o] = "refused"
  /\ told' = [told EXCEPT ![o] = "canceled"]
  /\ UNCHANGED <<money, accepted, goods, returns, touched, forgotten, misheard>>

\* The supplier delivers or rejects at once, or keeps the order waiting.
Ask(o) ==
  /\ goods[o] = "none"
  /\ o \in accepted \cup touched
  /\ \E answer \in {"asked"} \cup Ends :
       goods' = [goods EXCEPT ![o] = answer]
  /\ UNCHANGED <<money, accepted, told, returns, touched, forgotten, misheard>>

Settle(o) ==
  /\ goods[o] = "asked"
  /\ \E end \in Ends : goods' = [goods EXCEPT ![o] = end]
  /\ UNCHANGED <<money, accepted, told, returns, touched, forgotten, misheard>>

\* The shop may fall back to saying nothing: an answer may arrive late.
Tell(o) ==
  /\ goods[o] # "none"
  /\ \E word \in {"open"} \cup ({goods[o]} \cap Ends) :
       told' = [told EXCEPT ![o] = word]
  /\ UNCHANGED <<money, accepted, goods, returns, touched, forgotten, misheard>>

\* The supplier has not rejected the order, but the shop says so.  Nothing is
\* returned for it, and a later answer may put it right.
Mishear(o) ==
  /\ goods[o] \notin {"none", "rejected"}
  /\ told' = [told EXCEPT ![o] = "rejected"]
  /\ misheard' = misheard \cup {o}
  /\ UNCHANGED <<money, accepted, goods, returns, touched, forgotten>>

MayReturn(o) ==
  \/ o \in touched
  \/ goods[o] = "rejected" /\ (returns[o] = 0 \/ o \in forgotten)

Return(o) ==
  /\ MayReturn(o)
  /\ returns' = [returns EXCEPT ![o] = @ + 1]
  /\ UNCHANGED <<money, accepted, goods, told, touched, forgotten, misheard>>

\* An administrator changes the order, or a handler writes to one he changed.
Interfere(o) ==
  /\ touched' = touched \cup {o}
  /\ accepted' \in {accepted \cup {o}, accepted \ {o}}
  /\ \E word \in {"open", "canceled"} \cup Ends :
       told' = [told EXCEPT ![o] = word]
  /\ UNCHANGED <<money, goods, returns, forgotten, misheard>>

\* One crash may hit the returns of several orders.
Forget(orders) ==
  /\ forgotten' = forgotten \cup orders
  /\ UNCHANGED <<money, accepted, goods, told, returns, touched, misheard>>

Next ==
  \/ \E orders \in SUBSET Orders : Forget(orders)
  \/ \E o \in Orders :
       \/ Pay(o) \/ Accept(o) \/ Cancel(o)
       \/ Ask(o) \/ Settle(o) \/ Tell(o) \/ Mishear(o)
       \/ Return(o)
       \/ Interfere(o)

Spec == Init /\ [][Next]_vars

\* What follows from the promise, for an order no administrator changed: goods
\* are asked for only if the order was accepted, and it was accepted only if
\* the money came in; what the shop says is true, unless it says that an order
\* is rejected and has misheard; a cancelled order was not paid; the money is
\* returned only if the supplier rejected, and once.
Honest ==
  \A o \in Orders \ touched :
    /\ o \in accepted => money[o] = "in"
    /\ goods[o] # "none" => o \in accepted
    /\ told[o] \in Ends =>
         goods[o] = told[o] \/ (told[o] = "rejected" /\ o \in misheard)
    /\ told[o] = "canceled" => money[o] = "refused"
    /\ returns[o] > 0 => goods[o] = "rejected"
    /\ returns[o] > 1 => o \in forgotten

\* What never changes again for such an order: that it was accepted, that it
\* was delivered or rejected, and that it was cancelled.
Final ==
  [][\A o \in Orders : o \notin touched' =>
       /\ o \in accepted => o \in accepted'
       /\ goods[o] \in Ends => goods'[o] = goods[o]
       /\ told[o] = "canceled" => told'[o] = "canceled"]_vars

\* The returns alone keep the promise of PayOnce.
Payouts == INSTANCE PayOnce WITH
  Items <- Orders,
  entitled <- {o \in Orders : goods[o] = "rejected"},
  waived <- touched \cup forgotten,
  payouts <- returns

ReturnsOnce == Payouts!Spec

=============================================================================
