------------------------------ MODULE PayOnce ------------------------------
(***************************************************************************)
(* What the shop promises about money it pays into a balance: an item (a   *)
(* deposit, an order) that becomes entitled to a payout gets it at most    *)
(* once.  An item for which the promise is waived (an administrator acts,  *)
(* or the queue runs a job again after its payout) may get more.           *)
(*                                                                         *)
(* Deposit implements this for the credit of a deposit, Transaction for    *)
(* the refund of an order.                                                 *)
(***************************************************************************)
EXTENDS Naturals

CONSTANT Items

VARIABLES
  entitled,  \* items the outside world settled so that they may be paid out
  waived,    \* items the promise no longer covers
  payouts    \* payouts made for each item

vars == <<entitled, waived, payouts>>

TypeOK ==
  /\ entitled \subseteq Items
  /\ waived \subseteq Items
  /\ payouts \in [Items -> Nat]

Init ==
  /\ entitled = {}
  /\ waived = {}
  /\ payouts = [i \in Items |-> 0]

\* A provider settles an item; it never takes that back.
Entitle(i) ==
  /\ entitled' = entitled \cup {i}
  /\ UNCHANGED <<waived, payouts>>

\* One step may waive the promise for several items: a crash hits all jobs.
Waive(items) ==
  /\ waived' = waived \cup items
  /\ UNCHANGED <<entitled, payouts>>

MayPay(i) == i \in waived \/ (i \in entitled /\ payouts[i] = 0)

Payout(i) ==
  /\ MayPay(i)
  /\ payouts' = [payouts EXCEPT ![i] = @ + 1]
  /\ UNCHANGED <<entitled, waived>>

Next ==
  \/ \E i \in Items : Entitle(i) \/ Payout(i)
  \/ \E items \in SUBSET Items : Waive(items)

Spec == Init /\ [][Next]_vars

\* What follows from the promise: an item it still covers is paid out at most
\* once, and only if it was entitled to it.
PaidOnce ==
  \A i \in Items \ waived :
    payouts[i] <= 1 /\ (payouts[i] = 1 => i \in entitled)

=============================================================================
