----------------------------- MODULE MCCheckout -----------------------------
(***************************************************************************)
(* Checkout of one product by three calls that share a pool of two         *)
(* connections: two calls can hold all of it and wait for a third.         *)
(***************************************************************************)
EXTENDS Checkout

CONSTANTS p1, o1, o2, o3

MCProducts == {p1}
MCOrders == {o1, o2, o3}
MCQuantities == {1, 2}
MCInitialStock == [p \in MCProducts |-> 2]
MCSupplies == {0, 3}

=============================================================================
