--------------------------- MODULE MCTransaction ---------------------------
(***************************************************************************)
(* Transaction with one order, of a user or of a guest, two requests at a  *)
(* time and two jobs; with an administrator for safety, without for        *)
(* liveness, where an order an administrator touched is excused anyway.    *)
(***************************************************************************)
EXTENDS Transaction, TLC

CONSTANTS t1, r1, r2, j1, j2

MCTrx == {t1}
MCRequests == {r1, r2}
MCJobs == {j1, j2}

\* Requests are alike, and so are jobs.
MCSymmetry == Permutations(MCRequests) \cup Permutations(MCJobs)

\* An administrator marks an order as paid, or as to be refunded.
MCAdminChanges ==
  {[paidStatus |-> "PAID"],
   [isRefunded |-> TRUE, refundStatus |-> "PROCESS"]}

=============================================================================
