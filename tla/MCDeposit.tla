----------------------------- MODULE MCDeposit -----------------------------
(***************************************************************************)
(* Deposit with one deposit, two requests at a time, two jobs and two      *)
(* crashes: deposits share nothing but the slots of the consumer.          *)
(***************************************************************************)
EXTENDS Deposit

CONSTANTS d1, r1, r2, j1, j2

MCDeposits == {d1}
MCRequests == {r1, r2}
MCJobs == {j1, j2}

\* What an administrator sets to repair a deposit.
MCAdminStatuses == {"PENDING", "PROCESS", "SUCCESS"}

=============================================================================
