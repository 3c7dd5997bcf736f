-------------------------- MODULE MCBalanceService --------------------------
(***************************************************************************)
(* BalanceService with two users and three or four calls: enough for two   *)
(* overlapping deductions of one user, a credit that overlaps them, and    *)
(* calls of another user that must not be disturbed.  And the charts of a  *)
(* user, on each day of four years, a leap year among them.  The ledger    *)
(* and the charts share nothing, so a behaviour is about one of them.      *)
(***************************************************************************)
EXTENDS BalanceService, Charts, TLC

CONSTANTS u1, u2, k1, k2, k3

VARIABLE focus

MCUsers == {u1, u2}

MCCalls == {k1, k2, k3}

MCAmounts == {1, 3}

\* u1 can afford one large deduction, u2 none.
MCInitialBalance == u1 :> 4 @@ u2 :> 1

MCInit ==
  /\ focus \in {"ledger", "charts"}
  /\ Init /\ ChartsInit

InLedger == focus = "ledger" /\ UNCHANGED <<focus, today>>
InCharts == focus = "charts" /\ UNCHANGED <<focus, vars>>

\* Next and NextDay, disjunct by disjunct, so that TLC counts each.
MCNext ==
  \/ \E c \in Calls, u \in Users, amount \in Amounts :
       \/ InLedger /\ AddBalanceRead(c, u, amount)
       \/ InLedger /\ DeductBalanceRead(c, u, amount)
       \/ InLedger /\ DeductBalanceRefused(c, u, amount)
  \/ \E c \in Calls : InLedger /\ Write(c)
  \/ \E c \in Calls : InLedger /\ WriteFails(c)
  \/ InCharts /\ NextDay

Symmetry == Permutations(MCCalls)

=============================================================================
