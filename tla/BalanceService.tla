--------------------------- MODULE BalanceService ---------------------------
(***************************************************************************)
(* BalanceService (src/src/modules/payment/providers/balance/              *)
(* balance.service.ts): the account balance of every user and its ledger,  *)
(* the BalanceMutation table.                                              *)
(*                                                                         *)
(* addBalance and deductBalance are asynchronous.  Each reads the balance  *)
(* (getBalance), awaits, and then issues one Prisma write that increments  *)
(* or decrements the column and inserts a ledger row in one database       *)
(* transaction.  The value read is used after the await: for the check     *)
(* "Balance is not enough" and for oldBalance and newBalance of the row.   *)
(* Nothing orders the calls of two requests or jobs, so the model has one  *)
(* process per call and two steps per call.                                *)
(***************************************************************************)
EXTENDS Integers, FiniteSets, Sequences

CONSTANTS
  Users,           \* rows of the User table
  Calls,           \* calls of addBalance and deductBalance, each made once
  Amounts,         \* what a call may add or deduct
  InitialBalance   \* User.balance before the first call

\* Prices, fees and deposits are whole rupiah (Int columns) and not negative,
\* and an account is opened with a balance that is not negative.
ASSUME AmountsAssumption == Amounts \subseteq Nat
ASSUME InitialAssumption == InitialBalance \in [Users -> Nat]

\* There are some calls, finitely many, and an amount fits its Int column, so
\* one of the amounts is the largest.
ASSUME CallsAssumption == IsFiniteSet(Calls) /\ Calls # {}
ASSUME LargestAssumption == \E a \in Amounts : \A b \in Amounts : b <= a

VARIABLES
  balance,     \* User.balance
  mutations,   \* BalanceMutation rows of each user, in the order committed
  call,        \* how far each call is, and what it read
  overlapped,  \* history: users two of whose calls overlapped
  contended    \* history: users two of whose deductions overlapped

vars == <<balance, mutations, call, overlapped, contended>>

MutationType == {"IN", "OUT"}

Mutation == [type : MutationType, amount : Amounts,
             oldBalance : Int, newBalance : Int]

\* "reading" is the time between the await of getBalance and the write.
Call == [at : {"idle", "refused", "failed", "done"}] \cup
        [at : {"reading"}, user : Users, type : MutationType,
         amount : Amounts, read : Int]

Reading(u) == {c \in Calls : call[c].at = "reading" /\ call[c].user = u}

Deducting(u) == {c \in Reading(u) : call[c].type = "OUT"}

Signed(type, amount) == IF type = "IN" THEN amount ELSE -amount

-----------------------------------------------------------------------------

Init ==
  /\ balance = InitialBalance
  /\ mutations = [u \in Users |-> << >>]
  /\ call = [c \in Calls |-> [at |-> "idle"]]
  /\ overlapped = {}
  /\ contended = {}

\* getBalance has answered and the caller holds what it read.
GetBalance(c, u, type, amount) ==
  /\ call[c].at = "idle"
  /\ call' = [call EXCEPT ![c] = [at |-> "reading", user |-> u, type |-> type,
                                  amount |-> amount, read |-> balance[u]]]
  /\ overlapped' = IF Reading(u) = {} THEN overlapped ELSE overlapped \cup {u}
  /\ contended' = IF type = "IN" \/ Deducting(u) = {}
                    THEN contended ELSE contended \cup {u}
  /\ UNCHANGED <<balance, mutations>>

\* Nothing is checked before an amount is added.
AddBalanceRead(c, u, amount) == GetBalance(c, u, "IN", amount)

\* Mutant: the guard of deductBalance is left out.
DeductBalanceUnchecked(c, u, amount) == GetBalance(c, u, "OUT", amount)

\* deductBalance goes on when the balance it read covers the amount...
DeductBalanceRead(c, u, amount) ==
  /\ balance[u] >= amount
  /\ GetBalance(c, u, "OUT", amount)

\* ...and throws "Balance is not enough" otherwise.
DeductBalanceRefused(c, u, amount) ==
  /\ call[c].at = "idle"
  /\ balance[u] < amount
  /\ call' = [call EXCEPT ![c] = [at |-> "refused"]]
  /\ UNCHANGED <<balance, mutations, overlapped, contended>>

\* The balance a call expects to leave behind, from what it read.
NewBalance(k) == k.read + Signed(k.type, k.amount)

\* Mutants of LedgerRow: newBalance adds for a deduction as well; the amount
\* of a deduction is stored with its sign.
LedgerRowAdded(k) ==
  [type |-> k.type, amount |-> k.amount,
   oldBalance |-> k.read, newBalance |-> k.read + k.amount]
LedgerRowSigned(k) ==
  [type |-> k.type, amount |-> Signed(k.type, k.amount),
   oldBalance |-> k.read, newBalance |-> NewBalance(k)]

\* The BalanceMutation row a call creates.
LedgerRow(k) ==
  [type |-> k.type, amount |-> k.amount,
   oldBalance |-> k.read, newBalance |-> NewBalance(k)]

\* Mutant of Moved: the column is set to the newBalance of the row.
MovedAbsolute(k) == NewBalance(k)

\* increment or decrement: relative to the column as it is now.
Moved(k) == balance[k.user] + Signed(k.type, k.amount)

\* user.update with the nested create: the column and the row change in one
\* database transaction.
Write(c) ==
  LET k == call[c]
  IN /\ call[c].at = "reading"
     /\ balance' = [balance EXCEPT ![k.user] = Moved(k)]
     /\ mutations' = [mutations EXCEPT ![k.user] = Append(@, LedgerRow(k))]
     /\ call' = [call EXCEPT ![c] = [at |-> "done"]]
     /\ UNCHANGED <<overlapped, contended>>

\* The database refuses the write, or the process ends before it.
WriteFails(c) ==
  /\ call[c].at = "reading"
  /\ call' = [call EXCEPT ![c] = [at |-> "failed"]]
  /\ UNCHANGED <<balance, mutations, overlapped, contended>>

Next ==
  \E c \in Calls :
    \/ \E u \in Users, amount \in Amounts :
         \/ AddBalanceRead(c, u, amount)
         \/ DeductBalanceRead(c, u, amount)
         \/ DeductBalanceRefused(c, u, amount)
    \/ Write(c)
    \/ WriteFails(c)

Spec == Init /\ [][Next]_vars

-----------------------------------------------------------------------------

\* Every variable has its type: balances may be negative, they are Ints.
TypeOK ==
  /\ balance \in [Users -> Int]
  /\ mutations \in [Users -> Seq(Mutation)]
  /\ call \in [Calls -> Call]
  /\ overlapped \subseteq Users
  /\ contended \subseteq Users

\* What the first n rows of a ledger add up to, for every n.
Totals(rows) ==
  LET total[n \in 0..Len(rows)] ==
        IF n = 0 THEN 0
        ELSE total[n - 1] + Signed(rows[n].type, rows[n].amount)
  IN  total

\* What the rows of a user add up to.
LedgerTotal(u) == Totals(mutations[u])[Len(mutations[u])]

\* No update is lost however the calls interleave: the balance of a user is
\* always the opening balance plus the IN rows minus the OUT rows, although
\* every call works from a balance that may be stale (increment/decrement at
\* balance.service.ts:36 and :74).
LedgerExplainsBalance ==
  \A u \in Users : balance[u] = InitialBalance[u] + LedgerTotal(u)

\* Row i of user u starts from the balance the row before it ended with.
ChainsAt(u, i) ==
  mutations[u][i].oldBalance =
    IF i = 1 THEN InitialBalance[u] ELSE mutations[u][i - 1].newBalance

\* What the statement of user u shows as the current balance.
StatementBalance(u) ==
  IF mutations[u] = << >> THEN InitialBalance[u]
  ELSE mutations[u][Len(mutations[u])].newBalance

\* A user's statement (oldBalance/newBalance of the rows, written from the
\* balance read before the await) is consistent row by row and ends with the
\* real balance, unless two calls of that user overlapped.
StatementHoldsUnlessOverlapped ==
  \A u \in Users \ overlapped :
    /\ StatementBalance(u) = balance[u]
    /\ \A i \in 1..Len(mutations[u]) : ChainsAt(u, i)

\* The check of deductBalance keeps the balance from going below zero as long
\* as no two deductions of the user overlap; credits may overlap freely.
NoOverdraftUnlessContended ==
  \A u \in Users \ contended : balance[u] >= 0

LargestAmount == CHOOSE a \in Amounts : \A b \in Amounts : b <= a

\* When deductions do overlap, the debt is at most what all the calls but one
\* may ask for: the first deduction to be written was covered.
DebtBoundedByOverlap ==
  \A u \in Users :
    balance[u] >= -((Cardinality(Calls) - 1) * LargestAmount)

\* The balances the account of u has had, as its rows tell.
Past(u) == {InitialBalance[u] + Totals(mutations[u])[n] :
              n \in 0..Len(mutations[u])}

\* What became of a call: one that has only read is yet to happen.
Outcome(c) ==
  IF call[c].at \in {"idle", "reading"} THEN "pending" ELSE call[c].at

\* The calls seen as single steps.
Atomic == INSTANCE AtomicBalance WITH
  past <- [u \in Users |-> Past(u)],
  outcome <- [c \in Calls |-> Outcome(c)]

\* Every call takes effect at once, when it writes, although it looked at the
\* balance earlier: a deduction is covered then, unless deductions of the user
\* overlapped, and its row starts from a balance the account had, the last one
\* unless calls of the user overlapped (balance.service.ts:19-51, 53-91).
ActsAtomically == Atomic!Spec

\* What the guard of deductBalance says: an amount the balance does not cover
\* is refused ("Balance is not enough"), so no balance is ever negative.
NoOverdraft == \A u \in Users : balance[u] >= 0

=============================================================================
