--------------------------- MODULE AtomicBalance ---------------------------
(***************************************************************************)
(* addBalance and deductBalance as their callers think of them: a call is  *)
(* one step.  It moves the balance by its amount and adds its row, once,   *)
(* or it is refused because the balance does not cover it, or it fails     *)
(* and leaves no trace.                                                    *)
(*                                                                         *)
(* What a caller cannot rely on is part of the promise.  For a user two of *)
(* whose deductions overlapped, a deduction may take more than there is.   *)
(* For a user any two of whose calls overlapped, the row of a call may     *)
(* start from a balance that is no longer the last one; but it is one the  *)
(* account had.                                                            *)
(*                                                                         *)
(* BalanceService implements this.                                         *)
(***************************************************************************)
EXTENDS Integers, Sequences

CONSTANTS Users, Calls, Amounts, InitialBalance

VARIABLES
  balance,     \* what every user has
  past,        \* the balances every user has had, this one included
  mutations,   \* the rows of every user's ledger
  outcome,     \* what became of every call
  overlapped,  \* users two of whose calls overlapped
  contended    \* users two of whose deductions overlapped

vars == <<balance, past, mutations, outcome, overlapped, contended>>

Init ==
  /\ balance = InitialBalance
  /\ past = [u \in Users |-> {InitialBalance[u]}]
  /\ mutations = [u \in Users |-> << >>]
  /\ outcome = [c \in Calls |-> "pending"]
  /\ overlapped = {}
  /\ contended = {}

Ends(c, how) ==
  /\ outcome[c] = "pending"
  /\ outcome' = [outcome EXCEPT ![c] = how]

\* The balance of u becomes left, and a row records the move.
Post(u, type, amount, left) ==
  /\ balance' = [balance EXCEPT ![u] = left]
  /\ past' = [past EXCEPT ![u] = @ \cup {left}]
  /\ \E seen \in past[u] :
       /\ u \notin overlapped => seen = balance[u]
       /\ mutations' = [mutations EXCEPT ![u] =
            Append(@, [type |-> type, amount |-> amount, oldBalance |-> seen,
                       newBalance |-> seen + (left - balance[u])])]
  /\ UNCHANGED <<overlapped, contended>>

Add(c, u, amount) ==
  /\ Ends(c, "done")
  /\ Post(u, "IN", amount, balance[u] + amount)

Deduct(c, u, amount) ==
  /\ u \notin contended => balance[u] >= amount
  /\ Ends(c, "done")
  /\ Post(u, "OUT", amount, balance[u] - amount)

Refuse(c, u, amount) ==
  /\ balance[u] < amount
  /\ Ends(c, "refused")
  /\ UNCHANGED <<balance, past, mutations, overlapped, contended>>

Fail(c) ==
  /\ Ends(c, "failed")
  /\ UNCHANGED <<balance, past, mutations, overlapped, contended>>

\* Calls of a user come to overlap; nothing else happens.
Overlap(u) ==
  /\ overlapped' = overlapped \cup {u}
  /\ contended' \in {contended, contended \cup {u}}
  /\ UNCHANGED <<balance, past, mutations, outcome>>

Next ==
  \/ \E c \in Calls, u \in Users, amount \in Amounts :
       Add(c, u, amount) \/ Deduct(c, u, amount) \/ Refuse(c, u, amount)
  \/ \E c \in Calls : Fail(c)
  \/ \E u \in Users : Overlap(u)

Spec == Init /\ [][Next]_vars

\* What follows from the promise: the balance moves by what the rows say, no
\* deduction alone takes what is not there, and the statement of an account
\* whose calls do not overlap tells its history.
Solvent ==
  \A u \in Users \ contended : balance[u] >= 0

Truthful ==
  \A u \in Users : \A i \in 1..Len(mutations[u]) :
    LET row == mutations[u][i]
    IN /\ row.newBalance - row.oldBalance =
            IF row.type = "IN" THEN row.amount ELSE -row.amount
       /\ row.oldBalance \in past[u]
       /\ u \notin overlapped => row.newBalance \in past[u]

=============================================================================
