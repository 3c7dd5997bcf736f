------------------------ MODULE BalanceServiceProofs ------------------------
(***************************************************************************)
(* Theorems about BalanceService, for any users, calls, amounts and        *)
(* opening balances that satisfy its assumptions.                          *)
(*                                                                         *)
(* StatementHoldsUnlessOverlapped and NoOverdraftUnlessContended are not   *)
(* inductive: they say nothing of the calls that have read the balance and *)
(* not written yet.  AloneInv and CoveredInv add what such a call knows.   *)
(* LedgerExplainsBalance is inductive; its proof needs what a sum is.      *)
(***************************************************************************)
EXTENDS BalanceService, FiniteSetTheorems, WellFoundedInduction, TLAPS

\* A write that increments by a row's signed amount keeps the column an Int.
LEMMA SignedIsInt ==
  ASSUME NEW type \in MutationType, NEW amount \in Amounts
  PROVE  Signed(type, amount) \in Int
BY AmountsAssumption DEF Signed, MutationType

\* What a call in flight holds.
LEMMA ReadingCall ==
  ASSUME TypeOK, NEW c \in Calls, call[c].at = "reading"
  PROVE  /\ call[c].user \in Users
         /\ call[c].type \in MutationType
         /\ call[c].amount \in Amounts
         /\ call[c].amount \in Nat
         /\ call[c].read \in Int
         /\ LedgerRow(call[c]) \in Mutation
         /\ Moved(call[c]) \in Int
         /\ NewBalance(call[c]) \in Int
<1>1. call[c] \in Call
  BY DEF TypeOK
<1>2. call[c] \in [at : {"reading"}, user : Users, type : MutationType,
                   amount : Amounts, read : Int]
  BY <1>1 DEF Call
<1>3. Signed(call[c].type, call[c].amount) \in Int
  BY <1>2, SignedIsInt
<1>4. NewBalance(call[c]) \in Int /\ Moved(call[c]) \in Int
  BY <1>2, <1>3 DEF NewBalance, Moved, TypeOK
<1>5. LedgerRow(call[c]) \in Mutation
  BY <1>2, <1>4 DEF LedgerRow, Mutation
<1> QED
  BY <1>2, <1>4, <1>5, AmountsAssumption

-----------------------------------------------------------------------------

\* Whatever is read and written, the variables keep their types.
THEOREM TypeCorrect == Spec => []TypeOK
<1>1. Init => TypeOK
  BY InitialAssumption DEF Init, TypeOK, Call
<1>2. TypeOK /\ [Next]_vars => TypeOK'
  <2> SUFFICES ASSUME TypeOK, [Next]_vars
               PROVE  TypeOK'
    OBVIOUS
  <2>1. ASSUME NEW c \in Calls, NEW u \in Users, NEW type \in MutationType,
               NEW amount \in Amounts, GetBalance(c, u, type, amount)
        PROVE  TypeOK'
    <3>1. call'[c] \in Call
      BY <2>1 DEF GetBalance, TypeOK, Call
    <3> QED
      BY <2>1, <3>1 DEF GetBalance, TypeOK
  <2>2. ASSUME NEW c \in Calls, NEW u \in Users, NEW amount \in Amounts,
               DeductBalanceRefused(c, u, amount)
        PROVE  TypeOK'
    BY <2>2 DEF DeductBalanceRefused, TypeOK, Call
  <2>3. ASSUME NEW c \in Calls, Write(c)
        PROVE  TypeOK'
    <3>1. call[c].at = "reading"
      BY <2>3 DEF Write
    <3>2. /\ call[c].user \in Users
          /\ LedgerRow(call[c]) \in Mutation
          /\ Moved(call[c]) \in Int
      BY <3>1, ReadingCall
    <3>3. balance' \in [Users -> Int]
      BY <2>3, <3>2 DEF Write, TypeOK
    <3>4. mutations' \in [Users -> Seq(Mutation)]
      BY <2>3, <3>2 DEF Write, TypeOK
    <3>5. call' \in [Calls -> Call]
      BY <2>3 DEF Write, TypeOK, Call
    <3> QED
      BY <2>3, <3>3, <3>4, <3>5 DEF Write, TypeOK
  <2>4. ASSUME NEW c \in Calls, WriteFails(c)
        PROVE  TypeOK'
    BY <2>4 DEF WriteFails, TypeOK, Call
  <2>5. CASE UNCHANGED vars
    BY <2>5 DEF vars, TypeOK
  <2> QED
    BY <2>1, <2>2, <2>3, <2>4, <2>5
       DEF Next, AddBalanceRead, DeductBalanceRead, MutationType
<1> QED
  BY <1>1, <1>2, PTL DEF Spec

-----------------------------------------------------------------------------

\* A deduction in flight, of a user whose deductions have not overlapped, is
\* the only one and is still covered: since it was checked the balance can
\* only have grown.
CoveredInv ==
  \A u \in Users \ contended :
    /\ \A c, d \in Deducting(u) : c = d
    /\ \A c \in Deducting(u) : balance[u] >= call[c].amount

NoOverdraftInv == TypeOK /\ NoOverdraftUnlessContended /\ CoveredInv

\* Starting a call: overlapping deductions are recorded, a single one was
\* covered when it was checked.
LEMMA ReadKeepsCover ==
  ASSUME NoOverdraftInv, TypeOK',
         NEW c \in Calls, NEW u \in Users, NEW type \in MutationType,
         NEW amount \in Amounts, GetBalance(c, u, type, amount),
         type = "OUT" => balance[u] >= amount
  PROVE  NoOverdraftUnlessContended' /\ CoveredInv'
<1>1. /\ balance' = balance
      /\ contended \subseteq contended'
  BY DEF GetBalance
<1>2. NoOverdraftUnlessContended'
  BY <1>1 DEF NoOverdraftInv, NoOverdraftUnlessContended
<1>3. \A d \in Calls \ {c} : call'[d] = call[d]
  BY DEF GetBalance, NoOverdraftInv, TypeOK
<1>4. call'[c] = [at |-> "reading", user |-> u, type |-> type,
                  amount |-> amount, read |-> balance[u]]
  BY DEF GetBalance, NoOverdraftInv, TypeOK
<1>5. ASSUME NEW v \in Users \ contended'
      PROVE  /\ \A d, e \in Deducting(v)' : d = e
             /\ \A d \in Deducting(v)' : balance'[v] >= call'[d].amount
  <2>1. CASE v = u /\ type = "OUT"
    <3>1. Deducting(u) = {}
      BY <2>1, <1>5 DEF GetBalance
    <3>2. \A d \in Deducting(u)' : d = c
      BY <3>1, <1>3 DEF Deducting, Reading
    <3> QED
      BY <2>1, <3>2, <1>1, <1>4
  <2>2. CASE v # u \/ type # "OUT"
    <3>1. Deducting(v)' \subseteq Deducting(v) \ {c}
      BY <2>2, <1>3, <1>4 DEF Deducting, Reading, GetBalance
    <3>2. v \in Users \ contended
      BY <1>1, <1>5
    <3> QED
      BY <3>1, <3>2, <1>1, <1>3 DEF NoOverdraftInv, CoveredInv, Deducting, Reading
  <2> QED
    BY <2>1, <2>2
<1> QED
  BY <1>2, <1>5 DEF CoveredInv

\* A call that leaves "reading" without a write leaves fewer deductions in
\* flight and the balance alone.
LEMMA EndKeepsCover ==
  ASSUME NoOverdraftInv, NEW c \in Calls, NEW at \in {"refused", "failed"},
         call' = [call EXCEPT ![c] = [at |-> at]],
         balance' = balance, contended' = contended
  PROVE  NoOverdraftUnlessContended' /\ CoveredInv'
<1>1. \A d \in Calls \ {c} : call'[d] = call[d]
  BY DEF NoOverdraftInv, TypeOK
<1>2. call'[c].at # "reading"
  BY DEF NoOverdraftInv, TypeOK
<1>3. \A u \in Users : Deducting(u)' \subseteq Deducting(u) \ {c}
  BY <1>1, <1>2 DEF Deducting, Reading
<1> QED
  BY <1>1, <1>3
     DEF NoOverdraftInv, NoOverdraftUnlessContended, CoveredInv, Deducting, Reading

\* The write of a covered deduction leaves at least zero, and no other
\* deduction of that user is waiting; a credit only raises the balance.
LEMMA WriteKeepsCover ==
  ASSUME NoOverdraftInv, NEW c \in Calls, Write(c)
  PROVE  NoOverdraftUnlessContended' /\ CoveredInv'
<1> DEFINE k == call[c]
<1>1. call[c].at = "reading"
  BY DEF Write
<1>2. /\ k.user \in Users
      /\ k.type \in MutationType
      /\ k.amount \in Nat
      /\ Moved(k) \in Int
  BY <1>1, ReadingCall DEF NoOverdraftInv
<1>3. /\ balance'[k.user] = Moved(k)
      /\ \A v \in Users \ {k.user} : balance'[v] = balance[v]
      /\ contended' = contended
      /\ \A d \in Calls \ {c} : call'[d] = call[d]
      /\ call'[c].at = "done"
  BY <1>2 DEF Write, NoOverdraftInv, TypeOK
<1>4. \A v \in Users : Deducting(v)' = Deducting(v) \ {c}
  BY <1>3 DEF Deducting, Reading
<1>5. \A v \in Users : balance[v] \in Int
  BY DEF NoOverdraftInv, TypeOK
<1>6. CASE k.type = "IN"
  <2>1. \A v \in Users : balance'[v] >= balance[v]
    BY <1>2, <1>3, <1>5, <1>6 DEF Moved, Signed
  <2>2. \A v \in Users : \A d \in Deducting(v) \ {c} :
           call'[d].amount = call[d].amount /\ call[d].amount \in Nat
    BY <1>3, ReadingCall DEF Deducting, Reading, NoOverdraftInv
  <2>3. \A v \in Users : balance'[v] \in Int
    BY <1>2, <1>3, <1>5
  <2>4. NoOverdraftUnlessContended'
    BY <1>3, <1>5, <2>1, <2>3 DEF NoOverdraftInv, NoOverdraftUnlessContended
  <2>5. CoveredInv'
    BY <1>3, <1>4, <1>5, <2>1, <2>2, <2>3 DEF NoOverdraftInv, CoveredInv
  <2> QED
    BY <2>4, <2>5
<1>7. CASE k.type = "OUT"
  <2> PICK u \in Users : u = k.user
    BY <1>2
  <2>1. c \in Deducting(u)
    BY <1>1, <1>7 DEF Deducting, Reading
  <2>2. ASSUME u \notin contended
        PROVE  balance'[u] >= 0 /\ Deducting(u)' = {}
    <3>1. balance[u] >= k.amount
      BY <1>2, <2>1, <2>2 DEF NoOverdraftInv, CoveredInv
    <3>2. balance'[u] >= 0
      BY <1>2, <1>3, <1>5, <1>7, <3>1 DEF Moved, Signed
    <3>3. Deducting(u) = {c}
      BY <1>2, <2>1, <2>2 DEF NoOverdraftInv, CoveredInv
    <3> QED
      BY <1>2, <1>4, <3>2, <3>3
  <2>3. \A v \in Users \ {u} : c \notin Deducting(v)
    BY DEF Deducting, Reading
  <2>4. NoOverdraftUnlessContended'
    BY <1>3, <2>2 DEF NoOverdraftInv, NoOverdraftUnlessContended
  <2>5. CoveredInv'
    BY <1>3, <1>4, <2>2, <2>3 DEF NoOverdraftInv, CoveredInv, Deducting, Reading
  <2> QED
    BY <2>4, <2>5
<1> QED
  BY <1>2, <1>6, <1>7 DEF MutationType

\* The check of deductBalance covers every deduction that is alone.
LEMMA CoverHolds == Spec => [](NoOverdraftUnlessContended /\ CoveredInv)
<1>1. Init => NoOverdraftUnlessContended /\ CoveredInv
  BY InitialAssumption
     DEF Init, NoOverdraftUnlessContended, CoveredInv, Deducting, Reading
<1>2. /\ TypeOK /\ TypeOK'
      /\ NoOverdraftUnlessContended /\ CoveredInv
      /\ [Next]_vars
      => NoOverdraftUnlessContended' /\ CoveredInv'
  <2> SUFFICES ASSUME TypeOK', NoOverdraftInv, [Next]_vars
               PROVE  NoOverdraftUnlessContended' /\ CoveredInv'
    BY DEF NoOverdraftInv
  <2>1. ASSUME NEW c \in Calls, NEW u \in Users, NEW amount \in Amounts,
               AddBalanceRead(c, u, amount)
        PROVE  NoOverdraftUnlessContended' /\ CoveredInv'
    BY <2>1, ReadKeepsCover DEF AddBalanceRead, MutationType
  <2>2. ASSUME NEW c \in Calls, NEW u \in Users, NEW amount \in Amounts,
               DeductBalanceRead(c, u, amount)
        PROVE  NoOverdraftUnlessContended' /\ CoveredInv'
    BY <2>2, ReadKeepsCover DEF DeductBalanceRead, MutationType
  <2>3. ASSUME NEW c \in Calls, NEW u \in Users, NEW amount \in Amounts,
               DeductBalanceRefused(c, u, amount)
        PROVE  NoOverdraftUnlessContended' /\ CoveredInv'
    BY <2>3, EndKeepsCover DEF DeductBalanceRefused
  <2>4. ASSUME NEW c \in Calls, Write(c)
        PROVE  NoOverdraftUnlessContended' /\ CoveredInv'
    BY <2>4, WriteKeepsCover
  <2>5. ASSUME NEW c \in Calls, WriteFails(c)
        PROVE  NoOverdraftUnlessContended' /\ CoveredInv'
    BY <2>5, EndKeepsCover DEF WriteFails
  <2>6. CASE UNCHANGED vars
    BY <2>6 DEF vars, NoOverdraftInv, NoOverdraftUnlessContended, CoveredInv,
                Deducting, Reading
  <2> QED
    BY <2>1, <2>2, <2>3, <2>4, <2>5, <2>6 DEF Next
<1> QED
  BY <1>1, <1>2, TypeCorrect, PTL DEF Spec

\* deductBalance's check suffices whenever the deductions of a user do not
\* overlap: then no balance is ever negative, whatever the amounts.
THEOREM NoOverdraft_Unless_Contended == Spec => []NoOverdraftUnlessContended
BY CoverHolds, PTL

-----------------------------------------------------------------------------

\* A call in flight, of a user whose calls have not overlapped, is the only one
\* and what it read is still the balance.
AloneInv ==
  \A u \in Users \ overlapped :
    /\ \A c, d \in Reading(u) : c = d
    /\ \A c \in Reading(u) : call[c].read = balance[u]

StatementInv == TypeOK /\ StatementHoldsUnlessOverlapped /\ AloneInv

\* The statement depends on the balance and the rows only.
LEMMA SameStatement ==
  ASSUME StatementHoldsUnlessOverlapped, balance' = balance,
         mutations' = mutations, overlapped \subseteq overlapped'
  PROVE  StatementHoldsUnlessOverlapped'
BY DEF StatementHoldsUnlessOverlapped, StatementBalance, ChainsAt

\* Starting a call: it is alone and has just read the balance, or overlaps.
LEMMA ReadKeepsAlone ==
  ASSUME StatementInv,
         NEW c \in Calls, NEW u \in Users, NEW type \in MutationType,
         NEW amount \in Amounts, GetBalance(c, u, type, amount)
  PROVE  StatementHoldsUnlessOverlapped' /\ AloneInv'
<1>1. /\ balance' = balance
      /\ mutations' = mutations
      /\ overlapped \subseteq overlapped'
  BY DEF GetBalance
<1>2. StatementHoldsUnlessOverlapped'
  BY <1>1, SameStatement DEF StatementInv
<1>3. \A d \in Calls \ {c} : call'[d] = call[d]
  BY DEF GetBalance, StatementInv, TypeOK
<1>4. call'[c] = [at |-> "reading", user |-> u, type |-> type,
                  amount |-> amount, read |-> balance[u]]
  BY DEF GetBalance, StatementInv, TypeOK
<1>5. ASSUME NEW v \in Users \ overlapped'
      PROVE  /\ \A d, e \in Reading(v)' : d = e
             /\ \A d \in Reading(v)' : call'[d].read = balance'[v]
  <2>1. CASE v = u
    <3>1. Reading(u) = {}
      BY <2>1, <1>5 DEF GetBalance
    <3>2. \A d \in Reading(u)' : d = c
      BY <3>1, <1>3 DEF Reading
    <3> QED
      BY <2>1, <3>2, <1>1, <1>4
  <2>2. CASE v # u
    <3>1. Reading(v)' \subseteq Reading(v) \ {c}
      BY <2>2, <1>3, <1>4 DEF Reading
    <3>2. v \in Users \ overlapped
      BY <1>1, <1>5
    <3> QED
      BY <3>1, <3>2, <1>1, <1>3 DEF StatementInv, AloneInv, Reading
  <2> QED
    BY <2>1, <2>2
<1> QED
  BY <1>2, <1>5 DEF AloneInv

\* A call that ends without a write leaves balance and rows alone.
LEMMA EndKeepsAlone ==
  ASSUME StatementInv, NEW c \in Calls, NEW at \in {"refused", "failed"},
         call' = [call EXCEPT ![c] = [at |-> at]],
         UNCHANGED <<balance, mutations, overlapped>>
  PROVE  StatementHoldsUnlessOverlapped' /\ AloneInv'
<1>1. \A d \in Calls \ {c} : call'[d] = call[d]
  BY DEF StatementInv, TypeOK
<1>2. call'[c].at # "reading"
  BY DEF StatementInv, TypeOK
<1>3. \A u \in Users : Reading(u)' \subseteq Reading(u) \ {c}
  BY <1>1, <1>2 DEF Reading
<1>4. AloneInv'
  BY <1>1, <1>3 DEF StatementInv, AloneInv, Reading
<1> QED
  BY <1>4, SameStatement DEF StatementInv

\* A row appended to a ledger comes after the rows that were there.
LEMMA AppendedRow ==
  ASSUME NEW rows \in Seq(Mutation), NEW row \in Mutation,
         NEW n \in Nat, n = Len(rows),
         NEW more, more = Append(rows, row)
  PROVE  /\ Len(more) = n + 1
         /\ more # << >>
         /\ more[n + 1] = row
         /\ \A i \in 1..n : more[i] = rows[i]
  OBVIOUS

\* The row of a call that was alone starts from the balance, which is the end
\* of the row before it, and ends with the balance it leaves.
LEMMA WriteKeepsAlone ==
  ASSUME StatementInv, NEW c \in Calls, Write(c)
  PROVE  StatementHoldsUnlessOverlapped' /\ AloneInv'
<1> DEFINE k == call[c]
           old == mutations[k.user]
<1>1. call[c].at = "reading"
  BY DEF Write
<1>2. /\ k.user \in Users
      /\ NewBalance(k) \in Int
      /\ LedgerRow(k) \in Mutation
  BY <1>1, ReadingCall DEF StatementInv
<1>3. /\ balance'[k.user] = Moved(k)
      /\ \A v \in Users \ {k.user} : /\ balance'[v] = balance[v]
                                     /\ mutations'[v] = mutations[v]
      /\ mutations'[k.user] = Append(old, LedgerRow(k))
      /\ overlapped' = overlapped
      /\ \A d \in Calls \ {c} : call'[d] = call[d]
      /\ call'[c].at = "done"
  BY <1>2 DEF Write, StatementInv, TypeOK
<1>4. \A v \in Users : Reading(v)' = Reading(v) \ {c}
  BY <1>3 DEF Reading
<1>5. c \in Reading(k.user)
  BY <1>1 DEF Reading
<1>6. \A v \in Users \ {k.user} : c \notin Reading(v)
  BY DEF Reading
<1>7. \A u \in Users \ overlapped :
        u = k.user => Reading(u)' = {} /\ k.read = balance[u]
  <2> SUFFICES ASSUME NEW u \in Users \ overlapped, u = k.user
               PROVE  Reading(u)' = {} /\ k.read = balance[u]
    OBVIOUS
  <2>1. Reading(u) = {c} /\ k.read = balance[u]
    BY <1>5 DEF StatementInv, AloneInv
  <2> QED
    BY <1>4, <2>1
<1>8. AloneInv'
  <2> SUFFICES ASSUME NEW v \in Users \ overlapped
               PROVE  /\ \A d, e \in Reading(v)' : d = e
                      /\ \A d \in Reading(v)' : call'[d].read = balance'[v]
    BY <1>3 DEF AloneInv
  <2>1. CASE v = k.user
    <3>1. Reading(v)' = {}
      BY <2>1, <1>7
    <3> QED
      BY <3>1
  <2>2. CASE v # k.user
    BY <2>2, <1>3, <1>4, <1>6 DEF StatementInv, AloneInv, Reading
  <2> QED
    BY <2>1, <2>2
<1>9. ASSUME NEW v \in Users \ overlapped
      PROVE  /\ StatementBalance(v)' = balance'[v]
             /\ \A i \in 1..Len(mutations'[v]) : ChainsAt(v, i)'
  <2>1. CASE v # k.user
    BY <2>1, <1>3
       DEF StatementInv, StatementHoldsUnlessOverlapped, StatementBalance, ChainsAt
  <2>2. CASE v = k.user
    <3> DEFINE new == mutations'[v]
    <3>1. old \in Seq(Mutation)
      BY <1>2 DEF StatementInv, TypeOK
    <3>n. PICK n \in Nat : n = Len(old)
      BY <3>1
    <3>2. /\ new = Append(old, LedgerRow(k))
          /\ Len(new) = n + 1
          /\ new # << >>
          /\ new[n + 1] = LedgerRow(k)
          /\ \A i \in 1..n : new[i] = old[i]
      <4>1. new = Append(old, LedgerRow(k))
        BY <1>3, <2>2
      <4> QED
        BY <1>2, <3>1, <3>n, <4>1, AppendedRow
    <3>3. /\ LedgerRow(k).oldBalance = balance[v]
          /\ LedgerRow(k).newBalance = balance'[v]
      BY <1>2, <1>3, <1>7, <2>2 DEF LedgerRow, NewBalance, Moved
    <3>4. StatementBalance(v)' = balance'[v]
      BY <3>2, <3>3 DEF StatementBalance
    <3>5. StatementBalance(v) = balance[v] /\ \A i \in 1..n : ChainsAt(v, i)
      BY <1>2, <2>2, <3>n DEF StatementInv, StatementHoldsUnlessOverlapped
    <3>6. \A i \in 1..n : ChainsAt(v, i)'
      <4> SUFFICES ASSUME NEW i \in 1..n PROVE ChainsAt(v, i)'
        OBVIOUS
      <4>1. i = 1 \/ i - 1 \in 1..n
        OBVIOUS
      <4> QED
        BY <2>2, <3>2, <3>5, <4>1 DEF ChainsAt
    <3>7. ChainsAt(v, n + 1)'
      <4>1. CASE n = 0
        <5>n. Len(old) = 0
          BY <3>n, <4>1
        <5>1. old = << >>
          BY <3>1, <5>n
        <5>2. InitialBalance[v] = balance[v]
          BY <2>2, <3>5, <5>1 DEF StatementBalance
        <5>3. n + 1 = 1
          BY <4>1
        <5> QED
          BY <3>2, <3>3, <5>2, <5>3 DEF ChainsAt
      <4>2. CASE n # 0
        <5>1. old # << >> /\ n \in 1..n
          BY <3>1, <3>n, <4>2
        <5>2. new[n].newBalance = balance[v]
          BY <2>2, <3>2, <3>n, <3>5, <5>1 DEF StatementBalance
        <5>3. n + 1 # 1 /\ (n + 1) - 1 = n /\ new[n] = old[n]
          BY <3>2, <4>2, <5>1
        <5> QED
          BY <3>2, <3>3, <5>2, <5>3 DEF ChainsAt
      <4> QED
        BY <4>1, <4>2
    <3>8. \A i \in 1..Len(new) : i \in 1..n \/ i = n + 1
      BY <3>2
    <3> QED
      BY <3>4, <3>6, <3>7, <3>8
  <2> QED
    BY <2>1, <2>2
<1>10. StatementHoldsUnlessOverlapped'
  BY <1>3, <1>9 DEF StatementHoldsUnlessOverlapped
<1> QED
  BY <1>8, <1>10

\* A call that is alone has read the balance that is still there.
LEMMA StatementHolds ==
  Spec => [](StatementHoldsUnlessOverlapped /\ AloneInv)
<1>1. Init => StatementHoldsUnlessOverlapped /\ AloneInv
  <2> SUFFICES ASSUME Init
               PROVE  StatementHoldsUnlessOverlapped /\ AloneInv
    OBVIOUS
  <2>1. \A u \in Users : Reading(u) = {} /\ mutations[u] = << >>
    BY DEF Init, Reading
  <2> QED
    BY <2>1
       DEF Init, StatementHoldsUnlessOverlapped, StatementBalance, ChainsAt, AloneInv
<1>2. /\ TypeOK
      /\ StatementHoldsUnlessOverlapped /\ AloneInv
      /\ [Next]_vars
      => StatementHoldsUnlessOverlapped' /\ AloneInv'
  <2> SUFFICES ASSUME StatementInv, [Next]_vars
               PROVE  StatementHoldsUnlessOverlapped' /\ AloneInv'
    BY DEF StatementInv
  <2>1. ASSUME NEW c \in Calls, NEW u \in Users, NEW amount \in Amounts,
               AddBalanceRead(c, u, amount)
        PROVE  StatementHoldsUnlessOverlapped' /\ AloneInv'
    BY <2>1, ReadKeepsAlone DEF AddBalanceRead, MutationType
  <2>2. ASSUME NEW c \in Calls, NEW u \in Users, NEW amount \in Amounts,
               DeductBalanceRead(c, u, amount)
        PROVE  StatementHoldsUnlessOverlapped' /\ AloneInv'
    BY <2>2, ReadKeepsAlone DEF DeductBalanceRead, MutationType
  <2>3. ASSUME NEW c \in Calls, NEW u \in Users, NEW amount \in Amounts,
               DeductBalanceRefused(c, u, amount)
        PROVE  StatementHoldsUnlessOverlapped' /\ AloneInv'
    BY <2>3, EndKeepsAlone DEF DeductBalanceRefused
  <2>4. ASSUME NEW c \in Calls, Write(c)
        PROVE  StatementHoldsUnlessOverlapped' /\ AloneInv'
    BY <2>4, WriteKeepsAlone
  <2>5. ASSUME NEW c \in Calls, WriteFails(c)
        PROVE  StatementHoldsUnlessOverlapped' /\ AloneInv'
    BY <2>5, EndKeepsAlone DEF WriteFails
  <2>6. CASE UNCHANGED vars
    <3>1. StatementHoldsUnlessOverlapped'
      BY <2>6, SameStatement DEF vars, StatementInv
    <3>2. AloneInv'
      BY <2>6 DEF vars, StatementInv, AloneInv, Reading
    <3> QED
      BY <3>1, <3>2
  <2> QED
    BY <2>1, <2>2, <2>3, <2>4, <2>5, <2>6 DEF Next
<1> QED
  BY <1>1, <1>2, TypeCorrect, PTL DEF Spec

\* What a user reads as a statement of the account is right, row by row and at
\* its end, whenever no two of that user's calls overlapped.
THEOREM Statement_Holds_Unless_Overlapped ==
  Spec => []StatementHoldsUnlessOverlapped
BY StatementHolds, PTL

-----------------------------------------------------------------------------

\* The calls that have written.
Written == {c \in Calls : call[c].at = "done"}

Debt(n) == (n - 1) * LargestAmount

\* Until the first call has written, every deduction in flight is covered;
\* each later one takes the largest amount at most.
DebtInv ==
  \A u \in Users :
    /\ Written = {} =>
         /\ balance[u] = InitialBalance[u]
         /\ \A c \in Deducting(u) : call[c].amount <= balance[u]
    /\ Written # {} => balance[u] >= -Debt(Cardinality(Written))

LEMMA LargestIsLargest ==
  /\ LargestAmount \in Amounts /\ LargestAmount \in Nat
  /\ \A b \in Amounts : b <= LargestAmount
<1>1. LargestAmount \in Amounts /\ \A b \in Amounts : b <= LargestAmount
  BY LargestAssumption DEF LargestAmount
<1> QED
  BY <1>1, AmountsAssumption

\* One more call may owe one more of the largest amount.
LEMMA DebtGrows ==
  ASSUME NEW n \in Nat
  PROVE  Debt(n) \in Int /\ Debt(1) = 0 /\ Debt(n + 1) = Debt(n) + LargestAmount
<1> DEFINE L == LargestAmount
<1>1. L \in Int
  BY LargestIsLargest
<1> HIDE DEF L
<1>2. \A k \in Int : (k - 1) * L \in Int /\ ((k + 1) - 1) * L = (k - 1) * L + L
  BY <1>1, Z3
<1>3. (1 - 1) * L = 0
  BY <1>1, Z3
<1> QED
  BY <1>2, <1>3 DEF Debt, L

LEMMA DebtMonotone ==
  ASSUME NEW m \in Nat, NEW n \in Nat, m <= n
  PROVE  Debt(m) \in Int /\ Debt(n) \in Int /\ Debt(m) <= Debt(n)
<1> DEFINE L == LargestAmount
<1>1. L \in Nat
  BY LargestIsLargest
<1> HIDE DEF L
<1>2. (m - 1) * L \in Int /\ (n - 1) * L \in Int /\ (m - 1) * L <= (n - 1) * L
  BY <1>1, Z3
<1> QED
  BY <1>2 DEF Debt, L

LEMMA WrittenFinite ==
  /\ IsFiniteSet(Written) /\ Cardinality(Written) \in Nat
  /\ Cardinality(Calls) \in Nat /\ Cardinality(Calls) >= 1
  /\ Cardinality(Written) <= Cardinality(Calls)
<1>1. Written \subseteq Calls
  BY DEF Written
<1>2. IsFiniteSet(Written) /\ Cardinality(Written) <= Cardinality(Calls)
  BY <1>1, FS_Subset, CallsAssumption
<1>3. Cardinality(Calls) \in Nat /\ Cardinality(Written) \in Nat
  BY <1>2, FS_CardinalityType, CallsAssumption
<1>4. Cardinality(Calls) # 0
  BY FS_EmptySet, CallsAssumption
<1> QED
  BY <1>2, <1>3, <1>4

\* A step that writes nothing, and after which the deductions in flight are
\* covered or were there before.
LEMMA NoWriteKeepsDebt ==
  ASSUME DebtInv, UNCHANGED balance, Written' = Written,
         \A u \in Users : \A d \in Deducting(u)' :
           \/ d \in Deducting(u) /\ call'[d] = call[d]
           \/ call'[d].amount <= balance[u]
  PROVE  DebtInv'
<1> SUFFICES ASSUME NEW u \in Users
             PROVE  /\ Written = {} =>
                         /\ balance[u] = InitialBalance[u]
                         /\ \A d \in Deducting(u)' : call'[d].amount <= balance[u]
                    /\ Written # {} => balance[u] >= -Debt(Cardinality(Written))
  BY DEF DebtInv, Debt
<1> QED
  BY DEF DebtInv

LEMMA GetBalanceKeepsDebt ==
  ASSUME TypeOK, DebtInv,
         NEW c \in Calls, NEW u \in Users, NEW type \in MutationType,
         NEW amount \in Amounts, GetBalance(c, u, type, amount),
         type = "OUT" => balance[u] >= amount
  PROVE  DebtInv'
<1>1. /\ \A d \in Calls \ {c} : call'[d] = call[d]
      /\ call'[c] = [at |-> "reading", user |-> u, type |-> type,
                     amount |-> amount, read |-> balance[u]]
      /\ call[c].at = "idle"
      /\ balance' = balance
  BY DEF GetBalance, TypeOK
<1>2. Written' = Written
  BY <1>1 DEF Written
<1>3. ASSUME NEW v \in Users, NEW d \in Deducting(v)'
      PROVE  \/ d \in Deducting(v) /\ call'[d] = call[d]
             \/ call'[d].amount <= balance[v]
  <2>1. CASE d = c
    <3>1. v = u /\ type = "OUT"
      BY <1>1, <1>3, <2>1 DEF Deducting, Reading
    <3>2. balance[u] \in Int /\ amount \in Nat
      BY AmountsAssumption DEF TypeOK
    <3> QED
      BY <1>1, <2>1, <3>1, <3>2
  <2>2. CASE d # c
    BY <1>1, <1>3, <2>2 DEF Deducting, Reading
  <2> QED
    BY <2>1, <2>2
<1> QED
  BY <1>1, <1>2, <1>3, NoWriteKeepsDebt

LEMMA EndKeepsDebt ==
  ASSUME TypeOK, DebtInv, NEW c \in Calls, NEW at \in {"refused", "failed"},
         call[c].at # "done", call' = [call EXCEPT ![c] = [at |-> at]],
         UNCHANGED balance
  PROVE  DebtInv'
<1>1. /\ \A d \in Calls \ {c} : call'[d] = call[d]
      /\ call'[c].at \in {"refused", "failed"}
  BY DEF TypeOK
<1>2. Written' = Written
  BY <1>1 DEF Written
<1>3. \A u \in Users : \A d \in Deducting(u)' :
        d \in Deducting(u) /\ call'[d] = call[d]
  BY <1>1 DEF Deducting, Reading
<1> QED
  BY <1>2, <1>3, NoWriteKeepsDebt

\* The first write was covered; a later one adds its amount to the debt.
LEMMA WriteKeepsDebt ==
  ASSUME TypeOK, DebtInv, NEW c \in Calls, Write(c)
  PROVE  DebtInv'
<1> DEFINE k == call[c]
<1>1. call[c].at = "reading"
  BY DEF Write
<1>2. /\ k.user \in Users
      /\ k.type \in MutationType
      /\ k.amount \in Amounts /\ k.amount \in Nat
      /\ Moved(k) \in Int
  BY <1>1, ReadingCall
<1>3. /\ balance'[k.user] = Moved(k)
      /\ \A v \in Users \ {k.user} : balance'[v] = balance[v]
      /\ \A d \in Calls \ {c} : call'[d] = call[d]
      /\ call'[c].at = "done"
  BY <1>2 DEF Write, TypeOK
<1>4. PICK n \in Nat : n = Cardinality(Written)
  BY WrittenFinite
<1>5. Cardinality(Written)' = n + 1 /\ Written' # {}
  <2>1. Written' = Written \cup {c} /\ c \notin Written
    BY <1>1, <1>3 DEF Written
  <2>2. Cardinality(Written \cup {c}) = Cardinality(Written) + 1
    BY <2>1, WrittenFinite, FS_AddElement
  <2> QED
    BY <1>4, <2>1, <2>2
<1>6. ASSUME NEW v \in Users
      PROVE  balance'[v] >= -Debt(n + 1)
  <2>1. /\ balance[v] \in Int /\ balance'[v] \in Int
        /\ balance'[v] >= balance[v] - k.amount
        /\ v # k.user \/ k.type # "OUT" => balance'[v] >= balance[v]
    <3>1. balance[v] \in Int
      BY DEF TypeOK
    <3>2. CASE v = k.user
      BY <1>2, <1>3, <3>1, <3>2 DEF Moved, Signed, MutationType
    <3>3. CASE v # k.user
      BY <1>2, <1>3, <3>1, <3>3
    <3> QED
      BY <3>2, <3>3
  <2>2. /\ LargestAmount \in Nat /\ k.amount <= LargestAmount
        /\ Debt(n) \in Int /\ Debt(n + 1) = Debt(n) + LargestAmount
        /\ Debt(1) = 0
    BY <1>2, LargestIsLargest, DebtGrows
  <2>3. CASE Written = {}
    <3>1. n = 0 /\ n + 1 = 1
      BY <1>4, <2>3, FS_EmptySet
    <3>2. balance[v] >= 0
      BY <2>3, InitialAssumption DEF DebtInv
    <3>3. CASE v = k.user /\ k.type = "OUT"
      <4>1. c \in Deducting(v)
        BY <1>1, <3>3 DEF Deducting, Reading
      <4>2. k.amount <= balance[v]
        BY <2>3, <4>1 DEF DebtInv
      <4> QED
        BY <1>2, <2>1, <2>2, <3>1, <4>2
    <3>4. CASE ~(v = k.user /\ k.type = "OUT")
      BY <2>1, <2>2, <3>1, <3>2, <3>4
    <3> QED
      BY <3>3, <3>4
  <2>4. CASE Written # {}
    <3>1. balance[v] >= -Debt(n)
      BY <1>4, <2>4 DEF DebtInv
    <3> QED
      BY <1>2, <2>1, <2>2, <3>1
  <2> QED
    BY <2>3, <2>4
<1>7. Debt(Cardinality(Written))' = Debt(n + 1)
  BY <1>5 DEF Debt
<1> QED
  BY <1>5, <1>6, <1>7 DEF DebtInv

\* However many deductions overlap, the debt of a user stays below what all the
\* calls but one may take.
THEOREM Debt_Bounded_By_Overlap == Spec => []DebtBoundedByOverlap
<1>1. Init => DebtInv
  <2> SUFFICES ASSUME Init PROVE DebtInv
    OBVIOUS
  <2>1. Written = {} /\ \A u \in Users : Deducting(u) = {}
    BY DEF Init, Written, Deducting, Reading
  <2> QED
    BY <2>1 DEF Init, DebtInv
<1>2. TypeOK /\ DebtInv /\ [Next]_vars => DebtInv'
  <2> SUFFICES ASSUME TypeOK, DebtInv, [Next]_vars
               PROVE  DebtInv'
    OBVIOUS
  <2>1. ASSUME NEW c \in Calls, NEW u \in Users, NEW amount \in Amounts,
               AddBalanceRead(c, u, amount)
        PROVE  DebtInv'
    BY <2>1, GetBalanceKeepsDebt DEF AddBalanceRead, MutationType
  <2>2. ASSUME NEW c \in Calls, NEW u \in Users, NEW amount \in Amounts,
               DeductBalanceRead(c, u, amount)
        PROVE  DebtInv'
    BY <2>2, GetBalanceKeepsDebt DEF DeductBalanceRead, MutationType
  <2>3. ASSUME NEW c \in Calls, NEW u \in Users, NEW amount \in Amounts,
               DeductBalanceRefused(c, u, amount)
        PROVE  DebtInv'
    BY <2>3, EndKeepsDebt DEF DeductBalanceRefused
  <2>4. ASSUME NEW c \in Calls, Write(c)
        PROVE  DebtInv'
    BY <2>4, WriteKeepsDebt
  <2>5. ASSUME NEW c \in Calls, WriteFails(c)
        PROVE  DebtInv'
    BY <2>5, EndKeepsDebt DEF WriteFails
  <2>6. CASE UNCHANGED vars
    BY <2>6, NoWriteKeepsDebt DEF vars, Written, Deducting, Reading
  <2> QED
    BY <2>1, <2>2, <2>3, <2>4, <2>5, <2>6 DEF Next
<1>3. TypeOK /\ DebtInv => DebtBoundedByOverlap
  <2> SUFFICES ASSUME TypeOK, DebtInv, NEW u \in Users
               PROVE  balance[u] >= -Debt(Cardinality(Calls))
    BY DEF DebtBoundedByOverlap, Debt
  <2>1. /\ balance[u] \in Int
        /\ Debt(Cardinality(Written)) \in Int
        /\ Debt(Cardinality(Calls)) \in Int
        /\ Debt(Cardinality(Written)) <= Debt(Cardinality(Calls))
    BY WrittenFinite, DebtMonotone DEF TypeOK
  <2>2. CASE Written # {}
    BY <2>1, <2>2 DEF DebtInv
  <2>3. CASE Written = {}
    <3>1. balance[u] >= 0
      BY <2>3, InitialAssumption DEF DebtInv
    <3>2. Debt(1) <= Debt(Cardinality(Calls)) /\ Debt(1) = 0
      BY WrittenFinite, DebtMonotone, DebtGrows
    <3> QED
      BY <2>1, <3>1, <3>2
  <2> QED
    BY <2>2, <2>3
<1> QED
  BY <1>1, <1>2, <1>3, TypeCorrect, PTL DEF Spec

-----------------------------------------------------------------------------
(* The sum of a ledger.  Totals is a recursive function; that it exists,   *)
(* that it is the only one and what a further row adds to it are shown     *)
(* from a least number for which this failed.                              *)

\* Among some numbers there is a least one.
LEMMA LeastOfSome ==
  ASSUME NEW T \in SUBSET Nat, T # {}
  PROVE  \E x \in T : \A y \in T : x <= y
<1>1. \E Less : /\ IsWellFoundedOn(Less, Nat)
                /\ \A x, y \in Nat : y < x => <<y, x>> \in Less
  <2>1. \A x, y \in Nat : y < x => <<y, x>> \in OpToRel(<, Nat)
    BY DEF OpToRel
  <2> QED
    BY <2>1, NatLessThanWellFounded, Zenon
<1>2. PICK Less : /\ IsWellFoundedOn(Less, Nat)
                  /\ \A x, y \in Nat : y < x => <<y, x>> \in Less
  BY <1>1
<1>3. PICK x \in T : \A y \in T : <<y, x>> \notin Less
  BY <1>2, WFMin
<1>4. \A y \in T : ~(y < x)
  BY <1>2, <1>3
<1> QED
  BY <1>4

\* The sums of the first n of a list of numbers, as a relation.
IsTotal(total, rows, n) ==
  total = [i \in 0..n |->
             IF i = 0 THEN 0
             ELSE total[i - 1] + Signed(rows[i].type, rows[i].amount)]

\* The amount of a row, with its sign, is a number.
LEMMA RowAmount ==
  ASSUME NEW row \in Mutation
  PROVE  Signed(row.type, row.amount) \in Int
<1>1. row.amount \in Nat
  BY AmountsAssumption DEF Mutation
<1> QED
  BY <1>1 DEF Signed

\* Sums of numbers are numbers.
LEMMA TotalType ==
  ASSUME NEW rows \in Seq(Mutation), NEW n \in 0..Len(rows),
         NEW total, IsTotal(total, rows, n)
  PROVE  \A i \in 0..n : total[i] \in Int
<1> DEFINE Bad == {i \in 0..n : total[i] \notin Int}
<1> SUFFICES ASSUME Bad # {} PROVE FALSE
  OBVIOUS
<1>1. n \in Nat /\ \A i \in 1..n : rows[i] \in Mutation
  OBVIOUS
<1>2. PICK m \in Bad : \A i \in Bad : m <= i
  <2>1. Bad \in SUBSET Nat
    BY <1>1
  <2> QED
    BY <2>1, LeastOfSome
<1>3. CASE m = 0
  BY <1>3 DEF IsTotal
<1>4. CASE m # 0
  <2>1. m \in 1..n /\ m - 1 \in 0..n /\ ~(m <= m - 1)
    BY <1>1, <1>4
  <2>2. total[m - 1] \in Int
    BY <1>2, <2>1
  <2>3. total[m] = total[m - 1] + Signed(rows[m].type, rows[m].amount)
    BY <1>4, <2>1 DEF IsTotal
  <2>4. Signed(rows[m].type, rows[m].amount) \in Int
    BY <1>1, <2>1, RowAmount
  <2> QED
    BY <2>2, <2>3, <2>4
<1> QED
  BY <1>3, <1>4

\* There is one list of sums, and only one, that starts as a shorter one does.
LEMMA TotalSame ==
  ASSUME NEW rows, NEW more, NEW n \in Nat, NEW m \in 0..n,
         \A i \in 1..m : rows[i] = more[i],
         NEW short, IsTotal(short, rows, m),
         NEW long, IsTotal(long, more, n)
  PROVE  \A i \in 0..m : short[i] = long[i]
<1> DEFINE Bad == {i \in 0..m : short[i] # long[i]}
<1> SUFFICES ASSUME Bad # {} PROVE FALSE
  OBVIOUS
<1>1. PICK k \in Bad : \A i \in Bad : k <= i
  <2>1. Bad \in SUBSET Nat
    OBVIOUS
  <2> QED
    BY <2>1, LeastOfSome
<1>2. CASE k = 0
  BY <1>2 DEF IsTotal
<1>3. CASE k # 0
  <2>1. k \in 1..m /\ k - 1 \in 0..m /\ ~(k <= k - 1) /\ k \in 1..n
    BY <1>3
  <2>2. short[k - 1] = long[k - 1]
    BY <1>1, <2>1
  <2>3. /\ short[k] = short[k - 1] + Signed(rows[k].type, rows[k].amount)
        /\ long[k] = long[k - 1] + Signed(more[k].type, more[k].amount)
    BY <1>3, <2>1 DEF IsTotal
  <2> QED
    BY <2>1, <2>2, <2>3
<1> QED
  BY <1>2, <1>3

LEMMA TotalExists ==
  ASSUME NEW rows, NEW n \in Nat
  PROVE  \E total : IsTotal(total, rows, n)
<1> DEFINE Bad == {i \in Nat : ~ \E total : IsTotal(total, rows, i)}
<1> SUFFICES ASSUME Bad # {} PROVE FALSE
  OBVIOUS
<1>1. PICK k \in Bad : \A i \in Bad : k <= i
  BY LeastOfSome
<1>2. CASE k = 0
  <2>1. IsTotal([i \in 0..0 |-> 0], rows, 0)
    BY DEF IsTotal
  <2> QED
    BY <1>2, <2>1
<1>3. CASE k # 0
  <2>1. k \in Nat /\ k - 1 \in Nat /\ ~(k <= k - 1)
    BY <1>3
  <2>2. PICK total : IsTotal(total, rows, k - 1)
    BY <1>1, <2>1
  <2> DEFINE next == [i \in 0..k |->
                        IF i = k
                          THEN total[k - 1] + Signed(rows[k].type, rows[k].amount)
                          ELSE total[i]]
  <2>3. ASSUME NEW i \in 0..k
        PROVE  next[i] = IF i = 0 THEN 0
                         ELSE next[i - 1] + Signed(rows[i].type, rows[i].amount)
    <3>1. CASE i = k
      <4>1. k - 1 \in 0..k /\ k - 1 # k
        BY <2>1
      <4>2. next[k - 1] = total[k - 1]
        BY <4>1
      <4> QED
        BY <1>3, <3>1, <4>2
    <3>2. CASE i # k /\ i # 0
      <4>1. i \in 0..(k - 1) /\ i - 1 \in 0..k /\ i - 1 # k
        BY <2>1, <3>2
      <4>2. next[i - 1] = total[i - 1] /\ next[i] = total[i]
        BY <3>2, <4>1
      <4> QED
        BY <2>2, <3>2, <4>1, <4>2 DEF IsTotal
    <3>3. CASE i = 0
      <4>1. next[0] = total[0] /\ 0 \in 0..(k - 1)
        BY <1>3, <2>1
      <4> QED
        BY <2>2, <3>3, <4>1 DEF IsTotal
    <3> QED
      BY <3>1, <3>2, <3>3
  <2>4. IsTotal(next, rows, k)
    BY <2>3 DEF IsTotal
  <2> QED
    BY <2>4
<1> QED
  BY <1>2, <1>3

\* Totals is the list of sums.
LEMMA TotalsIsTotal ==
  ASSUME NEW rows, Len(rows) \in Nat
  PROVE  IsTotal(Totals(rows), rows, Len(rows))
<1>1. \E total : IsTotal(total, rows, Len(rows))
  BY TotalExists
<1>2. IsTotal(CHOOSE total : IsTotal(total, rows, Len(rows)), rows, Len(rows))
  BY <1>1, Zenon
<1>3. Totals(rows) = CHOOSE total : IsTotal(total, rows, Len(rows))
  BY Zenon DEF Totals, IsTotal
<1> QED
  BY <1>2, <1>3

\* A row more adds its amount.
LEMMA TotalAppend ==
  ASSUME NEW rows \in Seq(Mutation), NEW row \in Mutation
  PROVE  /\ \A i \in 0..Len(rows) :
              /\ Totals(rows)[i] \in Int
              /\ Totals(Append(rows, row))[i] = Totals(rows)[i]
         /\ Totals(Append(rows, row))[Len(rows) + 1] =
              Totals(rows)[Len(rows)] + Signed(row.type, row.amount)
<1>1. PICK n \in Nat : n = Len(rows)
  OBVIOUS
<1>2. PICK more : more = Append(rows, row)
  OBVIOUS
<1>3. /\ Len(more) = n + 1 /\ more[n + 1] = row
      /\ \A i \in 1..n : rows[i] = more[i]
  BY <1>1, <1>2
<1>4. IsTotal(Totals(rows), rows, n)
  BY <1>1, TotalsIsTotal
<1>5. IsTotal(Totals(more), more, n + 1)
  BY <1>3, TotalsIsTotal
<1>6. n + 1 \in Nat /\ n \in 0..(n + 1) /\ n \in 0..n /\ n + 1 \in 0..(n + 1)
  OBVIOUS
<1>7. \A i \in 0..n : Totals(rows)[i] = Totals(more)[i]
  BY <1>3, <1>4, <1>5, <1>6, TotalSame
<1>8. Totals(more)[n + 1] = Totals(more)[n] + Signed(row.type, row.amount)
  BY <1>3, <1>5, <1>6 DEF IsTotal
<1>9. \A i \in 0..n : Totals(rows)[i] \in Int
  BY <1>1, <1>4, <1>6, TotalType
<1> QED
  BY <1>1, <1>2, <1>6, <1>7, <1>8, <1>9

\* A step that leaves the balances and the rows leaves their relation.
LEMMA SameLedger ==
  ASSUME LedgerExplainsBalance, UNCHANGED <<balance, mutations>>
  PROVE  LedgerExplainsBalance'
  BY DEF LedgerExplainsBalance, LedgerTotal

LEMMA WriteKeepsLedger ==
  ASSUME TypeOK, LedgerExplainsBalance, NEW c \in Calls, Write(c)
  PROVE  LedgerExplainsBalance'
<1> DEFINE k == call[c]
<1>1. /\ k.user \in Users
      /\ k.type \in MutationType /\ k.amount \in Amounts
      /\ LedgerRow(k) \in Mutation
  BY ReadingCall DEF Write
<1> SUFFICES ASSUME NEW u \in Users
             PROVE  balance'[u] = InitialBalance[u] + LedgerTotal(u)'
  BY DEF LedgerExplainsBalance
<1>2. balance[u] = InitialBalance[u] + LedgerTotal(u)
  BY DEF LedgerExplainsBalance
<1>3. CASE u # k.user
  <2>1. balance'[u] = balance[u] /\ mutations'[u] = mutations[u]
    BY <1>1, <1>3 DEF Write, TypeOK
  <2> QED
    BY <1>2, <2>1 DEF LedgerTotal
<1>4. CASE u = k.user
  <2>1. /\ balance'[u] = balance[u] + Signed(k.type, k.amount)
        /\ mutations'[u] = Append(mutations[u], LedgerRow(k))
        /\ mutations[u] \in Seq(Mutation)
    BY <1>1, <1>4 DEF Write, Moved, TypeOK
  <2>2. LedgerTotal(u) \in Int
        /\ LedgerTotal(u)' = LedgerTotal(u)
                               + Signed(LedgerRow(k).type, LedgerRow(k).amount)
    <3>1. Len(Append(mutations[u], LedgerRow(k))) = Len(mutations[u]) + 1
      BY <2>1
    <3>2. Len(mutations[u]) \in 0..Len(mutations[u])
      BY <2>1
    <3> QED
      BY <1>1, <2>1, <3>1, <3>2, TotalAppend DEF LedgerTotal
  <2>3. LedgerRow(k).type = k.type /\ LedgerRow(k).amount = k.amount
    BY DEF LedgerRow
  <2>4. Signed(k.type, k.amount) \in Int /\ InitialBalance[u] \in Int
    BY <1>1, SignedIsInt, InitialAssumption
  <2> QED
    BY <1>2, <2>1, <2>2, <2>3, <2>4
<1> QED
  BY <1>3, <1>4

\* The balance of every account is the opening balance and what its ledger
\* rows add up to, however the calls of addBalance and deductBalance
\* interleave: increment and decrement lose no update.
THEOREM Ledger_Explains_Balance == Spec => []LedgerExplainsBalance
<1>1. Init => LedgerExplainsBalance
  <2> SUFFICES ASSUME Init, NEW u \in Users
               PROVE  balance[u] = InitialBalance[u] + LedgerTotal(u)
    BY DEF LedgerExplainsBalance
  <2>1. mutations[u] = << >> /\ Len(mutations[u]) = 0
    BY DEF Init
  <2>2. IsTotal(Totals(mutations[u]), mutations[u], 0)
    BY <2>1, TotalsIsTotal
  <2>3. LedgerTotal(u) = 0
    BY <2>1, <2>2 DEF LedgerTotal, IsTotal
  <2> QED
    BY <2>3, InitialAssumption DEF Init
<1>2. TypeOK /\ LedgerExplainsBalance /\ [Next]_vars => LedgerExplainsBalance'
  <2> SUFFICES ASSUME TypeOK, LedgerExplainsBalance, [Next]_vars
               PROVE  LedgerExplainsBalance'
    OBVIOUS
  <2>1. ASSUME NEW c \in Calls, Write(c)
        PROVE  LedgerExplainsBalance'
    BY <2>1, WriteKeepsLedger
  <2>2. CASE UNCHANGED <<balance, mutations>>
    BY <2>2, SameLedger
  <2> QED
    BY <2>1, <2>2 DEF Next, AddBalanceRead, DeductBalanceRead, GetBalance,
       DeductBalanceRefused, WriteFails, vars
<1> QED
  BY <1>1, <1>2, TypeCorrect, PTL DEF Spec

-----------------------------------------------------------------------------
(* BalanceService implements AtomicBalance.  A call takes effect when it    *)
(* writes; what it read before is a balance the account has had (PastInv),  *)
(* the present one when the calls of the user did not overlap (AloneInv),   *)
(* and covers a deduction unless deductions overlapped (CoveredInv).        *)

\* What a call in flight has read is a balance the account has had.
PastInv ==
  \A c \in Calls :
    call[c].at = "reading" => call[c].read \in Past(call[c].user)

\* The balance there is now is one of those the account has had.
LEMMA PresentIsPast ==
  ASSUME TypeOK, LedgerExplainsBalance, NEW u \in Users
  PROVE  balance[u] \in Past(u)
<1>1. PICK n \in Nat : n = Len(mutations[u])
  BY DEF TypeOK
<1>2. n \in 0..n
  OBVIOUS
<1> QED
  BY <1>1, <1>2 DEF LedgerExplainsBalance, LedgerTotal, Past

\* A write adds the balance it leaves to the past of its user, and nothing to
\* the past of another.
LEMMA WriteExtendsPast ==
  ASSUME TypeOK, LedgerExplainsBalance, NEW c \in Calls, Write(c),
         NEW u \in Users
  PROVE  Past(u)' = IF u = call[c].user THEN Past(u) \cup {balance'[u]}
                                        ELSE Past(u)
<1> DEFINE k == call[c]
<1>1. /\ k.user \in Users
      /\ k.type \in MutationType /\ k.amount \in Amounts
      /\ LedgerRow(k) \in Mutation
  BY ReadingCall DEF Write
<1>2. CASE u # k.user
  <2>1. mutations'[u] = mutations[u]
    BY <1>1, <1>2 DEF Write, TypeOK
  <2> QED
    BY <1>2, <2>1 DEF Past
<1>3. CASE u = k.user
  <2>1. PICK rows \in Seq(Mutation) : rows = mutations[u]
    BY DEF TypeOK
  <2>2. PICK more : more = Append(rows, LedgerRow(k))
    OBVIOUS
  <2>3. mutations'[u] = more
    BY <1>1, <1>3, <2>1, <2>2 DEF Write, TypeOK
  <2>4. PICK n \in Nat : n = Len(rows)
    OBVIOUS
  <2>5. Len(more) = n + 1
    BY <1>1, <2>2, <2>4
  <2>6. /\ \A i \in 0..n : Totals(more)[i] = Totals(rows)[i]
        /\ Totals(more)[n + 1] = Totals(rows)[n] + Signed(k.type, k.amount)
        /\ Totals(rows)[n] \in Int
    <3>1. LedgerRow(k).type = k.type /\ LedgerRow(k).amount = k.amount
      BY DEF LedgerRow
    <3>2. n \in 0..n
      OBVIOUS
    <3> QED
      BY <1>1, <2>2, <2>4, <3>1, <3>2, TotalAppend
  <2>7. balance'[u] = InitialBalance[u] + Totals(more)[n + 1]
    <3>1. balance'[u] = balance[u] + Signed(k.type, k.amount)
      BY <1>1, <1>3 DEF Write, Moved, TypeOK
    <3>2. balance[u] = InitialBalance[u] + Totals(rows)[n]
      BY <2>1, <2>4 DEF LedgerExplainsBalance, LedgerTotal
    <3>3. InitialBalance[u] \in Int /\ Signed(k.type, k.amount) \in Int
      BY <1>1, SignedIsInt, InitialAssumption
    <3> QED
      BY <2>6, <3>1, <3>2, <3>3
  <2>8. Past(u) = {InitialBalance[u] + Totals(rows)[i] : i \in 0..n}
    BY <2>1, <2>4 DEF Past
  <2>9. Past(u)' = {InitialBalance[u] + Totals(more)[i] : i \in 0..(n + 1)}
    BY <2>3, <2>5 DEF Past
  <2>10. \A i : i \in 0..(n + 1) <=> i \in 0..n \/ i = n + 1
    OBVIOUS
  <2> QED
    BY <1>3, <2>6, <2>7, <2>8, <2>9, <2>10
<1> QED
  BY <1>2, <1>3

\* Every step keeps what the calls in flight have read among the balances the
\* account has had.
LEMMA NextKeepsPast ==
  ASSUME TypeOK, LedgerExplainsBalance, PastInv, [Next]_vars
  PROVE  PastInv'
<1>1. ASSUME NEW c \in Calls, NEW u \in Users, NEW type \in MutationType,
             NEW amount \in Amounts, GetBalance(c, u, type, amount)
      PROVE  PastInv'
  <2>1. /\ \A d \in Calls \ {c} : call'[d] = call[d]
        /\ call'[c] = [at |-> "reading", user |-> u, type |-> type,
                       amount |-> amount, read |-> balance[u]]
    BY <1>1 DEF GetBalance, TypeOK
  <2>2. \A v : Past(v)' = Past(v)
    BY <1>1 DEF GetBalance, Past
  <2>3. balance[u] \in Past(u)
    BY PresentIsPast
  <2> QED
    BY <2>1, <2>2, <2>3 DEF PastInv
<1>2. ASSUME NEW c \in Calls, NEW at \in {"refused", "failed"},
             call' = [call EXCEPT ![c] = [at |-> at]], mutations' = mutations
      PROVE  PastInv'
  <2>1. \A v : Past(v)' = Past(v)
    BY <1>2 DEF Past
  <2>2. /\ \A d \in Calls \ {c} : call'[d] = call[d]
        /\ call'[c].at = at
    BY <1>2 DEF TypeOK
  <2> QED
    BY <2>1, <2>2 DEF PastInv
<1>3. ASSUME NEW c \in Calls, Write(c)
      PROVE  PastInv'
  <2>1. \A d \in Calls \ {c} : call'[d] = call[d]
    BY <1>3 DEF Write, TypeOK
  <2>2. call'[c].at = "done"
    BY <1>3 DEF Write, TypeOK
  <2>3. \A v \in Users : Past(v) \subseteq Past(v)'
    BY <1>3, WriteExtendsPast
  <2>4. \A d \in Calls : call[d].at = "reading" => call[d].user \in Users
    BY ReadingCall
  <2> QED
    BY <2>1, <2>2, <2>3, <2>4 DEF PastInv
<1>4. CASE UNCHANGED vars
  BY <1>4 DEF vars, PastInv, Past
<1> QED
  BY <1>1, <1>2, <1>3, <1>4 DEF Next, AddBalanceRead, DeductBalanceRead,
     DeductBalanceRefused, WriteFails, MutationType

\* The mapped variables of AtomicBalance.
Pasts == [u \in Users |-> Past(u)]
Outcomes == [c \in Calls |-> Outcome(c)]

\* A call that ends changes its own outcome only.
LEMMA EndsAtomically ==
  ASSUME TypeOK, NEW c \in Calls, call[c].at \in {"idle", "reading"},
         NEW at \in {"refused", "failed", "done"},
         call' = [call EXCEPT ![c] = [at |-> at]]
  PROVE  Atomic!Ends(c, at)
<1>1. /\ \A d \in Calls \ {c} : call'[d] = call[d]
      /\ call'[c].at = at
  BY DEF TypeOK
<1>2. \A d \in Calls : Outcome(d)' = IF d = c THEN at ELSE Outcome(d)
  BY <1>1 DEF Outcome
<1>3. Outcome(c) = "pending"
  BY DEF Outcome
<1>4. Outcomes' = [Outcomes EXCEPT ![c] = at]
  BY <1>2 DEF Outcomes
<1> QED
  BY <1>3, <1>4 DEF Atomic!Ends, Outcomes

\* A write posts the balance it leaves, in a row that starts from what the
\* call read.
LEMMA PostsAtomically ==
  ASSUME TypeOK, LedgerExplainsBalance, PastInv, AloneInv,
         NEW c \in Calls, Write(c)
  PROVE  Atomic!Post(call[c].user, call[c].type, call[c].amount, Moved(call[c]))
<1> DEFINE k == call[c]
<1>1. /\ k.at = "reading"
      /\ k.user \in Users /\ k.type \in MutationType /\ k.amount \in Amounts
      /\ k.read \in Int
  BY ReadingCall DEF Write
<1>2. /\ balance' = [balance EXCEPT ![k.user] = Moved(k)]
      /\ mutations' = [mutations EXCEPT ![k.user] = Append(@, LedgerRow(k))]
      /\ UNCHANGED <<overlapped, contended>>
  BY DEF Write
<1>3. Pasts' = [Pasts EXCEPT ![k.user] = @ \cup {Moved(k)}]
  <2>1. \A u \in Users : Past(u)' = IF u = k.user THEN Past(u) \cup {balance'[u]}
                                                  ELSE Past(u)
    BY WriteExtendsPast
  <2>2. balance'[k.user] = Moved(k)
    BY <1>1, <1>2 DEF TypeOK
  <2> QED
    BY <1>1, <2>1, <2>2 DEF Pasts
<1>4. k.read \in Pasts[k.user]
  BY <1>1 DEF PastInv, Pasts
<1>5. k.user \notin overlapped => k.read = balance[k.user]
  BY <1>1 DEF AloneInv, Reading
<1>6. LedgerRow(k) = [type |-> k.type, amount |-> k.amount,
                      oldBalance |-> k.read,
                      newBalance |-> k.read + (Moved(k) - balance[k.user])]
  <2>1. Signed(k.type, k.amount) \in Int /\ balance[k.user] \in Int
    BY <1>1, SignedIsInt DEF TypeOK
  <2>2. NewBalance(k) = k.read + (Moved(k) - balance[k.user])
    BY <1>1, <2>1 DEF NewBalance, Moved
  <2> QED
    BY <2>2 DEF LedgerRow
<1> QED
  BY <1>2, <1>3, <1>4, <1>5, <1>6 DEF Atomic!Post, Pasts

\* Every step of BalanceService is a step of AtomicBalance, or none.
LEMMA NextActsAtomically ==
  ASSUME TypeOK, LedgerExplainsBalance, CoveredInv, AloneInv, PastInv,
         [Next]_vars
  PROVE  [Atomic!Next]_(Atomic!vars)
<1>1. ASSUME NEW c \in Calls, NEW u \in Users, NEW type \in MutationType,
             NEW amount \in Amounts, GetBalance(c, u, type, amount)
      PROVE  [Atomic!Next]_(Atomic!vars)
  <2>1. /\ balance' = balance /\ mutations' = mutations
        /\ overlapped' \in {overlapped, overlapped \cup {u}}
        /\ contended' \in {contended, contended \cup {u}}
        /\ overlapped' = overlapped => contended' = contended \/ u \in overlapped
    <3>1. Deducting(u) # {} => Reading(u) # {}
      BY DEF Deducting
    <3> QED
      BY <1>1, <3>1 DEF GetBalance
  <2>2. Pasts' = Pasts
    BY <2>1 DEF Pasts, Past
  <2>3. Outcomes' = Outcomes
    <3>1. \A d \in Calls : Outcome(d)' = Outcome(d)
      BY <1>1 DEF GetBalance, TypeOK, Outcome
    <3> QED
      BY <3>1 DEF Outcomes
  <2>4. CASE overlapped' = overlapped /\ contended' = contended
    BY <2>1, <2>2, <2>3, <2>4 DEF Atomic!vars, Pasts, Outcomes
  <2>5. CASE ~(overlapped' = overlapped /\ contended' = contended)
    <3>1. overlapped' = overlapped \cup {u}
      BY <2>1, <2>5
    <3>2. Atomic!Overlap(u)
      BY <2>1, <2>2, <2>3, <3>1 DEF Atomic!Overlap, Pasts, Outcomes
    <3> QED
      BY <3>2 DEF Atomic!Next
  <2> QED
    BY <2>4, <2>5
<1>2. ASSUME NEW c \in Calls, NEW u \in Users, NEW amount \in Amounts,
             DeductBalanceRefused(c, u, amount)
      PROVE  Atomic!Next
  <2>1. Atomic!Ends(c, "refused")
    BY <1>2, EndsAtomically DEF DeductBalanceRefused
  <2>2. Pasts' = Pasts
    BY <1>2 DEF DeductBalanceRefused, Pasts, Past
  <2>3. Atomic!Refuse(c, u, amount)
    BY <1>2, <2>1, <2>2 DEF DeductBalanceRefused, Atomic!Refuse, Pasts
  <2> QED
    BY <2>3 DEF Atomic!Next
<1>3. ASSUME NEW c \in Calls, Write(c)
      PROVE  Atomic!Next
  <2> DEFINE k == call[c]
  <2>1. /\ k.at = "reading"
        /\ k.user \in Users /\ k.type \in MutationType
        /\ k.amount \in Amounts /\ k.amount \in Nat
    BY <1>3, ReadingCall DEF Write
  <2>2. Atomic!Ends(c, "done")
    BY <1>3, <2>1, EndsAtomically DEF Write
  <2>3. Atomic!Post(k.user, k.type, k.amount, Moved(k))
    BY <1>3, PostsAtomically
  <2>4. CASE k.type = "IN"
    <3>1. Moved(k) = balance[k.user] + k.amount
      BY <2>4 DEF Moved, Signed
    <3>2. Atomic!Add(c, k.user, k.amount)
      BY <2>2, <2>3, <2>4, <3>1 DEF Atomic!Add
    <3> QED
      BY <2>1, <3>2 DEF Atomic!Next
  <2>5. CASE k.type = "OUT"
    <3>1. Moved(k) = balance[k.user] - k.amount
      BY <2>1, <2>5 DEF Moved, Signed, TypeOK
    <3>2. k.user \notin contended => balance[k.user] >= k.amount
      BY <2>1, <2>5 DEF CoveredInv, Deducting, Reading
    <3>3. Atomic!Deduct(c, k.user, k.amount)
      BY <2>2, <2>3, <2>5, <3>1, <3>2 DEF Atomic!Deduct
    <3> QED
      BY <2>1, <3>3 DEF Atomic!Next
  <2> QED
    BY <2>1, <2>4, <2>5 DEF MutationType
<1>4. ASSUME NEW c \in Calls, WriteFails(c)
      PROVE  Atomic!Next
  <2>1. Atomic!Ends(c, "failed")
    BY <1>4, EndsAtomically DEF WriteFails
  <2>2. Pasts' = Pasts
    BY <1>4 DEF WriteFails, Pasts, Past
  <2>3. Atomic!Fail(c)
    BY <1>4, <2>1, <2>2 DEF WriteFails, Atomic!Fail, Pasts
  <2> QED
    BY <2>3 DEF Atomic!Next
<1>5. CASE UNCHANGED vars
  BY <1>5 DEF vars, Atomic!vars, Past, Outcome
<1> QED
  BY <1>1, <1>2, <1>3, <1>4, <1>5
     DEF Next, AddBalanceRead, DeductBalanceRead, MutationType

\* addBalance and deductBalance, which read and write in two steps, act as if
\* each were one step, with the exceptions AtomicBalance names.
THEOREM Acts_Atomically == Spec => ActsAtomically
<1>1. Init => PastInv /\ Atomic!Init
  <2> SUFFICES ASSUME Init PROVE PastInv /\ Atomic!Init
    OBVIOUS
  <2>1. PastInv
    BY DEF Init, PastInv
  <2>2. ASSUME NEW u \in Users
        PROVE  Past(u) = {InitialBalance[u]}
    <3>1. mutations[u] = << >> /\ Len(mutations[u]) = 0
      BY DEF Init
    <3>2. Totals(mutations[u])[0] = 0
      BY <3>1, TotalsIsTotal DEF IsTotal
    <3>3. InitialBalance[u] + 0 = InitialBalance[u]
      BY InitialAssumption
    <3> QED
      BY <3>1, <3>2, <3>3 DEF Past
  <2>3. Pasts = [u \in Users |-> {InitialBalance[u]}]
    BY <2>2 DEF Pasts
  <2>4. Outcomes = [c \in Calls |-> "pending"]
    BY DEF Init, Outcomes, Outcome
  <2> QED
    BY <2>1, <2>3, <2>4 DEF Init, Atomic!Init, Pasts, Outcomes
<1>2. TypeOK /\ LedgerExplainsBalance /\ PastInv /\ [Next]_vars => PastInv'
  BY NextKeepsPast
<1>3. /\ TypeOK /\ LedgerExplainsBalance /\ PastInv
      /\ NoOverdraftUnlessContended /\ CoveredInv
      /\ StatementHoldsUnlessOverlapped /\ AloneInv
      /\ [Next]_vars
      => [Atomic!Next]_(Atomic!vars)
  BY NextActsAtomically
<1> QED
  BY <1>1, <1>2, <1>3, TypeCorrect, Ledger_Explains_Balance, CoverHolds,
     StatementHolds, PTL DEF Spec, ActsAtomically, Atomic!Spec

=============================================================================
