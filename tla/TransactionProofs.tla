------------------------- MODULE TransactionProofs -------------------------
(***************************************************************************)
(* Theorems about Transaction: the safety of an order, that its refund     *)
(* implements PayOnce and that the order as a whole implements             *)
(* AtomicOrder, for any orders, requests, jobs, concurrency, number of     *)
(* crashes and administrator.                                              *)
(*                                                                         *)
(* The properties are not inductive.  RowInv says who may still write the  *)
(* first status of an order and what a cancellation knows; MoneyInv        *)
(* relates the row to the payment; AnswerInv and SupplyInv relate all that *)
(* remembers an answer of the supplier to what the supplier really did;    *)
(* OnceInv follows the right to run the order's job from the PENDING row   *)
(* to the handler that adds it, to the job, to the refund; StockInv counts *)
(* the jobs that may still restock; OwedInv says who goes on with an order *)
(* that is owed a delivery, a status or a refund; BlankInv says that an    *)
(* order without a row is still PENDING and untouched; RerunInv counts the *)
(* refunds of an order by the runs of its job.                             *)
(***************************************************************************)
EXTENDS Transaction, FiniteSetTheorems, TLAPS

\* Request r is at one of these points for order t.
RequestOf(r, t, ats) == request[r].at \in ats /\ request[r].trx = t

\* Job j was added for order t and is at one of these points.
JobOf(j, t, ats) == job[j].at \in ats /\ job[j].trx = t

Added == {"waiting", "found", "ordered", "refunding", "refunded",
          "restocking", "done"}

\* An order that is being created has no row yet and nobody else creates it;
\* everything else found a row; who is about to write CANCELED canceled the
\* payment.
RowInv(t) ==
  /\ invoice[t] = "none" => row[t].paidStatus = "NONE"
  /\ \A r \in Requests : RequestOf(r, t, {"creating"}) =>
       /\ invoice[t] # "none" /\ row[t].paidStatus = "NONE"
       /\ \A q \in Requests : RequestOf(q, t, {"creating"}) => q = r
  /\ \A r \in Requests :
       RequestOf(r, t, {"cancelling", "canceled", "updating"})
         => row[t].paidStatus # "NONE"
  /\ \A r \in Requests : RequestOf(r, t, {"canceled"}) => invoice[t] = "canceled"

\* Only what is paid for is ordered, and only what was paid is PAID.
MoneyInv(t) ==
  Untouched(t) =>
    /\ supply[t] # "none" => row[t].paidStatus = "PAID"
    /\ row[t].paidStatus = "PAID" => invoice[t] \in {"paid", "saldo"}
    /\ \A j \in Jobs : JobOf(j, t, {"found"}) => row[t].paidStatus = "PAID"

\* An answer of the supplier may be old, but a final one is still true.
AnswerInv(t) ==
  /\ \A j \in Jobs : JobOf(j, t, {"ordered"}) =>
       /\ supply[t] # "none"
       /\ job[j].answer \in SupplierStatus
       /\ job[j].answer \in {"Sukses", "Gagal"} => supply[t] = job[j].answer
  /\ \A said \in SupplierStatus : <<t, said>> \in notices =>
       /\ supply[t] # "none"
       /\ said \in {"Sukses", "Gagal"} => supply[t] = said

\* Statuses and refunds of an order are what the supplier said.
SupplyInv(t) ==
  Untouched(t) =>
    /\ row[t].orderStatus = "SUCCESS" => supply[t] = "Sukses"
    /\ row[t].orderStatus = "FAILED" => supply[t] = "Gagal" \/ "misread" \in mark[t]
    /\ row[t].isRefunded => supply[t] = "Gagal"
    /\ refunds[t] > 0 => supply[t] = "Gagal"
    /\ \A j \in Jobs : JobOf(j, t, {"refunding"}) => supply[t] = "Gagal"

\* At most one of a PENDING (or not yet committed) row, a handler about to add
\* the job, and a job exists; unless it is run again, the job refunds once.
OnceInv(t) ==
  Untouched(t) =>
    /\ row[t].paidStatus \in {"NONE", "PENDING"} =>
         /\ refunds[t] = 0
         /\ \A r \in Requests : ~RequestOf(r, t, {"enqueueing"})
         /\ \A j \in Jobs : ~JobOf(j, t, Added)
    /\ \A r \in Requests : RequestOf(r, t, {"enqueueing"}) =>
         /\ request[r].names = {"transaction"}
         /\ refunds[t] = 0
         /\ \A q \in Requests : RequestOf(q, t, {"enqueueing"}) => q = r
         /\ \A j \in Jobs : ~JobOf(j, t, Added)
    /\ \A j \in Jobs : JobOf(j, t, Added) =>
         \A i \in Jobs : JobOf(i, t, Added) => i = j
    /\ "reexecuted" \notin mark[t] =>
         /\ refunds[t] <= 1
         /\ \A j \in Jobs :
              JobOf(j, t, {"waiting", "found", "ordered", "refunding"})
                => refunds[t] = 0

\* The jobs that have refunded and will restock.
ToRestock(t) == {j \in Jobs : JobOf(j, t, {"refunded", "restocking"})}

\* Each increment of the stock was, or will be, made by a job that refunded.
StockInv(t) ==
  /\ restocks[t] + Cardinality(ToRestock(t)) <= refunds[t]
  /\ Untouched(t) /\ row[t].refundStatus = "SUCCESS" => refunds[t] >= 1

-----------------------------------------------------------------------------
(* Types.                                                                  *)

LEMMA RequestType ==
  ASSUME TypeOK, NEW r \in Requests, request[r].at # "idle"
  PROVE  /\ request[r].trx \in Trx
         /\ request[r].at = "creating" => request[r].ofUser \in BOOLEAN
         /\ request[r].at = "updating" => request[r].paid \in PaidStatus
         /\ request[r].at = "enqueueing" =>
              request[r].names \in (SUBSET JobNames) \ {{}}
<1> request[r] \in Request
  BY DEF TypeOK
<1> QED
  BY DEF Request

LEMMA RequestStates ==
  /\ Idle \in Request
  /\ \A t \in Trx, ofUser \in BOOLEAN :
       [at |-> "creating", trx |-> t, ofUser |-> ofUser] \in Request
  /\ \A t \in Trx, at \in {"cancelling", "canceled"} :
       [at |-> at, trx |-> t] \in Request
  /\ \A t \in Trx, paid \in PaidStatus, refunded \in BOOLEAN :
       [at |-> "updating", trx |-> t, paid |-> paid, refunded |-> refunded]
         \in Request
  /\ \A t \in Trx, names \in (SUBSET JobNames) \ {{}} :
       [at |-> "enqueueing", trx |-> t, names |-> names] \in Request
BY DEF Idle, Request

\* A request goes on to one of its states, the others stay where they are.
LEMMA GotoTypes ==
  ASSUME TypeOK, NEW r \in Requests, NEW state \in Request, Goto(r, state)
  PROVE  /\ request' \in [Requests -> Request]
         /\ request'[r] = state
         /\ \A q \in Requests \ {r} : request'[q] = request[q]
  BY DEF TypeOK, Goto

LEMMA ToEnqueueTypes ==
  ASSUME TypeOK, NEW r \in Requests, NEW t \in Trx, NEW names \in SUBSET JobNames,
         ToEnqueue(r, t, names)
  PROVE  /\ request' \in [Requests -> Request]
         /\ names = {} => request'[r] = Idle
         /\ names # {} =>
              request'[r] = [at |-> "enqueueing", trx |-> t, names |-> names]
         /\ \A q \in Requests \ {r} : request'[q] = request[q]
<1>1. CASE names = {}
  BY <1>1, GotoTypes, RequestStates DEF ToEnqueue
<1>2. CASE names # {}
  <2> DEFINE state == [at |-> "enqueueing", trx |-> t, names |-> names]
  <2>1. state \in Request
    BY <1>2, RequestStates
  <2>2. Goto(r, state)
    BY <1>2 DEF ToEnqueue
  <2> HIDE DEF state
  <2>3. /\ request' \in [Requests -> Request]
        /\ request'[r] = state
        /\ \A q \in Requests \ {r} : request'[q] = request[q]
    BY <2>1, <2>2, GotoTypes
  <2> QED
    BY <1>2, <2>3 DEF state
<1> QED
  BY <1>1, <1>2

LEMMA JobType ==
  ASSUME TypeOK, NEW j \in Jobs, job[j].at # "none"
  PROVE  /\ job[j] \in [at : Added, name : JobNames, trx : Trx,
                        stalls : 0..MaxStalled,
                        answer : SupplierStatus \cup {"none"}]
         /\ job[j].trx \in Trx /\ job[j].at \in Added
<1> job[j] \in Job
  BY DEF TypeOK
<1> QED
  BY DEF Job, Added

\* A job that is moved on, with or without its answer, is still a job of its
\* order; the others stay where they are.
LEMMA JobMoves ==
  ASSUME TypeOK, NEW j \in Jobs, job[j].at # "none", NEW at \in Added,
         NEW answer \in SupplierStatus \cup {"none"},
         \/ job' = [job EXCEPT ![j].at = at, ![j].answer = answer]
         \/ job' = [job EXCEPT ![j].at = at] /\ answer = job[j].answer
  PROVE  /\ job' \in [Jobs -> Job]
         /\ job'[j].at = at /\ job'[j].answer = answer
         /\ job'[j].trx = job[j].trx
         /\ \A i \in Jobs \ {j} : job'[i] = job[i]
<1>1. PICK a \in Added, n \in JobNames, t \in Trx, s \in 0..MaxStalled,
           w \in SupplierStatus \cup {"none"} :
        job[j] = [at |-> a, name |-> n, trx |-> t, stalls |-> s, answer |-> w]
  BY JobType
<1>2. job'[j] = [at |-> at, name |-> n, trx |-> t, stalls |-> s,
                 answer |-> answer]
  BY <1>1 DEF TypeOK
<1>3. job'[j] \in Job
  BY <1>2 DEF Job, Added
<1>4. \A i \in Jobs \ {j} : job'[i] = job[i]
  BY DEF TypeOK
<1>5. job' \in [Jobs -> Job]
  BY <1>3, <1>4 DEF TypeOK
<1> QED
  BY <1>1, <1>2, <1>4, <1>5

\* What a cancellation leaves of a row.
LEMMA CanceledRow ==
  ASSUME NEW k \in Row
  PROVE  LET new == Updated(k, [orderStatus |-> "CANCELED",
                                paidStatus |-> "CANCELED"])
         IN /\ new \in Row
            /\ new.paidStatus = "CANCELED" /\ new.orderStatus = "CANCELED"
            /\ new.isRefunded = k.isRefunded
            /\ new.refundStatus = k.refundStatus
<1> DEFINE data == [orderStatus |-> "CANCELED", paidStatus |-> "CANCELED"]
           new == Updated(k, data)
<1>1. new = [ofUser |-> k.ofUser, paidStatus |-> "CANCELED",
             orderStatus |-> "CANCELED", isRefunded |-> k.isRefunded,
             refundStatus |-> k.refundStatus]
  BY DEF Updated, Row
<1> QED
  BY <1>1 DEF Row, PaidStatus, OrderStatus

\* The parts of a row that a step writes one by one.
LEMMA RowFields ==
  ASSUME TypeOK, NEW t \in Trx,
         NEW paid \in PaidStatus, NEW status \in OrderStatus,
         NEW refund \in RefundStatus,
         \/ row' = [row EXCEPT ![t].paidStatus = paid]
         \/ row' = [row EXCEPT ![t].orderStatus = status]
         \/ row' = [row EXCEPT ![t].refundStatus = refund]
  PROVE  row' \in [Trx -> Row]
<1>1. PICK u \in BOOLEAN, p \in PaidStatus \cup {"NONE"}, o \in OrderStatus,
           i \in BOOLEAN, f \in RefundStatus :
        row[t] = [ofUser |-> u, paidStatus |-> p, orderStatus |-> o,
                  isRefunded |-> i, refundStatus |-> f]
  BY DEF TypeOK, Row
<1>2. row'[t] \in Row
  <2>1. CASE row' = [row EXCEPT ![t].paidStatus = paid]
    <3>1. row'[t] = [ofUser |-> u, paidStatus |-> paid, orderStatus |-> o,
                     isRefunded |-> i, refundStatus |-> f]
      BY <1>1, <2>1 DEF TypeOK
    <3> QED
      BY <3>1 DEF Row
  <2>2. CASE row' = [row EXCEPT ![t].orderStatus = status]
    <3>1. row'[t] = [ofUser |-> u, paidStatus |-> p, orderStatus |-> status,
                     isRefunded |-> i, refundStatus |-> f]
      BY <1>1, <2>2 DEF TypeOK
    <3> QED
      BY <3>1 DEF Row
  <2>3. CASE row' = [row EXCEPT ![t].refundStatus = refund]
    <3>1. row'[t] = [ofUser |-> u, paidStatus |-> p, orderStatus |-> o,
                     isRefunded |-> i, refundStatus |-> refund]
      BY <1>1, <2>3 DEF TypeOK
    <3> QED
      BY <3>1 DEF Row
  <2> QED
    BY <2>1, <2>2, <2>3
<1>3. \A e \in Trx \ {t} : row'[e] = row[e]
  BY DEF TypeOK
<1>4. row' = [e \in Trx |-> row'[e]]
  BY DEF TypeOK
<1> QED
  BY <1>2, <1>3, <1>4 DEF TypeOK

\* What WriteOrderStatus writes.
LEMMA OrderWritten ==
  ASSUME TypeOK, NEW j \in Jobs, WriteOrderStatus(j)
  PROVE  LET t == job[j].trx
             status == OrderStatusOf(job[j].answer)
         IN /\ t \in Trx /\ status \in OrderStatus
            /\ row' \in [Trx -> Row]
            /\ row'[t].ofUser = row[t].ofUser
            /\ row'[t].paidStatus = row[t].paidStatus
            /\ row'[t].orderStatus = status
            /\ row'[t].isRefunded = (row[t].isRefunded \/ status = "FAILED")
            /\ row'[t].refundStatus =
                 IF Refunds(status, row[t]) THEN "PROCESS" ELSE row[t].refundStatus
            /\ \A e \in Trx \ {t} : row'[e] = row[e]
<1> DEFINE t == job[j].trx
           status == OrderStatusOf(job[j].answer)
           refund == Refunds(status, row[t])
<1>1. t \in Trx
  BY JobType DEF WriteOrderStatus
<1>2. status \in OrderStatus
  BY DEF OrderStatusOf, OrderStatus
<1>3. PICK u \in BOOLEAN, p \in PaidStatus \cup {"NONE"}, o \in OrderStatus,
           i \in BOOLEAN, f \in RefundStatus :
        row[t] = [ofUser |-> u, paidStatus |-> p, orderStatus |-> o,
                  isRefunded |-> i, refundStatus |-> f]
  BY <1>1 DEF TypeOK, Row
<1>4. PICK refunded \in BOOLEAN : refunded = (row[t].isRefunded \/ status = "FAILED")
  OBVIOUS
<1>5. PICK new \in RefundStatus :
        new = IF refund THEN "PROCESS" ELSE row[t].refundStatus
  BY <1>3 DEF RefundStatus
<1>6. /\ row'[t] = [row[t] EXCEPT
           !.orderStatus = status,
           !.isRefunded = row[t].isRefunded \/ status = "FAILED",
           !.refundStatus = IF refund THEN "PROCESS" ELSE row[t].refundStatus]
      /\ \A e \in Trx \ {t} : row'[e] = row[e]
      /\ row' = [e \in Trx |-> row'[e]]
  BY <1>1 DEF WriteOrderStatus, TypeOK
<1> HIDE DEF t, status, refund
<1>7. row'[t] = [row[t] EXCEPT !.orderStatus = status, !.isRefunded = refunded,
                               !.refundStatus = new]
  BY <1>4, <1>5, <1>6
<1>8. row'[t] = [ofUser |-> u, paidStatus |-> p, orderStatus |-> status,
                 isRefunded |-> refunded, refundStatus |-> new]
  <2> DEFINE found == [ofUser |-> u, paidStatus |-> p, orderStatus |-> o,
                       isRefunded |-> i, refundStatus |-> f]
  <2>1. row'[t] = [found EXCEPT !.orderStatus = status,
                     !.isRefunded = refunded, !.refundStatus = new]
    BY <1>3, <1>7, Zenon
  <2> QED
    BY <2>1
<1>9. row'[t] \in Row
  BY <1>2, <1>3, <1>8 DEF Row
<1>10. row' \in [Trx -> Row]
  BY <1>6, <1>9 DEF TypeOK
<1> QED
  BY <1>1, <1>2, <1>3, <1>4, <1>5, <1>6, <1>8, <1>10 DEF t, status, refund

\* What a write of orderStatus does to the truth.
LEMMA MarksOfTypes ==
  ASSUME NEW t, NEW status
  PROVE  MarksOf(t, status) \subseteq {"regressed", "misread"}
BY DEF MarksOf

\* The type invariant survives every step.
LEMMA StepTypes ==
  ASSUME TypeOK, [Next]_vars
  PROVE  TypeOK'
<1> USE DEF TypeOK
<1>1. ASSUME NEW r \in Requests, NEW t \in Trx, NEW ofUser \in BOOLEAN,
             NEW method \in {"open", "saldo"}, CreatePayment(r, t, ofUser, method)
      PROVE  TypeOK'
  <2>1. request' \in [Requests -> Request]
    BY <1>1, GotoTypes, RequestStates DEF CreatePayment
  <2> QED
    BY <1>1, <2>1 DEF CreatePayment
<1>2. ASSUME NEW r \in Requests, CreateCommit(r)
      PROVE  TypeOK'
  <2>1. request[r].trx \in Trx /\ request[r].ofUser \in BOOLEAN
    BY <1>2, RequestType DEF CreateCommit
  <2>2. \A paid \in {"PAID", "PENDING"} : NewRow(request[r].ofUser, paid) \in Row
    BY <2>1 DEF NewRow, Row, PaidStatus, OrderStatus, RefundStatus
  <2>3. row' \in [Trx -> Row]
    BY <1>2, <2>2 DEF CreateCommit
  <2>4. PICK names \in SUBSET JobNames : ToEnqueue(r, request[r].trx, names)
    BY <1>2 DEF CreateCommit, JobNames
  <2>5. request' \in [Requests -> Request]
    BY <2>1, <2>4, ToEnqueueTypes
  <2> QED
    BY <1>2, <2>3, <2>5 DEF CreateCommit
<1>3. ASSUME NEW r \in Requests, CreateRollback(r)
      PROVE  TypeOK'
  BY <1>3, GotoTypes, RequestStates DEF CreateRollback
<1>4. ASSUME NEW t \in Trx, NEW outcome \in {"paid", "canceled"},
             SettleInvoice(t, outcome)
      PROVE  TypeOK'
  BY <1>4 DEF SettleInvoice
<1>5. ASSUME NEW t \in Trx, PassDeadline(t)
      PROVE  TypeOK'
  BY <1>5 DEF PassDeadline
<1>6. ASSUME NEW r \in Requests, NEW t \in Trx, TransactionCallback(r, t)
      PROVE  TypeOK'
  <2>1. row' \in [Trx -> Row]
    <3>1. PICK paid \in PaidStatus : row' = [row EXCEPT ![t].paidStatus = paid]
      BY <1>6 DEF TransactionCallback, PaidStatus
    <3> QED
      BY <3>1, RowFields DEF OrderStatus, RefundStatus
  <2>2. request' \in [Requests -> Request]
    BY <1>6, ToEnqueueTypes DEF TransactionCallback, JobNames
  <2> QED
    BY <1>6, <2>1, <2>2 DEF TransactionCallback
<1>7. ASSUME NEW r \in Requests, AddJob(r)
      PROVE  TypeOK'
  <2>1. /\ request[r].trx \in Trx
        /\ request[r].names \in SUBSET JobNames
    BY <1>7, RequestType DEF AddJob
  <2>2. request' \in [Requests -> Request]
    <3>1. PICK names \in SUBSET JobNames : ToEnqueue(r, request[r].trx, names)
      BY <1>7, <2>1 DEF AddJob
    <3> QED
      BY <2>1, <3>1, ToEnqueueTypes
  <2>3. job' \in [Jobs -> Job]
    <3>1. PICK j \in Jobs, name \in JobNames : job' = [job EXCEPT ![j] =
             [at |-> "waiting", name |-> name, trx |-> request[r].trx,
              stalls |-> 0, answer |-> "none"]]
      BY <1>7 DEF AddJob, JobNames
    <3>2. [at |-> "waiting", name |-> name, trx |-> request[r].trx,
           stalls |-> 0, answer |-> "none"] \in Job
      BY <2>1, BoundsAssumption DEF Job
    <3> QED
      BY <3>1, <3>2
  <2> QED
    BY <1>7, <2>2, <2>3 DEF AddJob
<1>8. ASSUME HandleExpiredTransaction
      PROVE  TypeOK'
  <2>1. ASSUME NEW t \in Trx PROVE [row[t] EXCEPT !.paidStatus = "EXPIRED"] \in Row
    <3>1. row[t] \in Row
      OBVIOUS
    <3> QED
      BY <3>1 DEF Row, PaidStatus
  <2> QED
    BY <1>8, <2>1 DEF HandleExpiredTransaction
<1>9. ASSUME NEW r \in Requests, NEW t \in Trx, CancelFind(r, t)
      PROVE  TypeOK'
  BY <1>9, GotoTypes, RequestStates DEF CancelFind
<1>10. ASSUME NEW r \in Requests, CancelPayment(r)
       PROVE  TypeOK'
  <2>1. request[r].trx \in Trx
    BY <1>10, RequestType DEF CancelPayment
  <2>2. PICK state \in Request : Goto(r, state)
    BY <1>10, <2>1, RequestStates DEF CancelPayment
  <2>3. request' \in [Requests -> Request]
    BY <2>2, GotoTypes
  <2>4. invoice' \in [Trx -> {"none", "open", "saldo", "paid", "canceled"}]
    BY <1>10, <2>1 DEF CancelPayment
  <2> QED
    BY <1>10, <2>3, <2>4 DEF CancelPayment
<1>11. ASSUME NEW r \in Requests, CancelWrite(r)
       PROVE  TypeOK'
  <2>1. request[r].trx \in Trx
    BY <1>11, RequestType DEF CancelWrite
  <2>2. row' \in [Trx -> Row]
    BY <1>11, <2>1, CanceledRow DEF CancelWrite
  <2>3. request' \in [Requests -> Request]
    BY <1>11, GotoTypes, RequestStates DEF CancelWrite
  <2> QED
    BY <1>11, <2>2, <2>3 DEF CancelWrite
<1>12. ASSUME NEW r \in Requests, NEW t \in Trx, UpdateStatusFind(r, t)
       PROVE  TypeOK'
  <2>1. row[t].paidStatus \in PaidStatus /\ row[t].isRefunded \in BOOLEAN
    BY <1>12 DEF UpdateStatusFind, Row
  <2> QED
    BY <1>12, <2>1, GotoTypes, RequestStates DEF UpdateStatusFind
<1>13. ASSUME NEW r \in Requests, NEW data \in AdminChanges,
              UpdateStatusWrite(r, data)
       PROVE  TypeOK'
  <2> DEFINE t == request[r].trx
  <2>1. t \in Trx
    BY <1>13, RequestType DEF UpdateStatusWrite
  <2>2. Updated(row[t], data) \in Row
    BY <2>1, AdminAssumption
  <2>3. row' \in [Trx -> Row]
    BY <1>13, <2>1, <2>2 DEF UpdateStatusWrite
  <2>4. PICK names \in SUBSET JobNames : ToEnqueue(r, t, names)
    BY <1>13 DEF UpdateStatusWrite
  <2>5. request' \in [Requests -> Request]
    BY <2>1, <2>4, ToEnqueueTypes
  <2>6. mark' \in [Trx -> SUBSET Marks]
    BY <1>13, <2>1 DEF UpdateStatusWrite, Marks
  <2> QED
    BY <1>13, <2>3, <2>5, <2>6 DEF UpdateStatusWrite
<1>14. ASSUME NEW j \in Jobs, NEW routed \in BOOLEAN, FindPaid(j, routed)
       PROVE  TypeOK'
  <2>1. job[j].trx \in Trx /\ job[j].answer \in SupplierStatus \cup {"none"}
    BY <1>14, JobType DEF FindPaid
  <2>2. PICK at \in Added : job' = [job EXCEPT ![j].at = at]
    BY <1>14 DEF FindPaid, Move, Added
  <2>3. job' \in [Jobs -> Job]
    BY <1>14, <2>1, <2>2, JobMoves DEF FindPaid
  <2>4. mark' \in [Trx -> SUBSET Marks]
    BY <1>14, <2>1 DEF FindPaid, Marks
  <2> QED
    BY <1>14, <2>3, <2>4 DEF FindPaid
<1>15. ASSUME NEW j \in Jobs, FindToRefund(j)
       PROVE  TypeOK'
  <2>1. job[j].answer \in SupplierStatus \cup {"none"}
    BY <1>15, JobType DEF FindToRefund
  <2>2. PICK at \in Added : job' = [job EXCEPT ![j].at = at]
    BY <1>15 DEF FindToRefund, Move, Added
  <2>3. job' \in [Jobs -> Job]
    BY <1>15, <2>1, <2>2, JobMoves DEF FindToRefund
  <2> QED
    BY <1>15, <2>3 DEF FindToRefund
<1>16. ASSUME NEW j \in Jobs, NEW answer \in SupplierStatus,
              OrderAtSupplier(j, answer)
       PROVE  TypeOK'
  <2>1. job[j].trx \in Trx
    BY <1>16, JobType DEF OrderAtSupplier
  <2>2. job' \in [Jobs -> Job]
    BY <1>16, JobMoves DEF OrderAtSupplier, Added
  <2> QED
    BY <1>16, <2>1, <2>2 DEF OrderAtSupplier
<1>17. ASSUME NEW j \in Jobs, WriteOrderStatus(j)
       PROVE  TypeOK'
  <2>1. job[j].trx \in Trx /\ row' \in [Trx -> Row]
    BY <1>17, OrderWritten
  <2>2. PICK at \in Added : job' = [job EXCEPT ![j].at = at, ![j].answer = "none"]
    BY <1>17 DEF WriteOrderStatus, Added
  <2>3. job' \in [Jobs -> Job]
    BY <1>17, <2>2, JobMoves DEF WriteOrderStatus
  <2>4. mark' \in [Trx -> SUBSET Marks]
    BY <1>17, <2>1, MarksOfTypes DEF WriteOrderStatus, Marks
  <2> QED
    BY <1>17, <2>1, <2>3, <2>4 DEF WriteOrderStatus
<1>18. ASSUME NEW j \in Jobs, Refund(j)
       PROVE  TypeOK'
  <2>1. job[j].trx \in Trx /\ job[j].answer \in SupplierStatus \cup {"none"}
    BY <1>18, JobType DEF Refund
  <2>2. job' \in [Jobs -> Job]
    BY <1>18, <2>1, JobMoves DEF Refund, Move, Added
  <2> QED
    BY <1>18, <2>1, <2>2 DEF Refund
<1>19. ASSUME NEW j \in Jobs, RecordRefund(j)
       PROVE  TypeOK'
  <2>1. job[j].trx \in Trx /\ job[j].answer \in SupplierStatus \cup {"none"}
    BY <1>19, JobType DEF RecordRefund
  <2>2. job' \in [Jobs -> Job]
    BY <1>19, <2>1, JobMoves DEF RecordRefund, Move, Added
  <2>3. row' \in [Trx -> Row]
    BY <1>19, <2>1, RowFields DEF RecordRefund, RefundStatus, OrderStatus, PaidStatus
  <2> QED
    BY <1>19, <2>2, <2>3 DEF RecordRefund
<1>20. ASSUME NEW j \in Jobs, Restock(j)
       PROVE  TypeOK'
  <2>1. job[j].trx \in Trx /\ job[j].answer \in SupplierStatus \cup {"none"}
    BY <1>20, JobType DEF Restock
  <2>2. job' \in [Jobs -> Job]
    BY <1>20, <2>1, JobMoves DEF Restock, Move, Added
  <2> QED
    BY <1>20, <2>1, <2>2 DEF Restock
<1>21. ASSUME NEW j \in Jobs, JobError(j)
       PROVE  TypeOK'
  <2>1. job[j].at # "none"
    BY <1>21 DEF JobError, Running
  <2>2. job[j].trx \in Trx
    BY <2>1, JobType
  <2>3. job' \in [Jobs -> Job]
    BY <1>21, <2>1, JobMoves DEF JobError, Added
  <2>4. mark' \in [Trx -> SUBSET Marks]
    BY <1>21, <2>2 DEF JobError, Marks
  <2> QED
    BY <1>21, <2>3, <2>4 DEF JobError
<1>22. ASSUME NEW t \in Trx, NEW outcome \in {"Sukses", "Gagal"},
              SupplierSettles(t, outcome)
       PROVE  TypeOK'
  <2>1. mark' \in [Trx -> SUBSET Marks]
    BY <1>22 DEF SupplierSettles, Marks
  <2> QED
    BY <1>22, <2>1 DEF SupplierSettles, SupplierStatus
<1>23. ASSUME NEW t \in Trx, NEW said \in SupplierStatus, DigiflazzCallback(t, said)
       PROVE  TypeOK'
  <2>3. mark' \in [Trx -> SUBSET Marks]
    BY <1>23, MarksOfTypes DEF DigiflazzCallback, Marks
  <2>1. PICK status \in OrderStatus : row' = [row EXCEPT ![t].orderStatus = status]
    BY <1>23 DEF DigiflazzCallback, CallbackStatusOf, OrderStatus
  <2>2. row' \in [Trx -> Row]
    BY <2>1, RowFields DEF RefundStatus, PaidStatus
  <2> QED
    BY <1>23, <2>2, <2>3 DEF DigiflazzCallback
<1>24. ASSUME Crash
       PROVE  TypeOK'
  <2>1. crashes' \in 0..MaxCrashes
    <3>1. crashes < MaxCrashes /\ crashes' = crashes + 1
      BY <1>24, Zenon DEF Crash
    <3> QED
      BY <3>1, BoundsAssumption
  <2>2. request' \in [Requests -> Request]
    BY <1>24, RequestStates DEF Crash
  <2>3. ASSUME NEW j \in Running
        PROVE  /\ [job[j] EXCEPT !.at = "done", !.answer = "none"] \in Job
               /\ j \in PutBack =>
                    [job[j] EXCEPT !.at = "waiting", !.answer = "none",
                                   !.stalls = job[j].stalls + 1] \in Job
    <3>1. j \in Jobs /\ job[j].at # "none"
      BY <2>3 DEF Running
    <3>2. PICK a \in Added, n \in JobNames, t \in Trx, s \in 0..MaxStalled,
               w \in SupplierStatus \cup {"none"} :
            job[j] = [at |-> a, name |-> n, trx |-> t, stalls |-> s, answer |-> w]
      BY <3>1, JobType
    <3> DEFINE old == [at |-> a, name |-> n, trx |-> t, stalls |-> s, answer |-> w]
    <3>3. [old EXCEPT !.at = "done", !.answer = "none"] \in Job
      BY DEF Job
    <3>4. s < MaxStalled =>
            [old EXCEPT !.at = "waiting", !.answer = "none", !.stalls = s + 1]
              \in Job
      <4>1. [old EXCEPT !.at = "waiting", !.answer = "none", !.stalls = s + 1] =
              [at |-> "waiting", name |-> n, trx |-> t, stalls |-> s + 1,
               answer |-> "none"]
        <5> DEFINE k2 == [at |-> "waiting", name |-> n, trx |-> t, stalls |-> s,
                          answer |-> w]
                   k3 == [at |-> "waiting", name |-> n, trx |-> t, stalls |-> s,
                          answer |-> "none"]
                   k4 == [at |-> "waiting", name |-> n, trx |-> t,
                          stalls |-> s + 1, answer |-> "none"]
        <5>1. [old EXCEPT !.at = "waiting"] = k2
          OBVIOUS
        <5>2. [k2 EXCEPT !.answer = "none"] = k3
          OBVIOUS
        <5>3. [k3 EXCEPT !.stalls = s + 1] = k4
          OBVIOUS
        <5> HIDE DEF old, k2, k3, k4
        <5>4. [old EXCEPT !.at = "waiting", !.answer = "none", !.stalls = s + 1] = k4
          BY <5>1, <5>2, <5>3, Zenon
        <5> QED
          BY <5>4 DEF k4
      <4>2. s < MaxStalled => s + 1 \in 0..MaxStalled
        BY BoundsAssumption
      <4>3. s < MaxStalled =>
              [at |-> "waiting", name |-> n, trx |-> t, stalls |-> s + 1,
               answer |-> "none"] \in Job
        BY <4>2 DEF Job
      <4> HIDE DEF old
      <4> QED
        BY <4>1, <4>3, Zenon
    <3>5. job[j] = old /\ job[j].stalls = s
      BY <3>2
    <3>6. j \in PutBack => s < MaxStalled
      <4>1. j \in PutBack => job[j].stalls < MaxStalled
        BY DEF PutBack
      <4> QED
        BY <3>5, <4>1, Zenon
    <3> HIDE DEF old
    <3> QED
      BY <3>3, <3>4, <3>5, <3>6, Zenon
  <2>4. PutBack \subseteq Running
    BY DEF PutBack
  <2>5. job' \in [Jobs -> Job]
    BY <1>24, <2>3, <2>4 DEF Crash
  <2>6. mark' \in [Trx -> SUBSET Marks]
    BY <1>24 DEF Crash, Marks
  <2> QED
    BY <1>24, <2>1, <2>2, <2>5, <2>6 DEF Crash
<1>25. ASSUME UNCHANGED vars
       PROVE  TypeOK'
  BY <1>25 DEF vars
<1>26. ASSUME NEW r \in Requests, QueueAddFails(r)
       PROVE  TypeOK'
  <2>1. request[r].trx \in Trx
    BY <1>26, RequestType DEF QueueAddFails
  <2>2. request' \in [Requests -> Request]
    BY <1>26, GotoTypes, RequestStates DEF QueueAddFails
  <2>3. mark' \in [Trx -> SUBSET Marks]
    BY <1>26, <2>1 DEF QueueAddFails, Marks
  <2> QED
    BY <1>26, <2>2, <2>3 DEF QueueAddFails
<1>27. ASSUME NEW t \in Trx, SupplierNotifies(t)
       PROVE  TypeOK'
  BY <1>27 DEF SupplierNotifies
<1> QED
  BY <1>1, <1>2, <1>3, <1>4, <1>5, <1>6, <1>7, <1>8, <1>9, <1>10, <1>11, <1>12,
     <1>13, <1>14, <1>15, <1>16, <1>17, <1>18, <1>19, <1>20, <1>21, <1>22, <1>23,
     <1>24, <1>25, <1>26, <1>27
     DEF Next, RequestStarts, RequestGoesOn, JobGoesOn, Environment

\* Every variable keeps its type, for any orders, requests, jobs and
\* administrator: no handler writes a status outside the enums of the schema.
THEOREM TypeCorrect == Spec => []TypeOK
<1>1. Init => TypeOK
  <2>1. NewRow(FALSE, "NONE") \in Row
    BY DEF NewRow, Row, OrderStatus, RefundStatus
  <2>2. [at |-> "none"] \in Job
    BY DEF Job
  <2>3. Init => job \in [Jobs -> Job]
    BY <2>2 DEF Init
  <2>4. Init => request \in [Requests -> Request]
    BY RequestStates DEF Init
  <2>5. Init => row \in [Trx -> Row]
    BY <2>1 DEF Init
  <2>6. Init => /\ invoice \in [Trx -> {"none", "open", "saldo", "paid", "canceled"}]
                /\ supply \in [Trx -> SupplierStatus \cup {"none"}]
                /\ refunds \in [Trx -> Nat] /\ restocks \in [Trx -> Nat]
                /\ mark \in [Trx -> SUBSET Marks]
    BY DEF Init
  <2>7. Init => overdue \subseteq Trx /\ notices \subseteq Trx \X SupplierStatus
                  /\ crashes \in 0..MaxCrashes
    BY BoundsAssumption DEF Init
  <2> QED
    BY <2>3, <2>4, <2>5, <2>6, <2>7 DEF TypeOK
<1> QED
  BY <1>1, StepTypes, PTL DEF Spec

-----------------------------------------------------------------------------
(* What a step must leave alone for each part of the invariant of an order. *)

\* The requests that are at these points for order t are where they were.
RequestsKept(t, ats) ==
  \A r \in Requests :
    request'[r].at \in ats /\ request'[r].trx = t => request'[r] = request[r]

\* The jobs of order t that are at these points were at one of them before.
JobsKept(t, ats) ==
  \A j \in Jobs :
    job'[j].at \in ats /\ job'[j].trx = t => job[j].at \in ats /\ job[j].trx = t

AnswersKept(t) ==
  \A j \in Jobs :
    job'[j].at = "ordered" /\ job'[j].trx = t => job'[j] = job[j]

MarksKept(t) == mark[t] \subseteq mark'[t]

Early == {"waiting", "found", "ordered", "refunding"}

LEMMA RowKeeps ==
  ASSUME NEW t \in Trx, RowInv(t),
         row'[t].paidStatus = row[t].paidStatus, invoice'[t] = invoice[t],
         RequestsKept(t, {"creating", "cancelling", "canceled", "updating"})
  PROVE  RowInv(t)'
BY DEF RowInv, RequestOf, RequestsKept

LEMMA MoneyKeeps ==
  ASSUME NEW t \in Trx, MoneyInv(t), MarksKept(t),
         row'[t].paidStatus = row[t].paidStatus,
         invoice[t] \in {"paid", "saldo"} => invoice'[t] = invoice[t],
         supply[t] = "none" => supply'[t] = "none",
         JobsKept(t, {"found"})
  PROVE  MoneyInv(t)'
BY DEF MoneyInv, JobOf, JobsKept, MarksKept, Untouched

LEMMA AnswerKeeps ==
  ASSUME NEW t \in Trx, AnswerInv(t), supply'[t] = supply[t],
         \A said \in SupplierStatus : <<t, said>> \in notices' => <<t, said>> \in notices,
         AnswersKept(t)
  PROVE  AnswerInv(t)'
BY DEF AnswerInv, JobOf, AnswersKept

LEMMA SupplyKeeps ==
  ASSUME NEW t \in Trx, SupplyInv(t), MarksKept(t),
         row'[t].orderStatus = row[t].orderStatus,
         row'[t].isRefunded = row[t].isRefunded,
         supply[t] \in {"Sukses", "Gagal"} => supply'[t] = supply[t],
         refunds'[t] = refunds[t], JobsKept(t, {"refunding"})
  PROVE  SupplyInv(t)'
BY DEF SupplyInv, JobOf, JobsKept, MarksKept, Untouched

LEMMA OnceKeeps ==
  ASSUME NEW t \in Trx, OnceInv(t), MarksKept(t),
         row'[t].paidStatus \in {"NONE", "PENDING"} =>
           row[t].paidStatus \in {"NONE", "PENDING"},
         refunds'[t] = refunds[t], RequestsKept(t, {"enqueueing"}),
         JobsKept(t, Added), JobsKept(t, Early)
  PROVE  OnceInv(t)'
BY DEF OnceInv, RequestOf, JobOf, RequestsKept, JobsKept, MarksKept, Untouched,
       Early

\* The five parts together.
Inv(t) == RowInv(t) /\ MoneyInv(t) /\ AnswerInv(t) /\ SupplyInv(t) /\ OnceInv(t)

\* A step that is not about order t.
LEMMA Elsewhere ==
  ASSUME NEW t \in Trx, Inv(t), MarksKept(t),
         row'[t] = row[t], invoice'[t] = invoice[t], supply'[t] = supply[t],
         \A said \in SupplierStatus : <<t, said>> \in notices' => <<t, said>> \in notices,
         refunds'[t] = refunds[t],
         \A r \in Requests : \/ request'[r].at = "idle"
                             \/ request'[r].trx # t
                             \/ request'[r] = request[r],
         \A j \in Jobs : \/ job'[j].at = "none"
                         \/ job'[j].trx # t
                         \/ job'[j] = job[j]
  PROVE  Inv(t)'
<1>1. /\ RequestsKept(t, {"creating", "cancelling", "canceled", "updating"})
      /\ RequestsKept(t, {"enqueueing"})
  BY DEF RequestsKept
<1>2. /\ JobsKept(t, {"found"}) /\ JobsKept(t, {"refunding"})
      /\ JobsKept(t, Added) /\ JobsKept(t, Early) /\ AnswersKept(t)
  BY DEF JobsKept, AnswersKept, Added, Early
<1> QED
  BY <1>1, <1>2, RowKeeps, MoneyKeeps, AnswerKeeps, SupplyKeeps, OnceKeeps DEF Inv

-----------------------------------------------------------------------------
(* Requests: one lemma for each action, for any order e.                   *)

LEMMA CreatePaymentKeeps ==
  ASSUME TypeOK, NEW e \in Trx, Inv(e), NEW r \in Requests, NEW t \in Trx,
         NEW ofUser \in BOOLEAN, NEW method \in {"open", "saldo"},
         CreatePayment(r, t, ofUser, method)
  PROVE  Inv(e)'
<1> DEFINE state == [at |-> "creating", trx |-> t, ofUser |-> ofUser]
<1>1. /\ request'[r] = state
      /\ \A q \in Requests \ {r} : request'[q] = request[q]
  BY RequestStates, GotoTypes DEF CreatePayment
<1>2. CASE e # t
  BY <1>1, <1>2, Elsewhere DEF CreatePayment, TypeOK, MarksKept
<1>3. CASE e = t
  <2>1. invoice[e] = "none" /\ row[e].paidStatus = "NONE" /\ invoice'[e] = method
    BY <1>3 DEF CreatePayment, Inv, RowInv, TypeOK
  <2>2. /\ row'[e] = row[e] /\ supply'[e] = supply[e] /\ refunds'[e] = refunds[e]
        /\ notices' = notices /\ job' = job /\ MarksKept(e)
    BY DEF CreatePayment, MarksKept
  <2>3. RequestsKept(e, {"enqueueing"})
    BY <1>1 DEF RequestsKept
  <2>4. /\ JobsKept(e, {"found"}) /\ JobsKept(e, {"refunding"})
        /\ JobsKept(e, Added) /\ JobsKept(e, Early) /\ AnswersKept(e)
    BY <2>2 DEF JobsKept, AnswersKept
  <2>5. RowInv(e)'
    BY <1>1, <2>1, <2>2 DEF Inv, RowInv, RequestOf
  <2> QED
    BY <2>1, <2>2, <2>3, <2>4, <2>5, MoneyKeeps, AnswerKeeps, SupplyKeeps, OnceKeeps
       DEF Inv
<1> QED
  BY <1>2, <1>3

LEMMA CreateCommitKeeps ==
  ASSUME TypeOK, NEW e \in Trx, Inv(e), NEW r \in Requests, CreateCommit(r)
  PROVE  Inv(e)'
<1> DEFINE t == request[r].trx
           paid == IF invoice[t] = "saldo" THEN "PAID" ELSE "PENDING"
           names == IF invoice[t] = "saldo" THEN {"transaction"} ELSE {}
<1>1. t \in Trx /\ request[r].at = "creating"
  BY RequestType DEF CreateCommit
<1>2. ToEnqueue(r, t, names) /\ names \in SUBSET JobNames
  BY DEF CreateCommit, JobNames
<1>3. /\ names = {} => request'[r] = Idle
      /\ names # {} =>
           request'[r] = [at |-> "enqueueing", trx |-> t, names |-> names]
      /\ \A q \in Requests \ {r} : request'[q] = request[q]
  BY <1>1, <1>2, ToEnqueueTypes
<1>4. row' = [row EXCEPT ![t] = NewRow(request[r].ofUser, paid)]
  BY DEF CreateCommit
<1>5. CASE e # t
  BY <1>1, <1>3, <1>4, <1>5, Elsewhere DEF CreateCommit, TypeOK, MarksKept, Idle
<1>6. CASE e = t
  <2>1. /\ invoice[e] # "none" /\ row[e].paidStatus = "NONE"
        /\ \A q \in Requests : RequestOf(q, e, {"creating"}) => q = r
    BY <1>1, <1>6 DEF Inv, RowInv, RequestOf
  <2>2. /\ row'[e].paidStatus = paid /\ row'[e].orderStatus = "PENDING"
        /\ row'[e].isRefunded = FALSE
    BY <1>1, <1>4, <1>6 DEF TypeOK, NewRow
  <2>3. /\ invoice' = invoice /\ supply' = supply /\ refunds' = refunds
        /\ notices' = notices /\ job' = job /\ mark' = mark
    BY DEF CreateCommit
  <2>4. AnswerInv(e)'
    BY <2>3, AnswerKeeps DEF Inv, AnswersKept
  <2>5. RowInv(e)'
    BY <1>3, <2>1, <2>2, <2>3 DEF Inv, RowInv, RequestOf, Idle
  <2>6. MoneyInv(e)'
    BY <1>6, <2>1, <2>2, <2>3 DEF Inv, MoneyInv, JobOf, Untouched
  <2>7. SupplyInv(e)'
    BY <2>2, <2>3 DEF Inv, SupplyInv, JobOf, Untouched
  <2>8. OnceInv(e)'
    BY <1>3, <1>6, <2>1, <2>2, <2>3, JobType
       DEF Inv, OnceInv, RequestOf, JobOf, Untouched, Idle, Added
  <2> QED
    BY <2>4, <2>5, <2>6, <2>7, <2>8 DEF Inv
<1> QED
  BY <1>5, <1>6

LEMMA CreateRollbackKeeps ==
  ASSUME TypeOK, NEW e \in Trx, Inv(e), NEW r \in Requests, CreateRollback(r)
  PROVE  Inv(e)'
<1>1. /\ request'[r] = Idle
      /\ \A q \in Requests \ {r} : request'[q] = request[q]
  BY RequestStates, GotoTypes DEF CreateRollback
<1> QED
  BY <1>1, Elsewhere DEF CreateRollback, MarksKept, Idle

LEMMA QueueAddFailsKeeps ==
  ASSUME TypeOK, NEW e \in Trx, Inv(e), NEW r \in Requests, QueueAddFails(r)
  PROVE  Inv(e)'
<1>1. /\ request'[r] = Idle
      /\ \A q \in Requests \ {r} : request'[q] = request[q]
  BY RequestStates, GotoTypes DEF QueueAddFails
<1>2. MarksKept(e)
  BY RequestType DEF QueueAddFails, MarksKept, TypeOK
<1> QED
  BY <1>1, <1>2, Elsewhere DEF QueueAddFails, Idle

LEMMA SettleInvoiceKeeps ==
  ASSUME TypeOK, NEW e \in Trx, Inv(e), NEW t \in Trx,
         NEW outcome \in {"paid", "canceled"}, SettleInvoice(t, outcome)
  PROVE  Inv(e)'
<1>1. CASE e # t
  BY <1>1, Elsewhere DEF SettleInvoice, TypeOK, MarksKept
<1>2. CASE e = t
  <2>1. invoice[e] = "open" /\ invoice'[e] = outcome
    BY <1>2 DEF SettleInvoice, TypeOK
  <2>2. /\ row' = row /\ supply' = supply /\ refunds' = refunds /\ mark' = mark
        /\ notices' = notices /\ job' = job /\ request' = request
    BY DEF SettleInvoice
  <2>3. AnswersKept(e) /\ JobsKept(e, {"refunding"}) /\ JobsKept(e, Added)
        /\ JobsKept(e, Early) /\ RequestsKept(e, {"enqueueing"}) /\ MarksKept(e)
    BY <2>2 DEF AnswersKept, JobsKept, RequestsKept, MarksKept
  <2>4. RowInv(e)'
    BY <2>1, <2>2 DEF Inv, RowInv, RequestOf
  <2>5. MoneyInv(e)'
    BY <2>1, <2>2 DEF Inv, MoneyInv, JobOf, Untouched
  <2> QED
    BY <2>2, <2>3, <2>4, <2>5, AnswerKeeps, SupplyKeeps, OnceKeeps DEF Inv
<1> QED
  BY <1>1, <1>2

LEMMA PassDeadlineKeeps ==
  ASSUME TypeOK, NEW e \in Trx, Inv(e), NEW t \in Trx, PassDeadline(t)
  PROVE  Inv(e)'
BY Elsewhere DEF PassDeadline, MarksKept

LEMMA TransactionCallbackKeeps ==
  ASSUME TypeOK, NEW e \in Trx, Inv(e), NEW r \in Requests, NEW t \in Trx,
         TransactionCallback(r, t)
  PROVE  Inv(e)'
<1> DEFINE new == IF invoice[t] = "paid" THEN "PAID" ELSE "CANCELED"
<1>1. ToEnqueue(r, t, {"transaction"})
  BY DEF TransactionCallback
<1>2. /\ request'[r] = [at |-> "enqueueing", trx |-> t, names |-> {"transaction"}]
      /\ \A q \in Requests \ {r} : request'[q] = request[q]
  BY <1>1, ToEnqueueTypes DEF JobNames
<1>3. row' = [row EXCEPT ![t].paidStatus = new]
  BY DEF TransactionCallback
<1>4. CASE e # t
  BY <1>2, <1>3, <1>4, Elsewhere DEF TransactionCallback, TypeOK, MarksKept
<1>5. CASE e = t
  <2>1. invoice[e] \in {"paid", "canceled"} /\ row[e].paidStatus = "PENDING"
    BY <1>5 DEF TransactionCallback
  <2>2. /\ row'[e].paidStatus = new
        /\ row'[e].orderStatus = row[e].orderStatus
        /\ row'[e].isRefunded = row[e].isRefunded
    BY <1>3, <1>5 DEF TypeOK, Row
  <2>3. /\ invoice' = invoice /\ supply' = supply /\ refunds' = refunds
        /\ notices' = notices /\ job' = job /\ mark' = mark
    BY DEF TransactionCallback
  <2>4. AnswersKept(e) /\ JobsKept(e, {"refunding"}) /\ MarksKept(e)
    BY <2>3 DEF AnswersKept, JobsKept, MarksKept
  <2>5. RowInv(e)'
    BY <1>2, <2>1, <2>2, <2>3 DEF Inv, RowInv, RequestOf
  <2>6. MoneyInv(e)'
    BY <1>5, <2>1, <2>2, <2>3 DEF Inv, MoneyInv, JobOf, Untouched
  <2>7. OnceInv(e)'
    BY <1>2, <2>1, <2>2, <2>3, JobType
       DEF Inv, OnceInv, RequestOf, JobOf, Untouched, Added
  <2> QED
    BY <2>2, <2>3, <2>4, <2>5, <2>6, <2>7, AnswerKeeps, SupplyKeeps DEF Inv
<1> QED
  BY <1>4, <1>5

LEMMA AddJobKeeps ==
  ASSUME TypeOK, NEW e \in Trx, Inv(e), NEW r \in Requests, AddJob(r)
  PROVE  Inv(e)'
<1> DEFINE t == request[r].trx
           name == IF "transaction" \in request[r].names THEN "transaction"
                   ELSE "refund"
           names == request[r].names \ {name}
<1>1. /\ request[r].at = "enqueueing" /\ t \in Trx
      /\ request[r].names \in (SUBSET JobNames) \ {{}} /\ names \in SUBSET JobNames
  BY RequestType DEF AddJob
<1>2. ToEnqueue(r, t, names)
  BY DEF AddJob
<1> HIDE DEF names
<1>3. /\ names = {} => request'[r] = Idle
      /\ names # {} =>
           request'[r] = [at |-> "enqueueing", trx |-> t, names |-> names]
      /\ \A q \in Requests \ {r} : request'[q] = request[q]
  BY <1>1, <1>2, ToEnqueueTypes
<1> USE DEF names
<1>4. PICK j \in Jobs :
        /\ job[j].at = "none"
        /\ job' = [job EXCEPT ![j] = [at |-> "waiting", name |-> name, trx |-> t,
                                      stalls |-> 0, answer |-> "none"]]
  BY DEF AddJob
<1>5. /\ job'[j].at = "waiting" /\ job'[j].trx = t
      /\ \A i \in Jobs \ {j} : job'[i] = job[i]
  BY <1>4 DEF TypeOK
<1>6. /\ row' = row /\ invoice' = invoice /\ supply' = supply
      /\ refunds' = refunds /\ notices' = notices /\ mark' = mark
  BY DEF AddJob
<1>7. CASE e # t
  BY <1>3, <1>5, <1>6, <1>7, Elsewhere DEF MarksKept, Idle
<1>8. CASE e = t
  <2>1. /\ RequestsKept(e, {"creating", "cancelling", "canceled", "updating"})
        /\ JobsKept(e, {"found"}) /\ JobsKept(e, {"refunding"})
        /\ AnswersKept(e) /\ MarksKept(e)
    BY <1>3, <1>5, <1>6
       DEF RequestsKept, JobsKept, AnswersKept, MarksKept, Idle
  <2>2. ASSUME Untouched(e) PROVE OnceInv(e)'
    <3>1. RequestOf(r, e, {"enqueueing"})
      BY <1>1, <1>8 DEF RequestOf
    <3>2. /\ request[r].names = {"transaction"} /\ refunds[e] = 0
          /\ row[e].paidStatus \notin {"NONE", "PENDING"}
          /\ \A q \in Requests : RequestOf(q, e, {"enqueueing"}) => q = r
          /\ \A i \in Jobs : ~JobOf(i, e, Added)
      BY <2>2, <3>1 DEF Inv, OnceInv
    <3>3. request'[r] = Idle
      BY <1>3, <3>2
    <3>4. \A q \in Requests : ~(request'[q].at = "enqueueing" /\ request'[q].trx = e)
      BY <1>3, <3>2, <3>3 DEF RequestOf, Idle
    <3>5. \A i \in Jobs : job'[i].at \in Added /\ job'[i].trx = e => i = j
      BY <1>5, <3>2 DEF JobOf
    <3> QED
      BY <1>6, <3>2, <3>4, <3>5 DEF OnceInv, RequestOf, JobOf, Added
  <2>3. ~Untouched(e) => OnceInv(e)'
    BY <1>6 DEF OnceInv, Untouched
  <2> QED
    BY <1>6, <2>1, <2>2, <2>3, RowKeeps, MoneyKeeps, AnswerKeeps, SupplyKeeps
       DEF Inv
<1> QED
  BY <1>7, <1>8

LEMMA HandleExpiredKeeps ==
  ASSUME TypeOK, NEW e \in Trx, Inv(e), HandleExpiredTransaction
  PROVE  Inv(e)'
<1> DEFINE expired == e \in overdue /\ row[e].paidStatus = "PENDING"
<1>1. /\ invoice' = invoice /\ supply' = supply /\ refunds' = refunds
      /\ notices' = notices /\ job' = job /\ mark' = mark /\ request' = request
  BY DEF HandleExpiredTransaction
<1>2. CASE ~expired
  <2>1. row'[e] = row[e]
    BY <1>2 DEF HandleExpiredTransaction
  <2> QED
    BY <1>1, <2>1, Elsewhere DEF MarksKept
<1>3. CASE expired
  <2>1. row'[e] = [row[e] EXCEPT !.paidStatus = "EXPIRED"]
    BY <1>3 DEF HandleExpiredTransaction
  <2>2. /\ row'[e].paidStatus = "EXPIRED"
        /\ row'[e].orderStatus = row[e].orderStatus
        /\ row'[e].isRefunded = row[e].isRefunded
    BY <2>1 DEF TypeOK, Row
  <2>3. /\ AnswersKept(e) /\ JobsKept(e, {"refunding"}) /\ JobsKept(e, Added)
        /\ JobsKept(e, Early) /\ RequestsKept(e, {"enqueueing"}) /\ MarksKept(e)
    BY <1>1 DEF AnswersKept, JobsKept, RequestsKept, MarksKept
  <2>4. RowInv(e)'
    BY <1>1, <1>3, <2>2 DEF Inv, RowInv, RequestOf
  <2>5. MoneyInv(e)'
    BY <1>1, <1>3, <2>2 DEF Inv, MoneyInv, JobOf, Untouched
  <2> QED
    BY <1>1, <2>2, <2>3, <2>4, <2>5, AnswerKeeps, SupplyKeeps, OnceKeeps DEF Inv
<1> QED
  BY <1>2, <1>3

LEMMA CancelFindKeeps ==
  ASSUME TypeOK, NEW e \in Trx, Inv(e), NEW r \in Requests, NEW t \in Trx,
         CancelFind(r, t)
  PROVE  Inv(e)'
<1>1. /\ request'[r] = [at |-> "cancelling", trx |-> t]
      /\ \A q \in Requests \ {r} : request'[q] = request[q]
  BY RequestStates, GotoTypes DEF CancelFind
<1>2. /\ row' = row /\ invoice' = invoice /\ supply' = supply
      /\ refunds' = refunds /\ notices' = notices /\ job' = job /\ mark' = mark
  BY DEF CancelFind
<1>3. CASE e # t
  BY <1>1, <1>2, <1>3, Elsewhere DEF MarksKept
<1>4. CASE e = t
  <2>1. /\ AnswersKept(e) /\ JobsKept(e, {"refunding"}) /\ JobsKept(e, {"found"})
        /\ JobsKept(e, Added) /\ JobsKept(e, Early)
        /\ RequestsKept(e, {"enqueueing"}) /\ MarksKept(e)
    BY <1>1, <1>2 DEF AnswersKept, JobsKept, RequestsKept, MarksKept
  <2>2. row[e].paidStatus = "PENDING"
    BY <1>4 DEF CancelFind
  <2>3. RowInv(e)'
    BY <1>1, <1>2, <2>2 DEF Inv, RowInv, RequestOf
  <2> QED
    BY <1>2, <2>1, <2>3, MoneyKeeps, AnswerKeeps, SupplyKeeps, OnceKeeps DEF Inv
<1> QED
  BY <1>3, <1>4

LEMMA CancelPaymentKeeps ==
  ASSUME TypeOK, NEW e \in Trx, Inv(e), NEW r \in Requests, CancelPayment(r)
  PROVE  Inv(e)'
<1> DEFINE t == request[r].trx
<1>1. t \in Trx /\ request[r].at = "cancelling"
  BY RequestType DEF CancelPayment
<1>2. /\ row' = row /\ supply' = supply /\ refunds' = refunds
      /\ notices' = notices /\ job' = job /\ mark' = mark
  BY DEF CancelPayment
<1>3. CASE invoice[t] # "open"
  <2>1. Goto(r, Idle) /\ invoice' = invoice
    BY <1>3 DEF CancelPayment
  <2>2. /\ request'[r] = Idle
        /\ \A q \in Requests \ {r} : request'[q] = request[q]
    BY <2>1, RequestStates, GotoTypes
  <2> QED
    BY <1>2, <2>1, <2>2, Elsewhere DEF MarksKept, Idle
<1>4. CASE invoice[t] = "open"
  <2>1. /\ Goto(r, [at |-> "canceled", trx |-> t])
        /\ invoice' = [invoice EXCEPT ![t] = "canceled"]
    BY <1>4 DEF CancelPayment
  <2>2. /\ request'[r] = [at |-> "canceled", trx |-> t]
        /\ \A q \in Requests \ {r} : request'[q] = request[q]
    <3>1. [at |-> "canceled", trx |-> t] \in Request
      BY <1>1, RequestStates
    <3> QED
      BY <2>1, <3>1, GotoTypes
  <2>3. CASE e # t
    BY <1>2, <2>1, <2>2, <2>3, Elsewhere DEF MarksKept, TypeOK
  <2>4. CASE e = t
    <3>1. /\ AnswersKept(e) /\ JobsKept(e, {"refunding"}) /\ JobsKept(e, Added)
          /\ JobsKept(e, Early) /\ RequestsKept(e, {"enqueueing"}) /\ MarksKept(e)
      BY <1>2, <2>2 DEF AnswersKept, JobsKept, RequestsKept, MarksKept
    <3>2. /\ invoice[e] = "open" /\ invoice'[e] = "canceled"
          /\ row[e].paidStatus # "NONE"
      BY <1>1, <1>4, <2>1, <2>4 DEF TypeOK, Inv, RowInv, RequestOf
    <3>3. RowInv(e)'
      BY <1>2, <2>2, <3>2 DEF Inv, RowInv, RequestOf
    <3>4. MoneyInv(e)'
      BY <1>2, <3>2 DEF Inv, MoneyInv, JobOf, Untouched
    <3> QED
      BY <1>2, <3>1, <3>3, <3>4, AnswerKeeps, SupplyKeeps, OnceKeeps DEF Inv
  <2> QED
    BY <2>3, <2>4
<1> QED
  BY <1>3, <1>4

LEMMA CancelWriteKeeps ==
  ASSUME TypeOK, NEW e \in Trx, Inv(e), NEW r \in Requests, CancelWrite(r)
  PROVE  Inv(e)'
<1> DEFINE t == request[r].trx
           new == Updated(row[t], [orderStatus |-> "CANCELED",
                                   paidStatus |-> "CANCELED"])
<1>1. t \in Trx /\ request[r].at = "canceled"
  BY RequestType DEF CancelWrite
<1>2. /\ invoice' = invoice /\ supply' = supply /\ refunds' = refunds
      /\ notices' = notices /\ job' = job /\ mark' = mark
      /\ row' = [row EXCEPT ![t] = new]
  BY DEF CancelWrite
<1>3. /\ request'[r] = Idle
      /\ \A q \in Requests \ {r} : request'[q] = request[q]
  BY RequestStates, GotoTypes DEF CancelWrite
<1>4. CASE e # t
  BY <1>2, <1>3, <1>4, Elsewhere DEF MarksKept, Idle, TypeOK
<1>5. CASE e = t
  <2>1. /\ row[e].paidStatus # "NONE" /\ invoice[e] = "canceled"
    BY <1>1, <1>5 DEF Inv, RowInv, RequestOf
  <2>2. row'[e] = new
    BY <1>1, <1>2, <1>5 DEF TypeOK
  <2>3. /\ row'[e].paidStatus = "CANCELED" /\ row'[e].orderStatus = "CANCELED"
        /\ row'[e].isRefunded = row[e].isRefunded
    BY <1>1, <1>5, <2>2, CanceledRow DEF TypeOK
  <2>4. /\ AnswersKept(e) /\ JobsKept(e, Added) /\ JobsKept(e, Early)
        /\ RequestsKept(e, {"enqueueing"}) /\ MarksKept(e)
    BY <1>2, <1>3 DEF AnswersKept, JobsKept, RequestsKept, MarksKept, Idle
  <2>5. RowInv(e)'
    BY <1>2, <1>3, <2>1, <2>3 DEF Inv, RowInv, RequestOf, Idle
  <2>6. MoneyInv(e)'
    BY <1>2, <2>1, <2>3 DEF Inv, MoneyInv, JobOf, Untouched
  <2>7. SupplyInv(e)'
    BY <1>2, <2>3 DEF Inv, SupplyInv, JobOf, Untouched
  <2> QED
    BY <1>2, <2>3, <2>4, <2>5, <2>6, <2>7, AnswerKeeps, OnceKeeps DEF Inv
<1> QED
  BY <1>4, <1>5

LEMMA UpdateStatusFindKeeps ==
  ASSUME TypeOK, NEW e \in Trx, Inv(e), NEW r \in Requests, NEW t \in Trx,
         UpdateStatusFind(r, t)
  PROVE  Inv(e)'
<1> DEFINE state == [at |-> "updating", trx |-> t, paid |-> row[t].paidStatus,
                     refunded |-> row[t].isRefunded]
<1>1. row[t].paidStatus \in PaidStatus /\ row[t].isRefunded \in BOOLEAN
  BY DEF UpdateStatusFind, TypeOK, Row
<1>2. state \in Request
  BY <1>1, RequestStates
<1>3. /\ request'[r] = state
      /\ \A q \in Requests \ {r} : request'[q] = request[q]
  BY <1>2, GotoTypes DEF UpdateStatusFind
<1>4. /\ row' = row /\ invoice' = invoice /\ supply' = supply
      /\ refunds' = refunds /\ notices' = notices /\ job' = job /\ mark' = mark
  BY DEF UpdateStatusFind
<1>5. CASE e # t
  BY <1>3, <1>4, <1>5, Elsewhere DEF MarksKept
<1>6. CASE e = t
  <2>1. /\ AnswersKept(e) /\ JobsKept(e, {"refunding"}) /\ JobsKept(e, {"found"})
        /\ JobsKept(e, Added) /\ JobsKept(e, Early)
        /\ RequestsKept(e, {"enqueueing"}) /\ MarksKept(e)
    BY <1>3, <1>4 DEF AnswersKept, JobsKept, RequestsKept, MarksKept
  <2>2. row[e].paidStatus # "NONE"
    BY <1>6 DEF UpdateStatusFind
  <2>3. RowInv(e)'
    BY <1>3, <1>4, <2>2 DEF Inv, RowInv, RequestOf
  <2> QED
    BY <1>4, <2>1, <2>3, MoneyKeeps, AnswerKeeps, SupplyKeeps, OnceKeeps DEF Inv
<1> QED
  BY <1>5, <1>6

LEMMA UpdateStatusWriteKeeps ==
  ASSUME TypeOK, NEW e \in Trx, Inv(e), NEW r \in Requests,
         NEW data \in AdminChanges, UpdateStatusWrite(r, data)
  PROVE  Inv(e)'
<1> DEFINE t == request[r].trx
           new == Updated(row[t], data)
<1>1. t \in Trx /\ request[r].at = "updating"
  BY RequestType DEF UpdateStatusWrite
<1>2. /\ invoice' = invoice /\ supply' = supply /\ refunds' = refunds
      /\ notices' = notices /\ job' = job
      /\ row' = [row EXCEPT ![t] = new]
      /\ mark' = [mark EXCEPT ![t] = mark[t] \cup {"touched"}]
  BY DEF UpdateStatusWrite
<1>3. PICK names \in SUBSET JobNames : ToEnqueue(r, t, names)
  BY DEF UpdateStatusWrite
<1>4. /\ names = {} => request'[r] = Idle
      /\ names # {} =>
           request'[r] = [at |-> "enqueueing", trx |-> t, names |-> names]
      /\ \A q \in Requests \ {r} : request'[q] = request[q]
  BY <1>1, <1>3, ToEnqueueTypes
<1>5. CASE e # t
  BY <1>1, <1>2, <1>4, <1>5, Elsewhere DEF MarksKept, Idle, TypeOK
<1>6. CASE e = t
  <2>1. row[e].paidStatus # "NONE"
    BY <1>1, <1>6 DEF Inv, RowInv, RequestOf
  <2>2. row'[e].paidStatus # "NONE"
    <3>1. row[e] \in Row
      BY DEF TypeOK
    <3>2. row'[e] = Updated(row[e], data)
      BY <1>1, <1>2, <1>6 DEF TypeOK
    <3> QED
      BY <2>1, <3>1, <3>2, AdminAssumption
  <2>3. AnswersKept(e)
    BY <1>2 DEF AnswersKept
  <2>4. RowInv(e)'
    BY <1>2, <1>4, <2>1, <2>2 DEF Inv, RowInv, RequestOf, Idle
  <2>5. "touched" \in mark'[e]
    BY <1>1, <1>2, <1>6 DEF TypeOK
  <2>6. MoneyInv(e)' /\ SupplyInv(e)' /\ OnceInv(e)'
    BY <2>5 DEF MoneyInv, SupplyInv, OnceInv, Untouched
  <2> QED
    BY <1>2, <2>3, <2>4, <2>6, AnswerKeeps DEF Inv
<1> QED
  BY <1>5, <1>6

-----------------------------------------------------------------------------
(* Jobs: one lemma for each action, for any order e.                       *)

LEMMA FindPaidKeeps ==
  ASSUME TypeOK, NEW e \in Trx, Inv(e), NEW j \in Jobs, NEW routed \in BOOLEAN,
         FindPaid(j, routed)
  PROVE  Inv(e)'
<1> DEFINE t == job[j].trx
<1>1. t \in Trx /\ job[j].at = "waiting"
      /\ job[j].answer \in SupplierStatus \cup {"none"}
  BY JobType DEF FindPaid
<1>2. /\ row' = row /\ invoice' = invoice /\ supply' = supply
      /\ refunds' = refunds /\ notices' = notices /\ request' = request
  BY DEF FindPaid
<1>3. MarksKept(e)
  BY <1>1 DEF FindPaid, MarksKept, TypeOK
<1>4. PICK at \in {"found", "done"} :
        /\ job' = [job EXCEPT ![j].at = at]
        /\ at = "found" => row[t].paidStatus = "PAID"
  BY DEF FindPaid, Move
<1>5. /\ job'[j].at = at /\ job'[j].trx = t
      /\ \A i \in Jobs \ {j} : job'[i] = job[i]
  BY <1>1, <1>4, JobMoves DEF Added
<1>6. /\ JobsKept(e, {"refunding"}) /\ JobsKept(e, Added) /\ JobsKept(e, Early)
      /\ AnswersKept(e)
  BY <1>1, <1>5 DEF JobsKept, AnswersKept, Added, Early
<1>7. /\ RequestsKept(e, {"creating", "cancelling", "canceled", "updating"})
      /\ RequestsKept(e, {"enqueueing"})
  BY <1>2 DEF RequestsKept
<1>8. MoneyInv(e)'
  BY <1>2, <1>3, <1>4, <1>5 DEF Inv, MoneyInv, JobOf, MarksKept, Untouched
<1> QED
  BY <1>2, <1>3, <1>6, <1>7, <1>8, RowKeeps, AnswerKeeps, SupplyKeeps, OnceKeeps
     DEF Inv

LEMMA FindToRefundKeeps ==
  ASSUME TypeOK, NEW e \in Trx, Inv(e), NEW j \in Jobs, FindToRefund(j)
  PROVE  Inv(e)'
<1> DEFINE t == job[j].trx
<1>1. t \in Trx /\ job[j].at = "waiting"
      /\ job[j].answer \in SupplierStatus \cup {"none"}
  BY JobType DEF FindToRefund
<1>2. /\ row' = row /\ invoice' = invoice /\ supply' = supply /\ mark' = mark
      /\ refunds' = refunds /\ notices' = notices /\ request' = request
  BY DEF FindToRefund
<1>3. PICK at \in {"refunding", "done"} :
        /\ job' = [job EXCEPT ![j].at = at]
        /\ at = "refunding" => row[t].isRefunded
  BY DEF FindToRefund, Move
<1>4. /\ job'[j].at = at /\ job'[j].trx = t
      /\ \A i \in Jobs \ {j} : job'[i] = job[i]
  BY <1>1, <1>3, JobMoves DEF Added
<1>5. /\ JobsKept(e, {"found"}) /\ JobsKept(e, Added) /\ JobsKept(e, Early)
      /\ AnswersKept(e) /\ MarksKept(e)
  BY <1>1, <1>2, <1>4 DEF JobsKept, AnswersKept, MarksKept, Added, Early
<1>6. /\ RequestsKept(e, {"creating", "cancelling", "canceled", "updating"})
      /\ RequestsKept(e, {"enqueueing"})
  BY <1>2 DEF RequestsKept
<1>7. SupplyInv(e)'
  BY <1>2, <1>3, <1>4 DEF Inv, SupplyInv, JobOf, Untouched
<1> QED
  BY <1>2, <1>5, <1>6, <1>7, RowKeeps, MoneyKeeps, AnswerKeeps, OnceKeeps DEF Inv

LEMMA OrderAtSupplierKeeps ==
  ASSUME TypeOK, NEW e \in Trx, Inv(e), NEW j \in Jobs,
         NEW answer \in SupplierStatus, OrderAtSupplier(j, answer)
  PROVE  Inv(e)'
<1> DEFINE t == job[j].trx
<1>1. t \in Trx /\ job[j].at = "found"
  BY JobType DEF OrderAtSupplier
<1>2. /\ row' = row /\ invoice' = invoice /\ mark' = mark
      /\ refunds' = refunds /\ notices' = notices /\ request' = request
      /\ supply' = [supply EXCEPT ![t] = answer]
      /\ supply[t] \in {"none", answer}
  BY DEF OrderAtSupplier
<1>3. /\ job'[j].at = "ordered" /\ job'[j].trx = t /\ job'[j].answer = answer
      /\ \A i \in Jobs \ {j} : job'[i] = job[i]
  BY <1>1, JobMoves DEF OrderAtSupplier, Added
<1>4. CASE e # t
  BY <1>2, <1>3, <1>4, Elsewhere DEF MarksKept, TypeOK
<1>5. CASE e = t
  <2>1. JobOf(j, e, {"found"}) /\ supply'[e] = answer /\ answer # "none"
    BY <1>1, <1>2, <1>5 DEF JobOf, TypeOK, SupplierStatus
  <2>2. /\ JobsKept(e, {"refunding"}) /\ JobsKept(e, Added) /\ JobsKept(e, Early)
        /\ MarksKept(e)
    BY <1>1, <1>2, <1>3 DEF JobsKept, MarksKept, Added, Early
  <2>3. /\ RequestsKept(e, {"creating", "cancelling", "canceled", "updating"})
        /\ RequestsKept(e, {"enqueueing"})
    BY <1>2 DEF RequestsKept
  <2>4. MoneyInv(e)'
    BY <1>2, <1>3, <2>1 DEF Inv, MoneyInv, JobOf, Untouched
  <2>5. supply[e] # "none" => supply'[e] = supply[e]
    BY <1>2, <1>5, <2>1
  <2>6. AnswerInv(e)'
    BY <1>2, <1>3, <2>1, <2>5 DEF Inv, AnswerInv, JobOf
  <2> QED
    BY <1>2, <2>2, <2>3, <2>4, <2>5, <2>6, RowKeeps, SupplyKeeps, OnceKeeps DEF Inv
<1> QED
  BY <1>4, <1>5

LEMMA WriteOrderStatusKeeps ==
  ASSUME TypeOK, NEW e \in Trx, Inv(e), NEW j \in Jobs, WriteOrderStatus(j)
  PROVE  Inv(e)'
<1> DEFINE t == job[j].trx
           answer == job[j].answer
           status == OrderStatusOf(answer)
<1>1. /\ t \in Trx /\ job[j].at = "ordered"
      /\ row'[t].paidStatus = row[t].paidStatus
      /\ row'[t].orderStatus = status
      /\ row'[t].isRefunded = (row[t].isRefunded \/ status = "FAILED")
      /\ \A i \in Trx \ {t} : row'[i] = row[i]
  BY OrderWritten DEF WriteOrderStatus
<1>2. /\ supply' = supply /\ invoice' = invoice
      /\ refunds' = refunds /\ notices' = notices /\ request' = request
  BY DEF WriteOrderStatus
<1>3. MarksKept(e)
  BY <1>1 DEF WriteOrderStatus, MarksKept, TypeOK
<1>4. PICK at \in {"refunding", "done"} :
        /\ job' = [job EXCEPT ![j].at = at, ![j].answer = "none"]
        /\ at = "refunding" => status = "FAILED"
  BY DEF WriteOrderStatus, Refunds
<1>5. /\ job'[j].at = at /\ job'[j].trx = t
      /\ \A i \in Jobs \ {j} : job'[i] = job[i]
  BY <1>1, <1>4, JobMoves DEF Added
<1>6. CASE e # t
  BY <1>1, <1>2, <1>3, <1>5, <1>6, Elsewhere
<1>7. CASE e = t
  <2>1. /\ JobsKept(e, {"found"}) /\ JobsKept(e, Added) /\ JobsKept(e, Early)
        /\ AnswersKept(e)
    BY <1>1, <1>5 DEF JobsKept, AnswersKept, Added, Early
  <2>2. /\ RequestsKept(e, {"creating", "cancelling", "canceled", "updating"})
        /\ RequestsKept(e, {"enqueueing"})
    BY <1>2 DEF RequestsKept
  <2>3. /\ answer \in SupplierStatus
        /\ answer \in {"Sukses", "Gagal"} => supply[e] = answer
    BY <1>1, <1>7 DEF Inv, AnswerInv, JobOf
  <2>4. /\ status = "SUCCESS" => supply[e] = "Sukses"
        /\ status = "FAILED" => supply[e] = "Gagal"
    BY <2>3 DEF OrderStatusOf, SupplierStatus
  <2>5. SupplyInv(e)'
    BY <1>1, <1>2, <1>3, <1>4, <1>5, <1>7, <2>4
       DEF Inv, SupplyInv, JobOf, MarksKept, Untouched
  <2> QED
    BY <1>1, <1>2, <1>3, <1>7, <2>1, <2>2, <2>5, RowKeeps, MoneyKeeps, AnswerKeeps,
       OnceKeeps DEF Inv
<1> QED
  BY <1>6, <1>7

LEMMA RefundKeeps ==
  ASSUME TypeOK, NEW e \in Trx, Inv(e), NEW j \in Jobs, Refund(j)
  PROVE  Inv(e)'
<1> DEFINE t == job[j].trx
<1>1. t \in Trx /\ job[j].at = "refunding"
      /\ job[j].answer \in SupplierStatus \cup {"none"}
  BY JobType DEF Refund
<1>2. /\ row' = row /\ invoice' = invoice /\ supply' = supply /\ mark' = mark
      /\ notices' = notices /\ request' = request
      /\ refunds' = [refunds EXCEPT ![t] = refunds[t] + 1]
  BY DEF Refund
<1>3. /\ job'[j].at = "refunded" /\ job'[j].trx = t
      /\ \A i \in Jobs \ {j} : job'[i] = job[i]
  BY <1>1, JobMoves DEF Refund, Move, Added
<1>4. CASE e # t
  BY <1>2, <1>3, <1>4, Elsewhere DEF MarksKept, TypeOK
<1>5. CASE e = t
  <2>1. /\ JobOf(j, e, {"refunding"}) /\ JobOf(j, e, Added) /\ JobOf(j, e, Early)
        /\ refunds'[e] = refunds[e] + 1 /\ refunds[e] \in Nat
    BY <1>1, <1>2, <1>5 DEF JobOf, Added, Early, TypeOK
  <2>2. /\ JobsKept(e, {"found"}) /\ AnswersKept(e) /\ MarksKept(e)
        /\ JobsKept(e, Added) /\ JobsKept(e, Early)
        /\ JobsKept(e, {"refunding"})
    BY <1>1, <1>2, <1>3 DEF JobsKept, AnswersKept, MarksKept, Added, Early
  <2>3. /\ RequestsKept(e, {"creating", "cancelling", "canceled", "updating"})
        /\ RequestsKept(e, {"enqueueing"})
    BY <1>2 DEF RequestsKept
  <2>4. SupplyInv(e)'
    BY <1>2, <1>3, <2>1, <2>2 DEF Inv, SupplyInv, JobOf, JobsKept, Untouched
  <2>5. ASSUME Untouched(e) PROVE OnceInv(e)'
    <3>1. /\ row[e].paidStatus \notin {"NONE", "PENDING"}
          /\ \A r \in Requests : ~RequestOf(r, e, {"enqueueing"})
          /\ \A i \in Jobs : JobOf(i, e, Added) => i = j
          /\ "reexecuted" \notin mark[e] => refunds[e] = 0
      BY <2>1, <2>5 DEF Inv, OnceInv, Early
    <3>2. \A i \in Jobs : job'[i].at \in Added /\ job'[i].trx = e => i = j
      BY <2>2, <3>1 DEF JobsKept, JobOf
    <3>3. \A i \in Jobs : ~(job'[i].at \in Early /\ job'[i].trx = e)
      BY <1>3, <3>2 DEF Early, Added
    <3> QED
      BY <1>2, <2>1, <3>1, <3>2, <3>3 DEF OnceInv, RequestOf, JobOf, Early
  <2>6. ~Untouched(e) => OnceInv(e)'
    BY <1>2 DEF OnceInv, Untouched
  <2> QED
    BY <1>2, <2>2, <2>3, <2>4, <2>5, <2>6, RowKeeps, MoneyKeeps, AnswerKeeps DEF Inv
<1> QED
  BY <1>4, <1>5

\* A job that ends, or goes from its refund to its restocking, changes nothing
\* that the five parts speak of.
LEMMA JobEnds ==
  ASSUME TypeOK, NEW e \in Trx, Inv(e), NEW j \in Jobs, job[j].at # "none",
         NEW at \in {"done", "restocking"}, job'[j].at = at,
         job'[j].trx = job[j].trx,
         \A i \in Jobs \ {j} : job'[i] = job[i],
         row'[e].paidStatus = row[e].paidStatus,
         row'[e].orderStatus = row[e].orderStatus,
         row'[e].isRefunded = row[e].isRefunded,
         invoice' = invoice, supply' = supply, refunds' = refunds,
         notices' = notices, request' = request, MarksKept(e)
  PROVE  Inv(e)'
<1>1. /\ JobsKept(e, {"found"}) /\ JobsKept(e, {"refunding"})
      /\ JobsKept(e, Early) /\ AnswersKept(e)
  BY DEF JobsKept, AnswersKept, Early
<1>2. JobsKept(e, Added)
  BY JobType DEF JobsKept
<1>3. /\ RequestsKept(e, {"creating", "cancelling", "canceled", "updating"})
      /\ RequestsKept(e, {"enqueueing"})
  BY DEF RequestsKept
<1> QED
  BY <1>1, <1>2, <1>3, RowKeeps, MoneyKeeps, AnswerKeeps, SupplyKeeps, OnceKeeps
     DEF Inv

LEMMA RecordRefundKeeps ==
  ASSUME TypeOK, NEW e \in Trx, Inv(e), NEW j \in Jobs, RecordRefund(j)
  PROVE  Inv(e)'
<1>1. job[j].trx \in Trx /\ job[j].at # "none"
      /\ job[j].answer \in SupplierStatus \cup {"none"}
  BY JobType DEF RecordRefund
<1>2. /\ job'[j].at = "restocking" /\ job'[j].trx = job[j].trx
      /\ \A i \in Jobs \ {j} : job'[i] = job[i]
  BY <1>1, JobMoves DEF RecordRefund, Move, Added
<1>3. /\ row'[e].paidStatus = row[e].paidStatus
      /\ row'[e].orderStatus = row[e].orderStatus
      /\ row'[e].isRefunded = row[e].isRefunded
  BY <1>1 DEF RecordRefund, TypeOK, Row
<1> QED
  BY <1>1, <1>2, <1>3, JobEnds DEF RecordRefund, MarksKept

LEMMA RestockKeeps ==
  ASSUME TypeOK, NEW e \in Trx, Inv(e), NEW j \in Jobs, Restock(j)
  PROVE  Inv(e)'
<1>1. job[j].trx \in Trx /\ job[j].at # "none"
      /\ job[j].answer \in SupplierStatus \cup {"none"}
  BY JobType DEF Restock
<1>2. /\ job'[j].at = "done" /\ job'[j].trx = job[j].trx
      /\ \A i \in Jobs \ {j} : job'[i] = job[i]
  BY <1>1, JobMoves DEF Restock, Move, Added
<1> QED
  BY <1>1, <1>2, JobEnds DEF Restock, MarksKept

LEMMA JobErrorKeeps ==
  ASSUME TypeOK, NEW e \in Trx, Inv(e), NEW j \in Jobs, JobError(j)
  PROVE  Inv(e)'
<1>1. job[j].at # "none"
  BY DEF JobError, Running
<1>2. job[j].trx \in Trx
  BY <1>1, JobType
<1>3. /\ job'[j].at = "done" /\ job'[j].trx = job[j].trx
      /\ \A i \in Jobs \ {j} : job'[i] = job[i]
  BY <1>1, JobMoves DEF JobError, Added
<1>4. MarksKept(e)
  BY <1>2 DEF JobError, MarksKept, TypeOK
<1> QED
  BY <1>1, <1>3, <1>4, JobEnds DEF JobError

-----------------------------------------------------------------------------
(* The supplier, and crashes.                                              *)

LEMMA SupplierSettlesKeeps ==
  ASSUME TypeOK, NEW e \in Trx, Inv(e), NEW t \in Trx,
         NEW outcome \in {"Sukses", "Gagal"}, SupplierSettles(t, outcome)
  PROVE  Inv(e)'
<1>1. /\ row' = row /\ invoice' = invoice /\ request' = request /\ job' = job
      /\ refunds' = refunds /\ notices' = notices \cup {<<t, outcome>>}
      /\ supply' = [supply EXCEPT ![t] = outcome] /\ supply[t] = "Pending"
  BY DEF SupplierSettles
<1>2. MarksKept(e)
  BY DEF SupplierSettles, MarksKept, TypeOK
<1>3. CASE e # t
  BY <1>1, <1>2, <1>3, Elsewhere DEF TypeOK
<1>4. CASE e = t
  <2>1. supply[e] = "Pending" /\ supply'[e] = outcome
    BY <1>1, <1>4 DEF TypeOK
  <2>2. /\ JobsKept(e, {"found"}) /\ JobsKept(e, {"refunding"})
        /\ JobsKept(e, Added) /\ JobsKept(e, Early)
    BY <1>1 DEF JobsKept
  <2>3. /\ RequestsKept(e, {"creating", "cancelling", "canceled", "updating"})
        /\ RequestsKept(e, {"enqueueing"})
    BY <1>1 DEF RequestsKept
  <2>4. AnswerInv(e)'
    BY <1>1, <2>1 DEF Inv, AnswerInv, JobOf
  <2> QED
    BY <1>1, <1>2, <2>1, <2>2, <2>3, <2>4, RowKeeps, MoneyKeeps, SupplyKeeps,
       OnceKeeps DEF Inv
<1> QED
  BY <1>3, <1>4

LEMMA SupplierNotifiesKeeps ==
  ASSUME TypeOK, NEW e \in Trx, Inv(e), NEW t \in Trx, SupplierNotifies(t)
  PROVE  Inv(e)'
<1>1. /\ row' = row /\ invoice' = invoice /\ request' = request /\ job' = job
      /\ refunds' = refunds /\ supply' = supply /\ mark' = mark
      /\ notices' = notices \cup {<<t, supply[t]>>} /\ supply[t] # "none"
  BY DEF SupplierNotifies
<1>2. CASE e # t
  BY <1>1, <1>2, Elsewhere DEF MarksKept
<1>3. CASE e = t
  <2>1. /\ JobsKept(e, {"found"}) /\ JobsKept(e, {"refunding"})
        /\ JobsKept(e, Added) /\ JobsKept(e, Early) /\ MarksKept(e)
    BY <1>1 DEF JobsKept, MarksKept
  <2>2. /\ RequestsKept(e, {"creating", "cancelling", "canceled", "updating"})
        /\ RequestsKept(e, {"enqueueing"})
    BY <1>1 DEF RequestsKept
  <2>3. AnswerInv(e)'
    BY <1>1, <1>3 DEF Inv, AnswerInv, JobOf
  <2> QED
    BY <1>1, <2>1, <2>2, <2>3, RowKeeps, MoneyKeeps, SupplyKeeps, OnceKeeps DEF Inv
<1> QED
  BY <1>2, <1>3

LEMMA DigiflazzCallbackKeeps ==
  ASSUME TypeOK, NEW e \in Trx, Inv(e), NEW t \in Trx,
         NEW said \in SupplierStatus, DigiflazzCallback(t, said)
  PROVE  Inv(e)'
<1> DEFINE status == CallbackStatusOf(said)
<1>1. /\ invoice' = invoice /\ request' = request /\ job' = job
      /\ refunds' = refunds /\ supply' = supply
      /\ mark' = [mark EXCEPT ![t] = @ \cup MarksOf(t, status)]
      /\ notices' = notices \ {<<t, said>>} /\ <<t, said>> \in notices
      /\ row' = [row EXCEPT ![t].orderStatus = status]
  BY DEF DigiflazzCallback
<1>2. /\ JobsKept(e, {"found"}) /\ AnswersKept(e)
      /\ JobsKept(e, Added) /\ JobsKept(e, Early)
  BY <1>1 DEF JobsKept, AnswersKept
<1>3. MarksKept(e)
  BY <1>1 DEF MarksKept, TypeOK
<1>4. /\ RequestsKept(e, {"creating", "cancelling", "canceled", "updating"})
      /\ RequestsKept(e, {"enqueueing"})
  BY <1>1 DEF RequestsKept
<1>5. /\ row'[e].paidStatus = row[e].paidStatus
      /\ row'[e].isRefunded = row[e].isRefunded
      /\ row'[e].orderStatus = IF e = t THEN status ELSE row[e].orderStatus
  BY <1>1 DEF TypeOK, Row
<1>6. ASSUME e = t
      PROVE  /\ status = "SUCCESS" => supply[e] = "Sukses"
             /\ status = "FAILED" => supply[e] = "Gagal" \/ "misread" \in mark'[e]
  <2>1. said \in {"Sukses", "Gagal"} => supply[e] = said
    BY <1>1, <1>6 DEF Inv, AnswerInv
  <2>2. mark'[e] = mark[e] \cup MarksOf(t, status)
    BY <1>1, <1>6 DEF TypeOK
  <2>3. status = "FAILED" /\ supply[e] # "Gagal" => "misread" \in MarksOf(t, status)
    BY <1>6 DEF MarksOf
  <2> QED
    BY <2>1, <2>2, <2>3 DEF CallbackStatusOf
<1> HIDE DEF status
<1>7. SupplyInv(e)'
  BY <1>1, <1>3, <1>5, <1>6 DEF Inv, SupplyInv, JobOf, Untouched, MarksKept
<1> QED
  BY <1>1, <1>2, <1>3, <1>4, <1>5, <1>7, RowKeeps, MoneyKeeps, AnswerKeeps, OnceKeeps
     DEF Inv

\* A crash puts a running job back or ends it.
LEMMA CrashedJobs ==
  ASSUME TypeOK, Crash, NEW j \in Jobs, job'[j].at # "none"
  PROVE  /\ job[j].at \in Added /\ job'[j].trx = job[j].trx
         /\ job'[j].at \in {"waiting", "done"}
         /\ job'[j].at = "waiting" => job[j].at = "waiting" \/ j \in PutBack
<1>1. CASE j \in PutBack
  <2>1. j \in Running /\ job[j].at # "none"
    BY <1>1 DEF PutBack, Running
  <2>2. job'[j] = [job[j] EXCEPT !.at = "waiting", !.answer = "none",
                                 !.stalls = job[j].stalls + 1]
    BY <1>1 DEF Crash
  <2> QED
    BY <1>1, <2>1, <2>2, JobType
<1>2. CASE j \in Running \ PutBack
  <2>1. job[j].at # "none"
    BY <1>2 DEF Running
  <2>2. job'[j] = [job[j] EXCEPT !.at = "done", !.answer = "none"]
    BY <1>2 DEF Crash
  <2> QED
    BY <1>2, <2>1, <2>2, JobType
<1>3. CASE j \notin Running
  <2>1. j \notin PutBack
    BY <1>3 DEF PutBack
  <2>2. job'[j] = job[j]
    BY <1>3, <2>1 DEF Crash
  <2>3. job[j].at \in {"waiting", "done"}
    BY <1>3, <2>2 DEF Running
  <2> QED
    BY <2>2, <2>3 DEF Added
<1> QED
  BY <1>1, <1>2, <1>3

LEMMA CrashKeeps ==
  ASSUME TypeOK, NEW e \in Trx, Inv(e), Crash
  PROVE  Inv(e)'
<1>1. /\ row' = row /\ invoice' = invoice /\ supply' = supply
      /\ refunds' = refunds /\ notices' = notices
  BY DEF Crash
<1>2. \A r \in Requests : request'[r].at = "idle"
  BY DEF Crash, Idle
<1>3. /\ RequestsKept(e, {"creating", "cancelling", "canceled", "updating"})
      /\ RequestsKept(e, {"enqueueing"})
  BY <1>2 DEF RequestsKept
<1>4. MarksKept(e)
  BY DEF Crash, MarksKept
<1>5. \A j \in Jobs : job'[j].at # "none" =>
        /\ job[j].at \in Added /\ job'[j].trx = job[j].trx
        /\ job'[j].at \in {"waiting", "done"}
        /\ job'[j].at = "waiting" => job[j].at = "waiting" \/ j \in PutBack
  BY CrashedJobs
<1>6. /\ JobsKept(e, {"found"}) /\ JobsKept(e, {"refunding"})
      /\ JobsKept(e, Added) /\ AnswersKept(e)
  BY <1>5 DEF JobsKept, AnswersKept, Added
<1>7. OnceInv(e)'
  <2>1. CASE ~Untouched(e)
    BY <1>4, <2>1 DEF OnceInv, Untouched, MarksKept
  <2>2. CASE Untouched(e) /\ "reexecuted" \notin mark'[e]
    <3>1. ASSUME NEW j \in Jobs, job'[j].at \in Early, job'[j].trx = e
          PROVE  job[j].at \in Early /\ job[j].trx = e
      <4>1. /\ job[j].trx = e
            /\ job[j].at = "waiting" \/ j \in PutBack
        BY <1>5, <3>1 DEF Early
      <4>2. CASE j \in PutBack
        <5>1. job[j].at \notin {"refunded", "restocking"}
          BY <2>2, <4>1, <4>2 DEF Crash
        <5>2. job[j].at \in Added /\ job[j].at # "done"
          BY <1>5, <3>1, <4>2 DEF PutBack, Running, Early
        <5> QED
          BY <4>1, <5>1, <5>2 DEF Added, Early
      <4> QED
        BY <4>1, <4>2 DEF Early
    <3>2. JobsKept(e, Early)
      BY <3>1 DEF JobsKept
    <3> QED
      BY <1>1, <1>3, <1>4, <1>6, <3>2, OnceKeeps DEF Inv
  <2>3. CASE Untouched(e) /\ "reexecuted" \in mark'[e]
    <3>1. \A r \in Requests : ~RequestOf(r, e, {"enqueueing"})'
      BY <1>2 DEF RequestOf
    <3>2. ASSUME NEW j \in Jobs, job'[j].at \in Added, job'[j].trx = e
          PROVE  JobOf(j, e, Added)
      BY <1>6, <3>2 DEF JobsKept, JobOf
    <3> QED
      BY <1>1, <2>3, <3>1, <3>2 DEF Inv, OnceInv, RequestOf, JobOf, Untouched
  <2> QED
    BY <2>1, <2>2, <2>3
<1> QED
  BY <1>1, <1>3, <1>4, <1>6, <1>7, RowKeeps, MoneyKeeps, AnswerKeeps, SupplyKeeps
     DEF Inv

-----------------------------------------------------------------------------
(* The theorems.                                                           *)

LEMMA InitInv ==
  Init => \A t \in Trx : Inv(t)
<1> SUFFICES ASSUME Init, NEW t \in Trx
             PROVE  Inv(t)
  OBVIOUS
<1>1. /\ row[t] = NewRow(FALSE, "NONE") /\ refunds[t] = 0 /\ supply[t] = "none"
      /\ invoice[t] = "none" /\ notices = {}
      /\ \A r \in Requests : request[r].at = "idle"
      /\ \A j \in Jobs : job[j].at = "none"
  BY DEF Init, Idle
<1>2. /\ row[t].paidStatus = "NONE" /\ row[t].orderStatus = "PENDING"
      /\ ~row[t].isRefunded
  BY <1>1 DEF NewRow
<1> QED
  <2>1. RowInv(t)
    BY <1>1, <1>2 DEF RowInv, RequestOf
  <2>2. MoneyInv(t) /\ AnswerInv(t)
    BY <1>1, <1>2 DEF MoneyInv, AnswerInv, JobOf
  <2>0. ~(refunds[t] > 0) /\ refunds[t] <= 1
    BY <1>1
  <2>3. SupplyInv(t)
    BY <1>1, <1>2, <2>0, Zenon DEF SupplyInv, JobOf
  <2>4. OnceInv(t)
    BY <1>1, <1>2, <2>0, Zenon DEF OnceInv, RequestOf, JobOf, Added
  <2> QED
    BY <2>1, <2>2, <2>3, <2>4 DEF Inv

LEMMA NextKeepsInv ==
  ASSUME TypeOK, NEW t \in Trx, Inv(t), [Next]_vars
  PROVE  Inv(t)'
<1>1. ASSUME NEW r \in Requests, RequestStarts(r)
      PROVE  Inv(t)'
  BY <1>1, CreatePaymentKeeps, TransactionCallbackKeeps, CancelFindKeeps,
     UpdateStatusFindKeeps DEF RequestStarts
<1>2. ASSUME NEW r \in Requests, RequestGoesOn(r)
      PROVE  Inv(t)'
  BY <1>2, CreateCommitKeeps, CreateRollbackKeeps, AddJobKeeps, QueueAddFailsKeeps,
     CancelPaymentKeeps, CancelWriteKeeps, UpdateStatusWriteKeeps DEF RequestGoesOn
<1>3. ASSUME NEW j \in Jobs, JobGoesOn(j)
      PROVE  Inv(t)'
  BY <1>3, FindPaidKeeps, FindToRefundKeeps, OrderAtSupplierKeeps,
     WriteOrderStatusKeeps, RefundKeeps, RecordRefundKeeps, RestockKeeps,
     JobErrorKeeps DEF JobGoesOn
<1>4. CASE Environment
  BY <1>4, SettleInvoiceKeeps, PassDeadlineKeeps, SupplierSettlesKeeps,
     SupplierNotifiesKeeps, DigiflazzCallbackKeeps, CrashKeeps DEF Environment
<1>5. CASE UNCHANGED vars
  BY <1>5, Elsewhere DEF vars, MarksKept
<1> QED
  BY <1>1, <1>2, <1>3, <1>4, <1>5, HandleExpiredKeeps DEF Next

\* The inductive invariant.
IInv == TypeOK /\ \A t \in Trx : Inv(t)

\* The inductive invariant holds in every state.
THEOREM Invariant == Spec => []IInv
<1>1. Init /\ TypeOK => IInv
  BY InitInv DEF IInv
<1>2. TypeOK /\ TypeOK' /\ IInv /\ [Next]_vars => IInv'
  BY NextKeepsInv DEF IInv
<1> QED
  BY <1>1, <1>2, TypeCorrect, PTL DEF Spec

\* The supplier is asked only for orders that are PAID, and an order is PAID
\* only when money came in: whatever callbacks, cron, cancellations and jobs
\* do at the same time, as long as no administrator changes the row.
THEOREM Goods_Only_For_Money == Spec => []GoodsOnlyForMoney
<1>1. IInv => GoodsOnlyForMoney
  BY DEF IInv, Inv, MoneyInv, GoodsOnlyForMoney
<1> QED
  BY <1>1, Invariant, PTL

\* Nobody is refunded for an order the supplier delivered or may still deliver.
THEOREM Refund_Only_If_Rejected == Spec => []RefundOnlyIfRejected
<1>1. IInv => RefundOnlyIfRejected
  BY DEF IInv, Inv, SupplyInv, RefundOnlyIfRejected
<1> QED
  BY <1>1, Invariant, PTL

\* An order is refunded at most once, unless an administrator acts or Bull
\* runs a job again that had refunded.
THEOREM Refunded_Once_Unless_Rerun == Spec => []RefundedOnceUnlessRerun
<1>1. IInv => RefundedOnceUnlessRerun
  <2> SUFFICES ASSUME TypeOK, NEW t \in Trx, Inv(t), refunds[t] > 1,
                      "touched" \notin mark[t], "reexecuted" \notin mark[t]
               PROVE  FALSE
    BY DEF IInv, RefundedOnceUnlessRerun
  <2>1. refunds[t] <= 1 /\ refunds[t] \in Nat
    BY DEF Inv, OnceInv, Untouched, TypeOK
  <2> QED
    BY <2>1
<1> QED
  BY <1>1, Invariant, PTL

\* SUCCESS and FAILED of an order say what the supplier did, although the job
\* may write an answer that the supplier's callback has overtaken, and callbacks
\* overtake each other; unless one that told Pending was taken for a failure.
THEOREM Order_Status_Truthful == Spec => []OrderStatusTruthful
<1>1. IInv => OrderStatusTruthful
  BY DEF IInv, Inv, SupplyInv, OrderStatusTruthful
<1> QED
  BY <1>1, Invariant, PTL

\* A step leaves a paid order paid, unless an administrator takes it.
LEMMA StepKeepsPaid ==
  ASSUME TypeOK, NEW t \in Trx, Inv(t), [Next]_vars, row[t].paidStatus = "PAID",
         "touched" \notin mark'[t]
  PROVE  row'[t].paidStatus = "PAID"
<1>1. ASSUME NEW r \in Requests, CreateCommit(r)
      PROVE  row'[t] = row[t]
  <2>1. request[r].trx # t
    BY <1>1 DEF CreateCommit, Inv, RowInv, RequestOf
  <2> QED
    BY <1>1, <2>1 DEF CreateCommit, TypeOK
<1>2. ASSUME NEW r \in Requests, NEW e \in Trx, TransactionCallback(r, e)
      PROVE  row'[t] = row[t]
  <2>1. e # t
    BY <1>2 DEF TransactionCallback
  <2> QED
    BY <1>2, <2>1 DEF TransactionCallback, TypeOK
<1>3. ASSUME HandleExpiredTransaction
      PROVE  row'[t] = row[t]
  BY <1>3 DEF HandleExpiredTransaction
<1>4. ASSUME NEW r \in Requests, CancelWrite(r)
      PROVE  row'[t] = row[t]
  <2>1. mark' = mark
    BY <1>4 DEF CancelWrite
  <2>2. request[r].trx # t
    BY <1>4, <2>1 DEF CancelWrite, Inv, RowInv, MoneyInv, Untouched, RequestOf
  <2> QED
    BY <1>4, <2>2 DEF CancelWrite, TypeOK
<1>5. ASSUME NEW r \in Requests, NEW data \in AdminChanges, UpdateStatusWrite(r, data)
      PROVE  row'[t] = row[t]
  <2>1. request[r].trx # t
    BY <1>5 DEF UpdateStatusWrite, TypeOK
  <2> QED
    BY <1>5, <2>1 DEF UpdateStatusWrite, TypeOK
<1>6. ASSUME NEW j \in Jobs, WriteOrderStatus(j)
      PROVE  row'[t].paidStatus = row[t].paidStatus
  BY <1>6, OrderWritten
<1>7. ASSUME NEW j \in Jobs, RecordRefund(j)
      PROVE  row'[t].paidStatus = row[t].paidStatus
  <2>1. job[j].trx \in Trx
    BY <1>7, JobType DEF RecordRefund
  <2> QED
    BY <1>7, <2>1 DEF RecordRefund, TypeOK, Row
<1>8. ASSUME NEW e \in Trx, NEW said \in SupplierStatus, DigiflazzCallback(e, said)
      PROVE  row'[t].paidStatus = row[t].paidStatus
  BY <1>8 DEF DigiflazzCallback, TypeOK, Row
<1>9. CASE UNCHANGED row
  BY <1>9
<1>10. ASSUME NEW r \in Requests, RequestStarts(r) \/ RequestGoesOn(r)
       PROVE  row'[t].paidStatus = row[t].paidStatus
  BY <1>1, <1>2, <1>4, <1>5, <1>10
     DEF RequestStarts, RequestGoesOn, CreatePayment, CancelFind, UpdateStatusFind,
         CreateRollback, AddJob, QueueAddFails, CancelPayment
<1>11. ASSUME NEW j \in Jobs, JobGoesOn(j)
       PROVE  row'[t].paidStatus = row[t].paidStatus
  BY <1>6, <1>7, <1>11
     DEF JobGoesOn, FindPaid, FindToRefund, OrderAtSupplier, Refund, Restock, JobError
<1>12. CASE Environment
  BY <1>8, <1>12 DEF Environment, SettleInvoice, PassDeadline, SupplierSettles,
                     SupplierNotifies, Crash
<1> QED
  BY <1>3, <1>9, <1>10, <1>11, <1>12 DEF Next, vars

\* No handler takes PAID away: the callback and the cron ask for PENDING, and
\* the cancellation, whose write asks for nothing, has canceled the payment.
THEOREM Paid_Never_Undone == Spec => PaidNeverUndone
<1> DEFINE Kept == \A t \in Trx :
             row[t].paidStatus = "PAID" /\ "touched" \notin mark'[t]
               => row'[t].paidStatus = "PAID"
<1>1. IInv /\ [Next]_vars => [Kept]_vars
  BY StepKeepsPaid DEF IInv
<1> QED
  BY <1>1, Invariant, PTL DEF Spec, PaidNeverUndone

\* A step that changes neither what the supplier rejected nor the refunds nor
\* what is waived is a stutter of PayOnce.
LEMMA PromiseStutters ==
  ASSUME supply' = supply, refunds' = refunds,
         \A t \in Trx : mark'[t] \cap {"touched", "reexecuted"} =
                        mark[t] \cap {"touched", "reexecuted"}
  PROVE  UNCHANGED Promise!vars
BY DEF Promise!vars

\* Every step of Transaction is a step of PayOnce or a stutter of it.
LEMMA NextKeepsPromise ==
  ASSUME TypeOK, \A t \in Trx : Inv(t), [Next]_vars
  PROVE  [Promise!Next]_(Promise!vars)
<1>1. ASSUME NEW j \in Jobs, Refund(j)
      PROVE  Promise!Next
  <2> DEFINE t == job[j].trx
  <2>1. job[j].at = "refunding" /\ t \in Trx
    BY <1>1, JobType DEF Refund
  <2>2. Untouched(t) => supply[t] = "Gagal"
    BY <2>1 DEF Inv, SupplyInv, JobOf
  <2>3. Untouched(t) /\ "reexecuted" \notin mark[t] => refunds[t] = 0
    BY <2>1 DEF Inv, OnceInv, JobOf
  <2>4. Promise!MayPay(t)
    BY <2>1, <2>2, <2>3 DEF Promise!MayPay, Untouched
  <2>5. Promise!Payout(t)
    BY <1>1, <2>4 DEF Refund, Promise!Payout
  <2> QED
    BY <2>1, <2>5 DEF Promise!Next
<1>2. ASSUME NEW t \in Trx, NEW outcome \in {"Sukses", "Gagal"},
             SupplierSettles(t, outcome)
      PROVE  [Promise!Next]_(Promise!vars)
  <2>1. \A e \in Trx : mark'[e] \cap {"touched", "reexecuted"} =
                       mark[e] \cap {"touched", "reexecuted"}
    BY <1>2 DEF SupplierSettles, TypeOK
  <2>2. {e \in Trx : mark'[e] \cap {"touched", "reexecuted"} # {}} =
          {e \in Trx : mark[e] \cap {"touched", "reexecuted"} # {}}
    BY <2>1
  <2>3. CASE outcome = "Gagal"
    <3>1. {e \in Trx : supply'[e] = "Gagal"} =
            {e \in Trx : supply[e] = "Gagal"} \cup {t}
      BY <1>2, <2>3 DEF SupplierSettles, TypeOK
    <3>2. Promise!Entitle(t)
      BY <1>2, <2>2, <3>1 DEF SupplierSettles, Promise!Entitle
    <3> QED
      BY <3>2 DEF Promise!Next
  <2>4. CASE outcome = "Sukses"
    <3>1. {e \in Trx : supply'[e] = "Gagal"} = {e \in Trx : supply[e] = "Gagal"}
      BY <1>2, <2>4 DEF SupplierSettles, TypeOK
    <3> QED
      BY <1>2, <2>2, <3>1 DEF SupplierSettles, Promise!vars
  <2> QED
    BY <2>3, <2>4
<1>3. ASSUME NEW j \in Jobs, NEW answer \in SupplierStatus,
             OrderAtSupplier(j, answer)
      PROVE  [Promise!Next]_(Promise!vars)
  <2>1. PICK t \in Trx : /\ supply' = [supply EXCEPT ![t] = answer]
                         /\ supply[t] \in {"none", answer}
                         /\ refunds' = refunds /\ mark' = mark
    BY <1>3, JobType DEF OrderAtSupplier
  <2>2. CASE answer = "Gagal"
    <3>1. {e \in Trx : supply'[e] = "Gagal"} =
            {e \in Trx : supply[e] = "Gagal"} \cup {t}
      BY <2>1, <2>2 DEF TypeOK
    <3>2. Promise!Entitle(t)
      BY <2>1, <3>1 DEF Promise!Entitle
    <3> QED
      BY <3>2 DEF Promise!Next
  <2>3. CASE answer # "Gagal"
    <3>1. {e \in Trx : supply'[e] = "Gagal"} = {e \in Trx : supply[e] = "Gagal"}
      BY <2>1, <2>3 DEF TypeOK
    <3> QED
      BY <2>1, <3>1 DEF Promise!vars
  <2> QED
    BY <2>2, <2>3
<1>4. ASSUME NEW r \in Requests, NEW data \in AdminChanges, UpdateStatusWrite(r, data)
      PROVE  Promise!Next
  <2>1. PICK t \in Trx :
          /\ mark' = [mark EXCEPT ![t] = mark[t] \cup {"touched"}]
          /\ supply' = supply /\ refunds' = refunds
    BY <1>4, RequestType DEF UpdateStatusWrite
  <2>2. {e \in Trx : mark'[e] \cap {"touched", "reexecuted"} # {}} =
          {e \in Trx : mark[e] \cap {"touched", "reexecuted"} # {}} \cup {t}
    BY <2>1 DEF TypeOK
  <2>3. Promise!Waive({t})
    BY <2>1, <2>2 DEF Promise!Waive
  <2> QED
    BY <2>3 DEF Promise!Next
<1>5. CASE Crash
  <2> DEFINE rerun == {t \in Trx : \E j \in PutBack :
                  job[j].trx = t /\ job[j].at \in {"refunded", "restocking"}}
  <2>1. \A t \in Trx : mark'[t] \cap {"touched", "reexecuted"} =
          (mark[t] \cap {"touched", "reexecuted"})
            \cup (IF t \in rerun THEN {"reexecuted"} ELSE {})
    BY <1>5 DEF Crash, TypeOK
  <2>2. {t \in Trx : mark'[t] \cap {"touched", "reexecuted"} # {}} =
          {t \in Trx : mark[t] \cap {"touched", "reexecuted"} # {}} \cup rerun
    BY <2>1
  <2>3. rerun \in SUBSET Trx
    OBVIOUS
  <2>4. Promise!Waive(rerun)
    BY <1>5, <2>2 DEF Crash, Promise!Waive
  <2> HIDE DEF rerun
  <2> QED
    BY <2>3, <2>4 DEF Promise!Next, Promise!Waive
<1>6. ASSUME NEW j \in Jobs, \/ \E routed \in BOOLEAN : FindPaid(j, routed)
                             \/ WriteOrderStatus(j) \/ JobError(j)
      PROVE  UNCHANGED Promise!vars
  <2>1. ASSUME NEW routed \in BOOLEAN, FindPaid(j, routed)
        PROVE  UNCHANGED Promise!vars
    BY <2>1, PromiseStutters DEF FindPaid, TypeOK
  <2>2. CASE WriteOrderStatus(j)
    BY <2>2, PromiseStutters, MarksOfTypes DEF WriteOrderStatus, TypeOK
  <2>3. CASE JobError(j)
    BY <2>3, PromiseStutters DEF JobError, TypeOK
  <2> QED
    BY <1>6, <2>1, <2>2, <2>3
<1>7. UNCHANGED <<supply, refunds, mark>> => UNCHANGED Promise!vars
  BY PromiseStutters
<1>12. ASSUME NEW r \in Requests, QueueAddFails(r)
       PROVE  UNCHANGED Promise!vars
  BY <1>12, PromiseStutters DEF QueueAddFails, TypeOK
<1>13. ASSUME NEW t \in Trx, NEW said \in SupplierStatus, DigiflazzCallback(t, said)
       PROVE  UNCHANGED Promise!vars
  BY <1>13, PromiseStutters, MarksOfTypes DEF DigiflazzCallback, TypeOK
<1>8. ASSUME NEW r \in Requests, RequestStarts(r) \/ RequestGoesOn(r)
      PROVE  [Promise!Next]_(Promise!vars)
  BY <1>4, <1>7, <1>8, <1>12
     DEF RequestStarts, RequestGoesOn, CreatePayment, TransactionCallback,
         CancelFind, UpdateStatusFind, CreateCommit, CreateRollback, AddJob,
         CancelPayment, CancelWrite
<1>9. ASSUME NEW j \in Jobs, JobGoesOn(j)
      PROVE  [Promise!Next]_(Promise!vars)
  BY <1>1, <1>3, <1>6, <1>7, <1>9
     DEF JobGoesOn, FindToRefund, RecordRefund, Restock
<1>10. CASE Environment
  BY <1>2, <1>5, <1>7, <1>10, <1>13
     DEF Environment, SettleInvoice, PassDeadline, SupplierNotifies
<1>11. CASE HandleExpiredTransaction \/ UNCHANGED vars
  BY <1>7, <1>11 DEF HandleExpiredTransaction, vars
<1> QED
  BY <1>8, <1>9, <1>10, <1>11 DEF Next

\* Transaction implements PayOnce: no interleaving of jobs, callbacks, the
\* cron, cancellations and crashes refunds an order twice, or before the
\* supplier rejected it, unless an administrator acts or a job that had
\* refunded is run again.
THEOREM Transaction_Keeps_Promise == Spec => KeepsPromise
<1>1. Init => Promise!Init
  BY DEF Init, Promise!Init
<1>2. IInv /\ [Next]_vars => [Promise!Next]_(Promise!vars)
  BY NextKeepsPromise DEF IInv
<1> QED
  BY <1>1, <1>2, Invariant, PTL DEF Spec, KeepsPromise, Promise!Spec

-----------------------------------------------------------------------------
(* The stock: each increment is matched by a refund, counting the jobs that *)
(* have refunded and will restock.                                         *)

Restocking == {"refunded", "restocking"}

LEMMA ToRestockFinite ==
  ASSUME NEW t \in Trx
  PROVE  /\ IsFiniteSet(ToRestock(t)) /\ Cardinality(ToRestock(t)) \in Nat
<1>1. ToRestock(t) \in SUBSET Jobs
  BY DEF ToRestock
<1> QED
  BY <1>1, JobsAssumption, FS_Subset, FS_CardinalityType

LEMMA StockKeeps ==
  ASSUME TypeOK, NEW t \in Trx, StockInv(t), MarksKept(t),
         refunds'[t] = refunds[t], restocks'[t] = restocks[t],
         JobsKept(t, Restocking),
         Untouched(t)' /\ row'[t].refundStatus = "SUCCESS" =>
           row[t].refundStatus = "SUCCESS"
  PROVE  StockInv(t)'
<1>1. ToRestock(t)' \in SUBSET ToRestock(t)
  BY DEF ToRestock, JobOf, JobsKept, Restocking
<1>2. PICK m \in Nat : m = Cardinality(ToRestock(t))
  BY ToRestockFinite
<1>3. PICK n \in Nat : n = Cardinality(ToRestock(t)')
  BY <1>1, ToRestockFinite, FS_Subset, FS_CardinalityType
<1>4. n <= m
  BY <1>1, <1>2, <1>3, ToRestockFinite, FS_Subset
<1>5. /\ refunds[t] \in Nat /\ restocks[t] \in Nat
      /\ Cardinality(ToRestock(t))' = n
  BY <1>3 DEF TypeOK
<1>6. restocks'[t] + Cardinality(ToRestock(t))' <= refunds'[t]
  BY <1>2, <1>4, <1>5 DEF StockInv
<1>7. Untouched(t)' => Untouched(t)
  BY DEF Untouched, MarksKept
<1> QED
  BY <1>6, <1>7 DEF StockInv

\* Only a refund makes a job one that will restock.
LEMMA RestockersKept ==
  ASSUME TypeOK, NEW t \in Trx, [Next]_vars, \A j \in Jobs : ~Refund(j)
  PROVE  JobsKept(t, Restocking)
<1>1. ASSUME NEW j \in Jobs, job[j].at # "none", NEW at,
             job'[j].at = at, job'[j].trx = job[j].trx,
             at \in Restocking => job[j].at \in Restocking,
             \A i \in Jobs \ {j} : job'[i] = job[i]
      PROVE  JobsKept(t, Restocking)
  BY <1>1 DEF JobsKept
<1>2. ASSUME NEW r \in Requests, AddJob(r)
      PROVE  JobsKept(t, Restocking)
  <2>1. PICK j \in Jobs : /\ job'[j].at = "waiting"
                          /\ \A i \in Jobs \ {j} : job'[i] = job[i]
    BY <1>2 DEF AddJob, TypeOK
  <2> QED
    BY <2>1 DEF JobsKept, Restocking
<1>3. ASSUME NEW j \in Jobs, JobGoesOn(j)
      PROVE  JobsKept(t, Restocking)
  <2>1. job[j].at # "none"
    BY <1>3 DEF JobGoesOn, FindPaid, FindToRefund, OrderAtSupplier, WriteOrderStatus,
                Refund, RecordRefund, Restock, JobError, Running
  <2>2. job[j].answer \in SupplierStatus \cup {"none"}
    BY <2>1, JobType
  <2>3. PICK at \in Added, answer \in SupplierStatus \cup {"none"} :
          /\ \/ job' = [job EXCEPT ![j].at = at, ![j].answer = answer]
             \/ job' = [job EXCEPT ![j].at = at] /\ answer = job[j].answer
          /\ at \in Restocking => job[j].at \in Restocking
    <3>1. CASE \E routed \in BOOLEAN : FindPaid(j, routed)
      BY <2>2, <3>1 DEF FindPaid, Move, Added, Restocking
    <3>2. CASE FindToRefund(j)
      BY <2>2, <3>2 DEF FindToRefund, Move, Added, Restocking
    <3>3. CASE \E answer \in SupplierStatus : OrderAtSupplier(j, answer)
      BY <3>3 DEF OrderAtSupplier, Added, Restocking
    <3>4. CASE WriteOrderStatus(j)
      BY <3>4 DEF WriteOrderStatus, Added, Restocking
    <3>5. CASE RecordRefund(j)
      BY <2>2, <3>5 DEF RecordRefund, Move, Added, Restocking
    <3>6. CASE Restock(j)
      BY <2>2, <3>6 DEF Restock, Move, Added, Restocking
    <3>7. CASE JobError(j)
      BY <3>7 DEF JobError, Added, Restocking
    <3> QED
      BY <1>3, <3>1, <3>2, <3>3, <3>4, <3>5, <3>6, <3>7 DEF JobGoesOn
  <2> QED
    BY <1>1, <2>1, <2>3, JobMoves
<1>4. CASE Crash
  BY <1>4, CrashedJobs DEF JobsKept, Restocking
<1>5. CASE UNCHANGED job
  BY <1>5 DEF JobsKept
<1> QED
  BY <1>2, <1>3, <1>4, <1>5
     DEF Next, vars, RequestStarts, RequestGoesOn, Environment, CreatePayment,
         TransactionCallback, CancelFind, UpdateStatusFind, CreateCommit,
         CreateRollback, QueueAddFails, CancelPayment, CancelWrite,
         UpdateStatusWrite, HandleExpiredTransaction, SettleInvoice, PassDeadline,
         SupplierSettles, SupplierNotifies, DigiflazzCallback

\* Only RecordRefund, or an administrator, writes refundStatus SUCCESS.
LEMMA RefundStatusKept ==
  ASSUME TypeOK, NEW t \in Trx, [Next]_vars, \A j \in Jobs : ~RecordRefund(j),
         Untouched(t)', row'[t].refundStatus = "SUCCESS"
  PROVE  row[t].refundStatus = "SUCCESS"
<1>1. ASSUME NEW r \in Requests, CreateCommit(r)
      PROVE  row'[t] = row[t]
  <2>1. PICK paid : row' = [row EXCEPT ![request[r].trx] =
                              NewRow(request[r].ofUser, paid)]
    BY <1>1 DEF CreateCommit
  <2>2. CASE request[r].trx = t
    <3>1. row'[t] = NewRow(request[r].ofUser, paid)
      BY <2>1, <2>2 DEF TypeOK
    <3>2. row'[t].refundStatus = "NONE"
      BY <3>1 DEF NewRow
    <3> QED
      BY <3>2
  <2>3. CASE request[r].trx # t
    BY <2>1, <2>3 DEF TypeOK
  <2> QED
    BY <2>2, <2>3
<1>2. ASSUME NEW r \in Requests, NEW e \in Trx, TransactionCallback(r, e)
      PROVE  row'[t].refundStatus = row[t].refundStatus
  BY <1>2 DEF TransactionCallback, TypeOK, Row
<1>3. ASSUME HandleExpiredTransaction
      PROVE  row'[t].refundStatus = row[t].refundStatus
  <2>1. \/ row'[t] = row[t]
        \/ row'[t] = [row[t] EXCEPT !.paidStatus = "EXPIRED"]
    BY <1>3 DEF HandleExpiredTransaction
  <2> QED
    BY <2>1 DEF TypeOK, Row
<1>4. ASSUME NEW r \in Requests, CancelWrite(r)
      PROVE  row'[t].refundStatus = row[t].refundStatus
  <2>1. \/ row'[t] = row[t]
        \/ row'[t] = Updated(row[t], [orderStatus |-> "CANCELED",
                                      paidStatus |-> "CANCELED"])
    BY <1>4 DEF CancelWrite, TypeOK
  <2> QED
    BY <2>1, CanceledRow DEF TypeOK
<1>5. ASSUME NEW r \in Requests, NEW data \in AdminChanges, UpdateStatusWrite(r, data)
      PROVE  row'[t] = row[t]
  <2>1. request[r].trx # t
    BY <1>5 DEF UpdateStatusWrite, TypeOK, Untouched
  <2> QED
    BY <1>5, <2>1 DEF UpdateStatusWrite, TypeOK
<1>6. ASSUME NEW j \in Jobs, WriteOrderStatus(j)
      PROVE  row'[t].refundStatus \in {"PROCESS", row[t].refundStatus}
  BY <1>6, OrderWritten
<1>7. ASSUME NEW e \in Trx, NEW said \in SupplierStatus, DigiflazzCallback(e, said)
      PROVE  row'[t].refundStatus = row[t].refundStatus
  BY <1>7 DEF DigiflazzCallback, TypeOK, Row
<1>8. ASSUME NEW r \in Requests, RequestStarts(r) \/ RequestGoesOn(r)
      PROVE  row'[t].refundStatus = row[t].refundStatus
  BY <1>1, <1>2, <1>4, <1>5, <1>8
     DEF RequestStarts, RequestGoesOn, CreatePayment, CancelFind, UpdateStatusFind,
         CreateRollback, AddJob, QueueAddFails, CancelPayment
<1>9. ASSUME NEW j \in Jobs, JobGoesOn(j)
      PROVE  row'[t].refundStatus \in {"PROCESS", row[t].refundStatus}
  BY <1>6, <1>9
     DEF JobGoesOn, FindPaid, FindToRefund, OrderAtSupplier, Refund, Restock, JobError
<1>10. CASE Environment
  BY <1>7, <1>10 DEF Environment, SettleInvoice, PassDeadline, SupplierSettles,
                     SupplierNotifies, Crash
<1> QED
  BY <1>3, <1>8, <1>9, <1>10 DEF Next, vars

\* What the other steps leave alone.
LEMMA StepKeepsCounts ==
  ASSUME TypeOK, NEW t \in Trx, [Next]_vars,
         ~\E j \in Jobs : Refund(j) \/ RecordRefund(j) \/ Restock(j)
  PROVE  MarksKept(t) /\ refunds' = refunds /\ restocks' = restocks
<1>1. refunds' = refunds /\ restocks' = restocks
  BY DEF Next, vars, RequestStarts, RequestGoesOn, JobGoesOn, Environment,
         CreatePayment, TransactionCallback, CancelFind, UpdateStatusFind,
         CreateCommit, CreateRollback, AddJob, QueueAddFails, CancelPayment,
         CancelWrite, UpdateStatusWrite, FindPaid, FindToRefund, OrderAtSupplier,
         WriteOrderStatus, JobError, HandleExpiredTransaction, SettleInvoice,
         PassDeadline, SupplierSettles, SupplierNotifies, DigiflazzCallback, Crash
<1>2. mark' = mark => MarksKept(t)
  BY DEF MarksKept
<1>3. ASSUME NEW r \in Requests, RequestStarts(r) \/ RequestGoesOn(r)
      PROVE  MarksKept(t)
  <2>1. ASSUME NEW data \in AdminChanges, UpdateStatusWrite(r, data)
        PROVE  MarksKept(t)
    BY <2>1 DEF UpdateStatusWrite, MarksKept, TypeOK
  <2>2. CASE QueueAddFails(r)
    BY <2>2, RequestType DEF QueueAddFails, MarksKept, TypeOK
  <2> QED
    BY <1>2, <1>3, <2>1, <2>2
       DEF RequestStarts, RequestGoesOn, CreatePayment, TransactionCallback,
           CancelFind, UpdateStatusFind, CreateCommit, CreateRollback, AddJob,
           CancelPayment, CancelWrite
<1>4. ASSUME NEW j \in Jobs, JobGoesOn(j)
      PROVE  MarksKept(t)
  <2>1. ASSUME NEW routed \in BOOLEAN, FindPaid(j, routed)
        PROVE  MarksKept(t)
    BY <2>1 DEF FindPaid, MarksKept, TypeOK
  <2>2. CASE WriteOrderStatus(j)
    BY <2>2 DEF WriteOrderStatus, MarksKept, TypeOK
  <2>3. CASE JobError(j)
    BY <2>3 DEF JobError, MarksKept, TypeOK
  <2> QED
    BY <1>2, <1>4, <2>1, <2>2, <2>3
       DEF JobGoesOn, FindToRefund, OrderAtSupplier, Refund, RecordRefund, Restock
<1>5. ASSUME Environment
      PROVE  MarksKept(t)
  <2>1. ASSUME NEW e \in Trx, NEW outcome \in {"Sukses", "Gagal"},
               SupplierSettles(e, outcome)
        PROVE  MarksKept(t)
    BY <2>1 DEF SupplierSettles, MarksKept, TypeOK
  <2>2. CASE Crash
    BY <2>2 DEF Crash, MarksKept
  <2>3. ASSUME NEW e \in Trx, NEW said \in SupplierStatus, DigiflazzCallback(e, said)
        PROVE  MarksKept(t)
    BY <2>3 DEF DigiflazzCallback, MarksKept, TypeOK
  <2> QED
    BY <1>2, <1>5, <2>1, <2>2, <2>3
       DEF Environment, SettleInvoice, PassDeadline, SupplierNotifies
<1>6. CASE HandleExpiredTransaction \/ UNCHANGED vars
  BY <1>2, <1>6 DEF HandleExpiredTransaction, vars
<1> QED
  BY <1>1, <1>3, <1>4, <1>5, <1>6 DEF Next

LEMMA RefundKeepsStock ==
  ASSUME TypeOK, NEW e \in Trx, StockInv(e), NEW j \in Jobs, Refund(j)
  PROVE  StockInv(e)'
<1> DEFINE t == job[j].trx
<1>1. t \in Trx /\ job[j].at = "refunding"
      /\ job[j].answer \in SupplierStatus \cup {"none"}
  BY JobType DEF Refund
<1>2. /\ row' = row /\ restocks' = restocks /\ mark' = mark
      /\ refunds' = [refunds EXCEPT ![t] = refunds[t] + 1]
  BY DEF Refund
<1>3. /\ job'[j].at = "refunded" /\ job'[j].trx = t
      /\ \A i \in Jobs \ {j} : job'[i] = job[i]
  BY <1>1, JobMoves DEF Refund, Move, Added
<1>4. CASE e # t
  <2>1. JobsKept(e, Restocking)
    BY <1>3, <1>4 DEF JobsKept
  <2>2. refunds'[e] = refunds[e] /\ MarksKept(e)
    BY <1>2, <1>4 DEF TypeOK, MarksKept
  <2> QED
    BY <1>2, <2>1, <2>2, StockKeeps
<1>5. CASE e = t
  <2>1. /\ ToRestock(e)' = ToRestock(e) \cup {j}
        /\ j \notin ToRestock(e)
    BY <1>1, <1>3, <1>5 DEF ToRestock, JobOf
  <2>2. PICK m \in Nat : m = Cardinality(ToRestock(e))
    BY ToRestockFinite
  <2>3. Cardinality(ToRestock(e))' = m + 1
    BY <2>1, <2>2, ToRestockFinite, FS_AddElement
  <2>4. /\ refunds'[e] = refunds[e] + 1 /\ restocks'[e] = restocks[e]
        /\ refunds[e] \in Nat /\ restocks[e] \in Nat
    BY <1>2, <1>5 DEF TypeOK
  <2> QED
    BY <2>2, <2>3, <2>4 DEF StockInv
<1> QED
  BY <1>4, <1>5

LEMMA RestockKeepsStock ==
  ASSUME TypeOK, NEW e \in Trx, StockInv(e), NEW j \in Jobs, Restock(j)
  PROVE  StockInv(e)'
<1> DEFINE t == job[j].trx
<1>1. t \in Trx /\ job[j].at = "restocking"
      /\ job[j].answer \in SupplierStatus \cup {"none"}
  BY JobType DEF Restock
<1>2. /\ row' = row /\ refunds' = refunds /\ mark' = mark
      /\ restocks' = [restocks EXCEPT ![t] = restocks[t] + 1]
  BY DEF Restock
<1>3. /\ job'[j].at = "done" /\ job'[j].trx = t
      /\ \A i \in Jobs \ {j} : job'[i] = job[i]
  BY <1>1, JobMoves DEF Restock, Move, Added
<1>4. CASE e # t
  <2>1. JobsKept(e, Restocking)
    BY <1>3, <1>4 DEF JobsKept
  <2>2. restocks'[e] = restocks[e] /\ MarksKept(e)
    BY <1>2, <1>4 DEF TypeOK, MarksKept
  <2> QED
    BY <1>2, <2>1, <2>2, StockKeeps
<1>5. CASE e = t
  <2>1. /\ ToRestock(e)' = ToRestock(e) \ {j}
        /\ j \in ToRestock(e)
    BY <1>1, <1>3, <1>5 DEF ToRestock, JobOf
  <2>2. PICK m \in Nat : m = Cardinality(ToRestock(e))
    BY ToRestockFinite
  <2>3. Cardinality(ToRestock(e))' = m - 1
    BY <2>1, <2>2, ToRestockFinite, FS_RemoveElement
  <2>4. /\ refunds'[e] = refunds[e] /\ restocks'[e] = restocks[e] + 1
        /\ refunds[e] \in Nat /\ restocks[e] \in Nat
    BY <1>2, <1>5 DEF TypeOK
  <2> QED
    BY <1>2, <2>2, <2>3, <2>4 DEF StockInv, Untouched
<1> QED
  BY <1>4, <1>5

LEMMA RecordRefundKeepsStock ==
  ASSUME TypeOK, NEW e \in Trx, StockInv(e), NEW j \in Jobs, RecordRefund(j)
  PROVE  StockInv(e)'
<1> DEFINE t == job[j].trx
<1>1. t \in Trx /\ job[j].at = "refunded"
      /\ job[j].answer \in SupplierStatus \cup {"none"}
  BY JobType DEF RecordRefund
<1>2. /\ restocks' = restocks /\ refunds' = refunds /\ mark' = mark
      /\ row' = [row EXCEPT ![t].refundStatus = "SUCCESS"]
  BY DEF RecordRefund
<1>3. /\ job'[j].at = "restocking" /\ job'[j].trx = t
      /\ \A i \in Jobs \ {j} : job'[i] = job[i]
  BY <1>1, JobMoves DEF RecordRefund, Move, Added
<1>4. CASE e # t
  <2>1. JobsKept(e, Restocking)
    BY <1>3, <1>4 DEF JobsKept
  <2>2. row'[e] = row[e] /\ MarksKept(e)
    BY <1>2, <1>4 DEF TypeOK, MarksKept
  <2> QED
    BY <1>2, <2>1, <2>2, StockKeeps
<1>5. CASE e = t
  <2>1. /\ ToRestock(e)' = ToRestock(e)
        /\ j \in ToRestock(e)
    BY <1>1, <1>3, <1>5 DEF ToRestock, JobOf
  <2>2. PICK m \in Nat : m = Cardinality(ToRestock(e))
    BY ToRestockFinite
  <2>3. m # 0
    BY <2>1, <2>2, ToRestockFinite, FS_EmptySet
  <2>4. Cardinality(ToRestock(e))' = m
    BY <2>1, <2>2
  <2>5. refunds[e] \in Nat /\ restocks[e] \in Nat
    BY DEF TypeOK
  <2>6. refunds[e] >= 1
    BY <2>2, <2>3, <2>5 DEF StockInv
  <2> QED
    BY <1>2, <2>2, <2>4, <2>5, <2>6 DEF StockInv
<1> QED
  BY <1>4, <1>5

LEMMA NextKeepsStock ==
  ASSUME TypeOK, NEW t \in Trx, StockInv(t), [Next]_vars
  PROVE  StockInv(t)'
<1>1. CASE \E j \in Jobs : Refund(j) \/ RecordRefund(j) \/ Restock(j)
  BY <1>1, RefundKeepsStock, RecordRefundKeepsStock, RestockKeepsStock
<1>2. CASE ~\E j \in Jobs : Refund(j) \/ RecordRefund(j) \/ Restock(j)
  <2>1. JobsKept(t, Restocking)
    BY <1>2, RestockersKept
  <2>2. Untouched(t)' /\ row'[t].refundStatus = "SUCCESS" =>
          row[t].refundStatus = "SUCCESS"
    BY <1>2, RefundStatusKept
  <2>3. MarksKept(t) /\ refunds' = refunds /\ restocks' = restocks
    BY <1>2, StepKeepsCounts
  <2> QED
    BY <2>1, <2>2, <2>3, StockKeeps
<1> QED
  BY <1>1, <1>2

\* refundStatus SUCCESS means that the balance was credited, and the stock is
\* given back at most once for each refund, even if crashes make jobs run
\* again.
THEOREM Refund_Accounts == Spec => []RefundAccounts
<1> DEFINE All == \A t \in Trx : StockInv(t)
<1>1. Init => All
  <2> SUFFICES ASSUME Init, NEW t \in Trx
               PROVE  StockInv(t)
    OBVIOUS
  <2>1. /\ restocks[t] = 0 /\ refunds[t] = 0 /\ row[t].refundStatus = "NONE"
        /\ \A j \in Jobs : job[j].at = "none"
    BY DEF Init, NewRow
  <2>2. ToRestock(t) = {}
    BY <2>1 DEF ToRestock, JobOf
  <2> QED
    BY <2>1, <2>2, FS_EmptySet DEF StockInv
<1>2. TypeOK /\ All /\ [Next]_vars => All'
  BY NextKeepsStock
<1>3. TypeOK /\ All => RefundAccounts
  <2> SUFFICES ASSUME TypeOK, NEW t \in Trx, StockInv(t)
               PROVE  /\ restocks[t] <= refunds[t]
                      /\ Untouched(t) /\ row[t].refundStatus = "SUCCESS" =>
                           refunds[t] >= 1
    BY DEF RefundAccounts
  <2>1. PICK m \in Nat : m = Cardinality(ToRestock(t))
    BY ToRestockFinite
  <2>2. refunds[t] \in Nat /\ restocks[t] \in Nat
    BY DEF TypeOK
  <2> QED
    BY <2>1, <2>2 DEF StockInv
<1> HIDE DEF All
<1> QED
  BY <1>1, <1>2, <1>3, TypeCorrect, PTL DEF Spec

-----------------------------------------------------------------------------
(* NothingForgotten.  Its second and third part are inductive as they are;  *)
(* the first needs to know that a row of a debited order is never PENDING.  *)

WillProcess(r, t) ==
  RequestOf(r, t, {"enqueueing"}) /\ "transaction" \in request[r].names

\* Somebody will bring order t to the supplier.
Carried(t) ==
  \/ \E r \in Requests : WillProcess(r, t)
  \/ \E j \in Processing(t) : job[j].at \in {"waiting", "found"}

OrderInv(t) ==
  /\ Untouched(t) /\ row[t].paidStatus = "PENDING" => invoice[t] # "saldo"
  /\ /\ mark[t] \cap {"touched", "lost", "unrouted", "errored"} = {}
     /\ row[t].paidStatus = "PAID" /\ supply[t] = "none"
     => Carried(t)

ReportInv(t) ==
  supply[t] \in {"Sukses", "Gagal"} =>
    \/ row[t].orderStatus = OrderStatusOf(supply[t])
    \/ mark[t] \cap {"touched", "regressed", "unrouted", "errored"} # {}
    \/ <<t, supply[t]>> \in notices \/ AnswerAwaited(t)

RefundInv(t) ==
  supply[t] = "Gagal" /\ row[t].ofUser =>
    \/ refunds[t] > 0
    \/ mark[t] \cap {"touched", "late", "unrouted", "errored"} # {}
    \/ AnswerAwaited(t)
    \/ \E j \in Processing(t) : job[j].at = "refunding"

OwedInv(t) == OrderInv(t) /\ ReportInv(t) /\ RefundInv(t)

\* The jobs that still owe something to order t stay where they are, so do
\* the requests that will add one.
DebtsKept(t) ==
  /\ \A j \in Processing(t) : job[j].at \in Early => job'[j] = job[j]
  /\ \A r \in Requests : WillProcess(r, t) => request'[r] = request[r]

LEMMA OwedKeeps ==
  ASSUME TypeOK, NEW t \in Trx, OwedInv(t), MarksKept(t), DebtsKept(t),
         row'[t].paidStatus = row[t].paidStatus,
         row'[t].orderStatus = row[t].orderStatus,
         row'[t].ofUser = row[t].ofUser,
         row[t].paidStatus = "PENDING" /\ invoice'[t] = "saldo"
           => invoice[t] = "saldo",
         supply'[t] = supply[t], refunds'[t] = refunds[t],
         <<t, supply[t]>> \in notices => <<t, supply[t]>> \in notices'
  PROVE  OwedInv(t)'
<1>1. ASSUME NEW j \in Processing(t), job[j].at \in Early
      PROVE  j \in Processing(t)' /\ job'[j] = job[j]
  BY <1>1 DEF DebtsKept, Processing
<1>2. Carried(t) => Carried(t)'
  BY <1>1 DEF Carried, DebtsKept, WillProcess, RequestOf, Early
<1>3. AnswerAwaited(t) => AnswerAwaited(t)'
  BY <1>1 DEF AnswerAwaited, Early
<1>4. (\E j \in Processing(t) : job[j].at = "refunding") =>
        \E j \in Processing(t)' : job'[j].at = "refunding"
  BY <1>1 DEF Early
<1>5. OrderInv(t)'
  BY <1>2 DEF OwedInv, OrderInv, MarksKept, Untouched
<1>6. ReportInv(t)'
  BY <1>3 DEF OwedInv, ReportInv, MarksKept
<1>7. RefundInv(t)'
  BY <1>3, <1>4 DEF OwedInv, RefundInv, MarksKept
<1> QED
  BY <1>5, <1>6, <1>7 DEF OwedInv

\* Before the supplier was asked, only the first part says anything.
LEMMA NothingOwedYet ==
  ASSUME NEW t \in Trx, Inv(t), row[t].paidStatus # "PAID", MarksKept(t),
         supply' = supply, OrderInv(t)'
  PROVE  OwedInv(t)'
<1>1. Untouched(t) => supply[t] = "none"
  BY DEF Inv, MoneyInv
<1>2. "touched" \in mark'[t] \/ supply'[t] = "none"
  BY <1>1 DEF Untouched, MarksKept
<1> QED
  BY <1>2 DEF OwedInv, ReportInv, RefundInv

LEMMA TouchedOwes ==
  ASSUME NEW t \in Trx, "touched" \in mark'[t]
  PROVE  OwedInv(t)'
BY DEF OwedInv, OrderInv, ReportInv, RefundInv, Untouched

-----------------------------------------------------------------------------

\* Requests that write nothing, or only the payment.
LEMMA QuietRequestsOwe ==
  ASSUME TypeOK, NEW e \in Trx, Inv(e), OwedInv(e), NEW r \in Requests,
         \/ \E t \in Trx, ofUser \in BOOLEAN, method \in {"open", "saldo"} :
              CreatePayment(r, t, ofUser, method)
         \/ \E t \in Trx : CancelFind(r, t) \/ UpdateStatusFind(r, t)
         \/ CreateRollback(r)
         \/ CancelPayment(r)
  PROVE  OwedInv(e)'
<1>1. /\ row' = row /\ supply' = supply /\ notices' = notices /\ job' = job
      /\ refunds' = refunds /\ mark' = mark
  BY DEF CreatePayment, CancelFind, UpdateStatusFind, CreateRollback,
         CancelPayment
<1>2. \A q \in Requests : WillProcess(q, e) => request'[q] = request[q]
  BY DEF CreatePayment, CancelFind, UpdateStatusFind, CreateRollback,
         CancelPayment, Goto, WillProcess, RequestOf, TypeOK
<1>3. row[e].paidStatus = "PENDING" /\ invoice'[e] = "saldo"
        => invoice[e] = "saldo"
  <2>1. row[e].paidStatus = "PENDING" => invoice[e] # "none"
    BY DEF Inv, RowInv
  <2> QED
    BY <2>1 DEF CreatePayment, CancelFind, UpdateStatusFind, CreateRollback,
                CancelPayment, TypeOK
<1> QED
  BY <1>1, <1>2, <1>3, OwedKeeps DEF DebtsKept, MarksKept

LEMMA CreateCommitOwes ==
  ASSUME TypeOK, NEW e \in Trx, Inv(e), OwedInv(e), NEW r \in Requests,
         CreateCommit(r)
  PROVE  OwedInv(e)'
<1> DEFINE t == request[r].trx
           paid == IF invoice[t] = "saldo" THEN "PAID" ELSE "PENDING"
           names == IF invoice[t] = "saldo" THEN {"transaction"} ELSE {}
<1>1. t \in Trx /\ request[r].at = "creating"
  BY RequestType DEF CreateCommit
<1>2. ToEnqueue(r, t, names) /\ names \in SUBSET JobNames
  BY DEF CreateCommit, JobNames
<1>3. /\ names # {} =>
           request'[r] = [at |-> "enqueueing", trx |-> t, names |-> names]
      /\ \A q \in Requests \ {r} : request'[q] = request[q]
  BY <1>1, <1>2, ToEnqueueTypes
<1>4. /\ row' = [row EXCEPT ![t] = NewRow(request[r].ofUser, paid)]
      /\ invoice' = invoice /\ supply' = supply /\ refunds' = refunds
      /\ notices' = notices /\ job' = job /\ mark' = mark
  BY DEF CreateCommit
<1>5. CASE e # t
  <2>1. DebtsKept(e)
    BY <1>1, <1>3, <1>4 DEF DebtsKept, WillProcess, RequestOf
  <2>2. row'[e] = row[e]
    BY <1>4, <1>5 DEF TypeOK
  <2> QED
    BY <1>4, <2>1, <2>2, OwedKeeps DEF MarksKept
<1>6. CASE e = t
  <2>1. row[e].paidStatus = "NONE"
    BY <1>1, <1>6 DEF Inv, RowInv, RequestOf
  <2>2. row'[e].paidStatus = paid
    BY <1>1, <1>4, <1>6 DEF TypeOK, NewRow
  <2>3. paid = "PAID" => WillProcess(r, e)'
    BY <1>3, <1>6 DEF WillProcess, RequestOf
  <2>4. OrderInv(e)'
    BY <1>4, <1>6, <2>2, <2>3 DEF OrderInv, Carried
  <2> QED
    BY <1>4, <2>1, <2>4, NothingOwedYet DEF MarksKept
<1> QED
  BY <1>5, <1>6

LEMMA TransactionCallbackOwes ==
  ASSUME TypeOK, NEW e \in Trx, Inv(e), OwedInv(e), NEW r \in Requests,
         NEW t \in Trx, TransactionCallback(r, t)
  PROVE  OwedInv(e)'
<1> DEFINE new == IF invoice[t] = "paid" THEN "PAID" ELSE "CANCELED"
<1>1. ToEnqueue(r, t, {"transaction"})
  BY DEF TransactionCallback
<1>2. /\ request'[r] = [at |-> "enqueueing", trx |-> t, names |-> {"transaction"}]
      /\ \A q \in Requests \ {r} : request'[q] = request[q]
  BY <1>1, ToEnqueueTypes DEF JobNames
<1>3. /\ row' = [row EXCEPT ![t].paidStatus = new]
      /\ invoice' = invoice /\ supply' = supply /\ refunds' = refunds
      /\ notices' = notices /\ job' = job /\ mark' = mark
      /\ request[r].at = "idle"
  BY DEF TransactionCallback
<1>4. CASE e # t
  <2>1. DebtsKept(e)
    BY <1>2, <1>3 DEF DebtsKept, WillProcess, RequestOf
  <2>2. row'[e] = row[e]
    BY <1>3, <1>4 DEF TypeOK
  <2> QED
    BY <1>3, <2>1, <2>2, OwedKeeps DEF MarksKept
<1>5. CASE e = t
  <2>1. row[e].paidStatus = "PENDING"
    BY <1>5 DEF TransactionCallback
  <2>2. row'[e].paidStatus = new
    BY <1>3, <1>5 DEF TypeOK, Row
  <2>3. WillProcess(r, e)'
    BY <1>2, <1>5 DEF WillProcess, RequestOf
  <2>4. OrderInv(e)'
    BY <2>2, <2>3 DEF OrderInv, Carried
  <2> QED
    BY <1>3, <2>1, <2>4, NothingOwedYet DEF MarksKept
<1> QED
  BY <1>4, <1>5

LEMMA AddJobOwes ==
  ASSUME TypeOK, NEW e \in Trx, OwedInv(e), NEW r \in Requests, AddJob(r)
  PROVE  OwedInv(e)'
<1> DEFINE t == request[r].trx
           name == IF "transaction" \in request[r].names THEN "transaction"
                   ELSE "refund"
           names == request[r].names \ {name}
<1>1. /\ request[r].at = "enqueueing" /\ t \in Trx
      /\ request[r].names \in (SUBSET JobNames) \ {{}} /\ names \in SUBSET JobNames
  BY RequestType DEF AddJob
<1>2. \A q \in Requests \ {r} : request'[q] = request[q]
  BY DEF AddJob, ToEnqueue, Goto, TypeOK
<1>3. PICK j \in Jobs :
        /\ job[j].at = "none"
        /\ job' = [job EXCEPT ![j] = [at |-> "waiting", name |-> name, trx |-> t,
                                      stalls |-> 0, answer |-> "none"]]
  BY DEF AddJob
<1>4. /\ job'[j].at = "waiting" /\ job'[j].trx = t /\ job'[j].name = name
      /\ \A i \in Jobs \ {j} : job'[i] = job[i]
  BY <1>3 DEF TypeOK
<1>5. /\ row' = row /\ invoice' = invoice /\ supply' = supply
      /\ refunds' = refunds /\ notices' = notices /\ mark' = mark
  BY DEF AddJob
<1>6. ASSUME NEW i \in Processing(e)
      PROVE  i \in Processing(e)' /\ job'[i] = job[i]
  BY <1>3, <1>4 DEF Processing
<1>7. WillProcess(r, e) => j \in Processing(e)'
  BY <1>4 DEF WillProcess, RequestOf, Processing
<1>8. Carried(e) => Carried(e)'
  BY <1>2, <1>4, <1>6, <1>7 DEF Carried, WillProcess, RequestOf
<1>9. AnswerAwaited(e) => AnswerAwaited(e)'
  BY <1>5, <1>6 DEF AnswerAwaited
<1>10. (\E i \in Processing(e) : job[i].at = "refunding") =>
         \E i \in Processing(e)' : job'[i].at = "refunding"
  BY <1>6
<1> QED
  BY <1>5, <1>8, <1>9, <1>10
     DEF OwedInv, OrderInv, ReportInv, RefundInv, Untouched

\* An order whose job cannot be added is marked as lost.
LEMMA QueueAddFailsOwes ==
  ASSUME TypeOK, NEW e \in Trx, Inv(e), OwedInv(e), NEW r \in Requests,
         QueueAddFails(r)
  PROVE  OwedInv(e)'
<1>1. /\ request[r].at = "enqueueing" /\ request[r].trx \in Trx
      /\ \A q \in Requests \ {r} : request'[q] = request[q]
      /\ UNCHANGED <<row, invoice, supply, notices, job, refunds>>
  BY RequestType DEF QueueAddFails, Goto, TypeOK
<1>2. MarksKept(e)
  BY <1>1 DEF QueueAddFails, MarksKept, TypeOK
<1>3. CASE request[r].trx # e
  <2>1. DebtsKept(e)
    BY <1>1, <1>3 DEF DebtsKept, WillProcess, RequestOf
  <2> QED
    BY <1>1, <1>2, <2>1, OwedKeeps
<1>4. CASE request[r].trx = e
  <2>1. "lost" \in mark'[e]
    BY <1>1, <1>4 DEF QueueAddFails, TypeOK
  <2>2. OrderInv(e)'
    BY <1>1, <1>2, <2>1 DEF OwedInv, OrderInv, MarksKept, Untouched
  <2>3. AnswerAwaited(e) => AnswerAwaited(e)'
    BY <1>1 DEF AnswerAwaited, Processing
  <2>4. ReportInv(e)'
    BY <1>1, <1>2, <2>3 DEF OwedInv, ReportInv, MarksKept
  <2>5. RefundInv(e)'
    BY <1>1, <1>2, <2>3 DEF OwedInv, RefundInv, MarksKept, Processing
  <2> QED
    BY <2>2, <2>4, <2>5 DEF OwedInv
<1> QED
  BY <1>3, <1>4

LEMMA CancelWriteOwes ==
  ASSUME TypeOK, NEW e \in Trx, Inv(e), OwedInv(e), NEW r \in Requests,
         CancelWrite(r)
  PROVE  OwedInv(e)'
<1> DEFINE t == request[r].trx
           new == Updated(row[t], [orderStatus |-> "CANCELED",
                                   paidStatus |-> "CANCELED"])
<1>1. t \in Trx /\ request[r].at = "canceled"
  BY RequestType DEF CancelWrite
<1>2. /\ invoice' = invoice /\ supply' = supply /\ refunds' = refunds
      /\ notices' = notices /\ job' = job /\ mark' = mark
      /\ row' = [row EXCEPT ![t] = new]
  BY DEF CancelWrite
<1>3. \A q \in Requests \ {r} : request'[q] = request[q]
  BY DEF CancelWrite, Goto, TypeOK
<1>4. CASE e # t
  <2>1. DebtsKept(e)
    BY <1>1, <1>2, <1>3 DEF DebtsKept, WillProcess, RequestOf
  <2>2. row'[e] = row[e]
    BY <1>2, <1>4 DEF TypeOK
  <2> QED
    BY <1>2, <2>1, <2>2, OwedKeeps DEF MarksKept
<1>5. CASE e = t
  <2>1. invoice[e] = "canceled"
    BY <1>1, <1>5 DEF Inv, RowInv, RequestOf
  <2>2. CASE row[e].paidStatus = "PAID"
    <3>1. "touched" \in mark'[e]
      BY <1>2, <2>1, <2>2 DEF Inv, MoneyInv, Untouched
    <3> QED
      BY <3>1, TouchedOwes
  <2>3. CASE row[e].paidStatus # "PAID"
    <3>1. row'[e] = new
      BY <1>1, <1>2, <1>5 DEF TypeOK
    <3>2. row'[e].paidStatus = "CANCELED"
      BY <1>1, <1>5, <3>1, CanceledRow DEF TypeOK
    <3>3. OrderInv(e)'
      BY <3>2 DEF OrderInv
    <3> QED
      BY <1>2, <2>3, <3>3, NothingOwedYet DEF MarksKept
  <2> QED
    BY <2>2, <2>3
<1> QED
  BY <1>4, <1>5

LEMMA UpdateStatusWriteOwes ==
  ASSUME TypeOK, NEW e \in Trx, OwedInv(e), NEW r \in Requests,
         NEW data \in AdminChanges, UpdateStatusWrite(r, data)
  PROVE  OwedInv(e)'
<1> DEFINE t == request[r].trx
<1>1. t \in Trx /\ request[r].at = "updating"
  BY RequestType DEF UpdateStatusWrite
<1>2. CASE e = t
  <2>1. "touched" \in mark'[e]
    BY <1>1, <1>2 DEF UpdateStatusWrite, TypeOK
  <2> QED
    BY <2>1, TouchedOwes
<1>3. CASE e # t
  <2>1. /\ row'[e] = row[e] /\ mark'[e] = mark[e]
        /\ invoice' = invoice /\ supply' = supply /\ refunds' = refunds
        /\ notices' = notices /\ job' = job
    BY <1>3 DEF UpdateStatusWrite, TypeOK
  <2>2. \A q \in Requests \ {r} : request'[q] = request[q]
    BY DEF UpdateStatusWrite, ToEnqueue, Goto, TypeOK
  <2>3. DebtsKept(e)
    BY <1>1, <2>1, <2>2 DEF DebtsKept, WillProcess, RequestOf
  <2> QED
    BY <2>1, <2>3, OwedKeeps DEF MarksKept
<1> QED
  BY <1>2, <1>3

LEMMA HandleExpiredOwes ==
  ASSUME TypeOK, NEW e \in Trx, Inv(e), OwedInv(e), HandleExpiredTransaction
  PROVE  OwedInv(e)'
<1> DEFINE expired == e \in overdue /\ row[e].paidStatus = "PENDING"
<1>1. /\ invoice' = invoice /\ supply' = supply /\ refunds' = refunds
      /\ notices' = notices /\ job' = job /\ mark' = mark /\ request' = request
  BY DEF HandleExpiredTransaction
<1>2. CASE ~expired
  <2>1. row'[e] = row[e]
    BY <1>2 DEF HandleExpiredTransaction
  <2> QED
    BY <1>1, <2>1, OwedKeeps DEF MarksKept, DebtsKept
<1>3. CASE expired
  <2>1. row'[e] = [row[e] EXCEPT !.paidStatus = "EXPIRED"]
    BY <1>3 DEF HandleExpiredTransaction
  <2>2. row'[e].paidStatus = "EXPIRED"
    BY <2>1 DEF TypeOK, Row
  <2>3. OrderInv(e)'
    BY <2>2 DEF OrderInv
  <2> QED
    BY <1>1, <1>3, <2>3, NothingOwedYet DEF MarksKept
<1> QED
  BY <1>2, <1>3

-----------------------------------------------------------------------------

LEMMA JobKeepsName ==
  ASSUME TypeOK, NEW j \in Jobs, job[j].at # "none", NEW at, NEW answer,
         \/ job' = [job EXCEPT ![j].at = at]
         \/ job' = [job EXCEPT ![j].at = at, ![j].answer = answer]
  PROVE  job'[j].name = job[j].name
<1>1. PICK a \in Added, n \in JobNames, t \in Trx, s \in 0..MaxStalled,
           w \in SupplierStatus \cup {"none"} :
        job[j] = [at |-> a, name |-> n, trx |-> t, stalls |-> s, answer |-> w]
  BY JobType
<1> QED
  BY <1>1 DEF TypeOK

\* One job moves, the others and the requests stay: what is owed to an order
\* that is not its own stays as it is.
LEMMA OthersOwed ==
  ASSUME TypeOK, NEW e \in Trx, OwedInv(e), MarksKept(e), NEW j \in Jobs,
         job[j].trx # e \/ job[j].name # "transaction" \/ job[j].at \notin Early,
         \A i \in Jobs \ {j} : job'[i] = job[i],
         row'[e].paidStatus = row[e].paidStatus,
         row'[e].orderStatus = row[e].orderStatus,
         row'[e].ofUser = row[e].ofUser,
         supply'[e] = supply[e], refunds'[e] = refunds[e],
         notices' = notices, invoice' = invoice, request' = request
  PROVE  OwedInv(e)'
<1>1. DebtsKept(e)
  BY DEF DebtsKept, Processing
<1> QED
  BY <1>1, OwedKeeps

LEMMA FindPaidOwes ==
  ASSUME TypeOK, NEW e \in Trx, OwedInv(e), NEW j \in Jobs,
         NEW routed \in BOOLEAN, FindPaid(j, routed)
  PROVE  OwedInv(e)'
<1> DEFINE t == job[j].trx
           paid == row[t].paidStatus = "PAID"
<1>1. /\ t \in Trx /\ job[j].at = "waiting" /\ job[j].name = "transaction"
      /\ job[j].answer \in SupplierStatus \cup {"none"}
  BY JobType DEF FindPaid
<1>2. /\ row' = row /\ invoice' = invoice /\ supply' = supply
      /\ refunds' = refunds /\ notices' = notices /\ request' = request
  BY DEF FindPaid
<1>3. MarksKept(e)
  BY <1>1 DEF FindPaid, MarksKept, TypeOK
<1>4. PICK at \in {"found", "done"} :
        /\ job' = [job EXCEPT ![j].at = at]
        /\ paid /\ routed => at = "found"
  BY DEF FindPaid, Move
<1>5. /\ job'[j].at = at /\ job'[j].trx = t
      /\ \A i \in Jobs \ {j} : job'[i] = job[i]
  BY <1>1, <1>4, JobMoves DEF Added
<1>6. job'[j].name = "transaction"
  BY <1>1, <1>4, JobKeepsName
<1>7. CASE e # t
  BY <1>2, <1>3, <1>5, <1>7, OthersOwed
<1>8. CASE e = t /\ paid /\ ~routed
  <2>1. "unrouted" \in mark'[e]
    BY <1>1, <1>8 DEF FindPaid, TypeOK
  <2> QED
    BY <1>2, <1>3, <2>1
       DEF OwedInv, OrderInv, ReportInv, RefundInv, MarksKept, Untouched
<1>9. CASE e = t /\ (paid => routed)
  <2>1. j \in Processing(e)'
    BY <1>5, <1>6, <1>9 DEF Processing
  <2>2. ASSUME NEW i \in Processing(e), i # j
        PROVE  i \in Processing(e)' /\ job'[i] = job[i]
    BY <1>5, <2>2 DEF Processing
  <2>3. row[e].paidStatus = "PAID" => Carried(e)'
    BY <1>4, <1>5, <1>9, <2>1 DEF Carried
  <2>4. AnswerAwaited(e) => AnswerAwaited(e)'
    BY <1>1, <1>2, <1>4, <1>5, <1>9, <2>1, <2>2 DEF AnswerAwaited
  <2>5. (\E i \in Processing(e) : job[i].at = "refunding") =>
          \E i \in Processing(e)' : job'[i].at = "refunding"
    BY <1>1, <2>2
  <2>6. OrderInv(e)'
    BY <1>2, <1>3, <2>3 DEF OwedInv, OrderInv, MarksKept, Untouched
  <2>7. ReportInv(e)' /\ RefundInv(e)'
    BY <1>2, <1>3, <2>4, <2>5 DEF OwedInv, ReportInv, RefundInv, MarksKept
  <2> QED
    BY <2>6, <2>7 DEF OwedInv
<1> QED
  BY <1>7, <1>8, <1>9

LEMMA FindToRefundOwes ==
  ASSUME TypeOK, NEW e \in Trx, OwedInv(e), NEW j \in Jobs, FindToRefund(j)
  PROVE  OwedInv(e)'
<1>1. job[j].name # "transaction" /\ \A i \in Jobs \ {j} : job'[i] = job[i]
  BY DEF FindToRefund, Move, TypeOK
<1> QED
  BY <1>1, OthersOwed DEF FindToRefund, MarksKept

\* Only a job named 'transaction' asks the supplier.
NamesInv ==
  \A j \in Jobs :
    job[j].at \in {"found", "ordered"} => job[j].name = "transaction"

LEMMA NextKeepsNames ==
  ASSUME TypeOK, NamesInv, [Next]_vars
  PROVE  NamesInv'
<1>1. ASSUME NEW r \in Requests, RequestStarts(r) \/ RequestGoesOn(r)
      PROVE  NamesInv'
  <2>1. CASE AddJob(r)
    <3>1. \A j \in Jobs : job'[j] = job[j] \/ job'[j].at = "waiting"
      BY <2>1 DEF AddJob, TypeOK
    <3> QED
      BY <3>1 DEF NamesInv
  <2>2. CASE ~AddJob(r)
    <3>1. job' = job
      BY <1>1, <2>2
         DEF RequestStarts, RequestGoesOn, CreatePayment, TransactionCallback,
             CancelFind, UpdateStatusFind, CreateCommit, CreateRollback,
             QueueAddFails, CancelPayment, CancelWrite, UpdateStatusWrite
    <3> QED
      BY <3>1 DEF NamesInv
  <2> QED
    BY <2>1, <2>2
<1>2. ASSUME NEW j \in Jobs, JobGoesOn(j)
      PROVE  NamesInv'
  <2>1. /\ job[j].at # "none"
        /\ \A i \in Jobs \ {j} : job'[i] = job[i]
    BY <1>2 DEF JobGoesOn, FindPaid, FindToRefund, OrderAtSupplier,
                WriteOrderStatus, Refund, RecordRefund, Restock, JobError, Move,
                Running, TypeOK
  <2>2. CASE FindPaid(j, TRUE) \/ FindPaid(j, FALSE)
    <3>1. job[j].name = "transaction" /\ \E at : job' = [job EXCEPT ![j].at = at]
      BY <2>2 DEF FindPaid, Move
    <3>2. job'[j].name = "transaction"
      BY <2>1, <3>1, JobKeepsName
    <3> QED
      BY <2>1, <3>2 DEF NamesInv
  <2>3. ASSUME NEW answer \in SupplierStatus, OrderAtSupplier(j, answer)
        PROVE  NamesInv'
    <3>1. job[j].at = "found"
          /\ job' = [job EXCEPT ![j].at = "ordered", ![j].answer = answer]
      BY <2>3 DEF OrderAtSupplier
    <3>2. job'[j].name = job[j].name
      BY <2>1, <3>1, JobKeepsName
    <3> QED
      BY <2>1, <3>1, <3>2 DEF NamesInv
  <2>4. ASSUME FindToRefund(j) \/ Refund(j) \/ RecordRefund(j) \/ Restock(j)
        PROVE  NamesInv'
    <3>1. PICK at \in {"refunding", "refunded", "restocking", "done"} :
            job' = [job EXCEPT ![j].at = at]
      BY <2>4 DEF FindToRefund, Refund, RecordRefund, Restock, Move
    <3>2. job[j].answer \in SupplierStatus \cup {"none"}
      BY <2>1, JobType
    <3>3. job'[j].at = at
      BY <2>1, <3>1, <3>2, JobMoves DEF Added
    <3> QED
      BY <2>1, <3>3 DEF NamesInv
  <2>5. ASSUME WriteOrderStatus(j) \/ JobError(j)
        PROVE  NamesInv'
    <3>1. PICK at \in {"refunding", "done"} :
            job' = [job EXCEPT ![j].at = at, ![j].answer = "none"]
      BY <2>5 DEF WriteOrderStatus, JobError
    <3>2. job'[j].at = at
      BY <2>1, <3>1, JobMoves DEF Added
    <3> QED
      BY <2>1, <3>2 DEF NamesInv
  <2> QED
    BY <1>2, <2>2, <2>3, <2>4, <2>5 DEF JobGoesOn
<1>3. CASE Crash
  <2>1. \A j \in Jobs : job'[j].at \notin {"found", "ordered"}
    BY <1>3, CrashedJobs
  <2> QED
    BY <2>1 DEF NamesInv
<1>4. CASE HandleExpiredTransaction \/ (Environment /\ ~Crash) \/ UNCHANGED vars
  <2>1. job' = job
    BY <1>4 DEF HandleExpiredTransaction, Environment, SettleInvoice,
                PassDeadline, SupplierSettles, SupplierNotifies,
                DigiflazzCallback, vars
  <2> QED
    BY <2>1 DEF NamesInv
<1> QED
  BY <1>1, <1>2, <1>3, <1>4 DEF Next, Environment

LEMMA OrderAtSupplierOwes ==
  ASSUME TypeOK, NamesInv, NEW e \in Trx, OwedInv(e), NEW j \in Jobs,
         NEW answer \in SupplierStatus, OrderAtSupplier(j, answer)
  PROVE  OwedInv(e)'
<1> DEFINE t == job[j].trx
<1>1. t \in Trx /\ job[j].at = "found" /\ job[j].name = "transaction"
  BY JobType DEF OrderAtSupplier, NamesInv
<1>2. /\ row' = row /\ invoice' = invoice /\ mark' = mark
      /\ refunds' = refunds /\ notices' = notices /\ request' = request
      /\ supply' = [supply EXCEPT ![t] = answer]
      /\ job' = [job EXCEPT ![j].at = "ordered", ![j].answer = answer]
  BY DEF OrderAtSupplier
<1>3. /\ job'[j].at = "ordered" /\ job'[j].trx = t /\ job'[j].answer = answer
      /\ \A i \in Jobs \ {j} : job'[i] = job[i]
  BY <1>1, <1>2, JobMoves DEF Added
<1>4. job'[j].name = "transaction"
  BY <1>1, <1>2, JobKeepsName
<1>5. CASE e # t
  BY <1>2, <1>3, <1>5, OthersOwed DEF MarksKept, TypeOK
<1>6. CASE e = t
  <2>1. supply'[e] = answer /\ answer # "none"
    BY <1>2, <1>6 DEF TypeOK, SupplierStatus
  <2>2. OrderInv(e)'
    BY <1>2, <2>1 DEF OwedInv, OrderInv, Untouched
  <2>3. AnswerAwaited(e)'
    BY <1>3, <1>4, <1>6, <2>1 DEF AnswerAwaited, Processing
  <2> QED
    BY <2>2, <2>3 DEF OwedInv, ReportInv, RefundInv
<1> QED
  BY <1>5, <1>6

LEMMA WriteOrderStatusOwes ==
  ASSUME TypeOK, NEW e \in Trx, Inv(e), OwedInv(e), NEW j \in Jobs,
         WriteOrderStatus(j)
  PROVE  OwedInv(e)'
<1> DEFINE t == job[j].trx
           answer == job[j].answer
           status == OrderStatusOf(answer)
           refund == Refunds(status, row[t])
<1>1. /\ t \in Trx /\ job[j].at = "ordered"
      /\ row'[t].ofUser = row[t].ofUser
      /\ row'[t].paidStatus = row[t].paidStatus
      /\ row'[t].orderStatus = status
      /\ \A i \in Trx \ {t} : row'[i] = row[i]
  BY OrderWritten DEF WriteOrderStatus
<1>2. /\ supply' = supply /\ invoice' = invoice
      /\ refunds' = refunds /\ notices' = notices /\ request' = request
  BY DEF WriteOrderStatus
<1>3. MarksKept(e)
  BY <1>1 DEF WriteOrderStatus, MarksKept, TypeOK
<1>4. PICK at \in {"refunding", "done"} :
        /\ job' = [job EXCEPT ![j].at = at, ![j].answer = "none"]
        /\ refund => at = "refunding"
  BY DEF WriteOrderStatus
<1>5. /\ job'[j].at = at /\ job'[j].trx = t
      /\ \A i \in Jobs \ {j} : job'[i] = job[i]
  BY <1>1, <1>4, JobMoves DEF Added
<1>6. job'[j].name = job[j].name
  BY <1>1, <1>4, JobKeepsName
<1>7. CASE e # t
  BY <1>1, <1>2, <1>3, <1>5, <1>7, OthersOwed
<1>8. CASE e = t
  <2>1. ASSUME NEW i \in Processing(e), i # j
        PROVE  i \in Processing(e)' /\ job'[i] = job[i]
    BY <1>5, <2>1 DEF Processing
  <2>2. Carried(e) => Carried(e)'
    BY <1>1, <1>2, <2>1 DEF Carried, WillProcess, RequestOf
  <2>3. OrderInv(e)'
    BY <1>1, <1>2, <1>3, <1>8, <2>2 DEF OwedInv, OrderInv, MarksKept, Untouched
  <2>4. AnswerAwaited(e) =>
          AnswerAwaited(e)' \/ (j \in Processing(e) /\ answer = supply[e])
    <3> SUFFICES ASSUME NEW i \in Processing(e),
                        \/ row[e].paidStatus = "PAID"
                             /\ job[i].at \in {"waiting", "found"}
                        \/ job[i].at = "ordered" /\ job[i].answer = supply[e]
                 PROVE  AnswerAwaited(e)' \/ (j \in Processing(e) /\ answer = supply[e])
      BY DEF AnswerAwaited
    <3>1. CASE i = j
      BY <1>1, <3>1
    <3>2. CASE i # j
      <4>1. i \in Processing(e)' /\ job'[i] = job[i]
        BY <2>1, <3>2
      <4>2. row'[e].paidStatus = row[e].paidStatus /\ supply'[e] = supply[e]
        BY <1>1, <1>2, <1>8
      <4> QED
        BY <4>1, <4>2 DEF AnswerAwaited
    <3> QED
      BY <3>1, <3>2
  <2>5. ReportInv(e)'
    <3>1. CASE answer = supply[e]
      BY <1>1, <1>2, <1>8, <3>1 DEF ReportInv
    <3>2. CASE answer # supply[e] /\ row[e].orderStatus = OrderStatusOf(supply[e])
      <4>1. SUFFICES ASSUME supply[e] \in {"Sukses", "Gagal"}
                     PROVE  "regressed" \in mark'[e]
        BY <1>2 DEF ReportInv
      <4>2. answer = "Pending"
        BY <1>1, <1>8, <3>2 DEF Inv, AnswerInv, JobOf, SupplierStatus
      <4>3. row[e].orderStatus # status
        BY <3>2, <4>1, <4>2 DEF OrderStatusOf
      <4>4. "regressed" \in MarksOf(t, status)
        BY <1>8, <3>2, <4>1, <4>3 DEF MarksOf
      <4> QED
        BY <1>1, <1>8, <4>4 DEF WriteOrderStatus, TypeOK
    <3>3. CASE answer # supply[e] /\ row[e].orderStatus # OrderStatusOf(supply[e])
      BY <1>2, <1>3, <2>4, <3>3 DEF OwedInv, ReportInv, MarksKept
    <3> QED
      BY <3>1, <3>2, <3>3
  <2>6. RefundInv(e)'
    <3>1. ASSUME supply[e] = "Gagal", row[e].ofUser, j \in Processing(e),
                 answer = supply[e]
          PROVE  j \in Processing(e)' /\ job'[j].at = "refunding"
      <4>1. status = "FAILED"
        BY <3>1 DEF OrderStatusOf
      <4>2. refund
        BY <1>8, <3>1, <4>1 DEF Refunds
      <4> QED
        BY <1>4, <1>5, <1>6, <1>8, <3>1, <4>2 DEF Processing
    <3>2. (\E i \in Processing(e) : job[i].at = "refunding") =>
            \E i \in Processing(e)' : job'[i].at = "refunding"
      BY <1>1, <2>1
    <3> QED
      BY <1>1, <1>2, <1>3, <1>8, <2>4, <3>1, <3>2
         DEF OwedInv, RefundInv, MarksKept
  <2> QED
    BY <2>3, <2>5, <2>6 DEF OwedInv
<1> QED
  BY <1>7, <1>8

LEMMA RefundOwes ==
  ASSUME TypeOK, NEW e \in Trx, OwedInv(e), NEW j \in Jobs, Refund(j)
  PROVE  OwedInv(e)'
<1> DEFINE t == job[j].trx
<1>1. /\ t \in Trx /\ job[j].at = "refunding"
      /\ \A i \in Jobs \ {j} : job'[i] = job[i]
  BY JobType DEF Refund, Move, TypeOK
<1>2. /\ row' = row /\ invoice' = invoice /\ supply' = supply /\ mark' = mark
      /\ notices' = notices /\ request' = request
      /\ refunds' = [refunds EXCEPT ![t] = refunds[t] + 1]
  BY DEF Refund
<1>3. CASE e # t
  BY <1>1, <1>2, <1>3, OthersOwed DEF MarksKept, TypeOK
<1>4. CASE e = t
  <2>1. ASSUME NEW i \in Processing(e), i # j
        PROVE  i \in Processing(e)' /\ job'[i] = job[i]
    BY <1>1, <2>1 DEF Processing
  <2>2. Carried(e) => Carried(e)'
    BY <1>1, <1>2, <2>1 DEF Carried, WillProcess, RequestOf
  <2>3. AnswerAwaited(e) => AnswerAwaited(e)'
    BY <1>1, <1>2, <2>1 DEF AnswerAwaited
  <2>4. refunds'[e] > 0
    BY <1>1, <1>2, <1>4 DEF TypeOK
  <2> QED
    BY <1>2, <2>2, <2>3, <2>4
       DEF OwedInv, OrderInv, ReportInv, RefundInv, Untouched
<1> QED
  BY <1>3, <1>4

LEMMA RefundedJobsOwe ==
  ASSUME TypeOK, NEW e \in Trx, OwedInv(e), NEW j \in Jobs,
         RecordRefund(j) \/ Restock(j)
  PROVE  OwedInv(e)'
<1>1. /\ job[j].trx \in Trx /\ job[j].at \in {"refunded", "restocking"}
      /\ \A i \in Jobs \ {j} : job'[i] = job[i]
  BY JobType DEF RecordRefund, Restock, Move, TypeOK
<1>2. /\ row'[e].paidStatus = row[e].paidStatus
      /\ row'[e].orderStatus = row[e].orderStatus
      /\ row'[e].ofUser = row[e].ofUser
  <2>1. row[e] \in Row
    BY DEF TypeOK
  <2>2. CASE RecordRefund(j)
    <3>1. row' = [row EXCEPT ![job[j].trx].refundStatus = "SUCCESS"]
      BY <2>2 DEF RecordRefund
    <3> QED
      BY <1>1, <2>1, <3>1 DEF TypeOK, Row
  <2>3. CASE Restock(j)
    BY <2>3 DEF Restock
  <2> QED
    BY <2>2, <2>3
<1> QED
  BY <1>1, <1>2, OthersOwed DEF RecordRefund, Restock, MarksKept, Early

LEMMA JobErrorOwes ==
  ASSUME TypeOK, NEW e \in Trx, OwedInv(e), NEW j \in Jobs, JobError(j)
  PROVE  OwedInv(e)'
<1>1. job[j].trx \in Trx
  BY JobType DEF JobError, Running
<1>2. CASE e = job[j].trx
  <2>1. "errored" \in mark'[e]
    BY <1>2 DEF JobError, TypeOK
  <2>2. mark[e] \subseteq mark'[e] /\ row' = row /\ invoice' = invoice
    BY <1>2 DEF JobError, TypeOK
  <2> QED
    BY <2>1, <2>2 DEF OwedInv, OrderInv, ReportInv, RefundInv, Untouched
<1>3. CASE e # job[j].trx
  <2>1. MarksKept(e) /\ \A i \in Jobs \ {j} : job'[i] = job[i]
    BY <1>1 DEF JobError, MarksKept, TypeOK
  <2> QED
    BY <1>3, <2>1, OthersOwed DEF JobError
<1> QED
  BY <1>2, <1>3

-----------------------------------------------------------------------------

LEMMA SupplierSettlesOwes ==
  ASSUME TypeOK, NEW e \in Trx, OwedInv(e), NEW t \in Trx,
         NEW outcome \in {"Sukses", "Gagal"}, SupplierSettles(t, outcome)
  PROVE  OwedInv(e)'
<1>1. /\ row' = row /\ invoice' = invoice /\ request' = request /\ job' = job
      /\ refunds' = refunds /\ notices' = notices \cup {<<t, outcome>>}
      /\ supply' = [supply EXCEPT ![t] = outcome]
  BY DEF SupplierSettles
<1>2. MarksKept(e)
  BY DEF SupplierSettles, MarksKept, TypeOK
<1>3. CASE e # t
  BY <1>1, <1>2, <1>3, OwedKeeps DEF TypeOK, DebtsKept
<1>4. CASE e = t
  <2>1. supply'[e] = outcome /\ <<e, supply'[e]>> \in notices'
    BY <1>1, <1>4 DEF TypeOK
  <2>2. outcome = "Gagal" => "late" \in mark'[e]
    BY <1>4 DEF SupplierSettles, TypeOK
  <2>3. OrderInv(e)'
    BY <1>1, <1>2, <2>1 DEF OwedInv, OrderInv, MarksKept, Untouched
  <2> QED
    BY <2>1, <2>2, <2>3 DEF OwedInv, ReportInv, RefundInv
<1> QED
  BY <1>3, <1>4

LEMMA DigiflazzCallbackOwes ==
  ASSUME TypeOK, NEW e \in Trx, Inv(e), OwedInv(e), NEW t \in Trx,
         NEW said \in SupplierStatus, DigiflazzCallback(t, said)
  PROVE  OwedInv(e)'
<1> DEFINE status == CallbackStatusOf(said)
<1>1. /\ invoice' = invoice /\ request' = request /\ job' = job
      /\ refunds' = refunds /\ supply' = supply
      /\ mark' = [mark EXCEPT ![t] = @ \cup MarksOf(t, status)]
      /\ notices' = notices \ {<<t, said>>} /\ <<t, said>> \in notices
      /\ row' = [row EXCEPT ![t].orderStatus = status]
  BY DEF DigiflazzCallback
<1>2. MarksKept(e)
  BY <1>1 DEF MarksKept, TypeOK
<1> HIDE DEF status
<1>3. CASE e # t
  BY <1>1, <1>2, <1>3, OwedKeeps DEF TypeOK, DebtsKept
<1>4. CASE e = t
  <2>1. /\ row'[e].paidStatus = row[e].paidStatus
        /\ row'[e].ofUser = row[e].ofUser
        /\ row'[e].orderStatus = status
        /\ mark'[e] = mark[e] \cup MarksOf(e, status)
    BY <1>1, <1>4 DEF TypeOK, Row
  <2>2. OrderInv(e)'
    BY <1>1, <1>2, <2>1 DEF OwedInv, OrderInv, Untouched, Carried, WillProcess,
                            RequestOf, Processing, MarksKept
  <2>3. AnswerAwaited(e) => AnswerAwaited(e)'
    BY <1>1, <2>1 DEF AnswerAwaited, Processing
  <2>4. ASSUME supply[e] \in {"Sukses", "Gagal"}, said = supply[e]
        PROVE  row'[e].orderStatus = OrderStatusOf(supply'[e])
    BY <1>1, <2>1, <2>4 DEF CallbackStatusOf, OrderStatusOf, status
  <2>5. ASSUME supply[e] \in {"Sukses", "Gagal"},
               row[e].orderStatus = OrderStatusOf(supply[e])
        PROVE  \/ row'[e].orderStatus = OrderStatusOf(supply'[e])
               \/ "regressed" \in mark'[e]
    <3>1. row[e].orderStatus # status => "regressed" \in MarksOf(e, status)
      BY <2>5 DEF MarksOf
    <3> QED
      BY <1>1, <2>1, <2>5, <3>1
  <2>6. <<e, supply[e]>> \in notices /\ said # supply[e] => <<e, supply'[e]>> \in notices'
    BY <1>1
  <2>7. ReportInv(e)'
    BY <1>1, <1>2, <2>3, <2>4, <2>5, <2>6 DEF OwedInv, ReportInv, MarksKept
  <2>8. RefundInv(e)'
    BY <1>1, <1>2, <2>1, <2>3 DEF OwedInv, RefundInv, Processing, MarksKept
  <2> QED
    BY <2>2, <2>7, <2>8 DEF OwedInv
<1> QED
  BY <1>3, <1>4

\* A crash puts the jobs that still owe something back to where they start, or
\* leaves its mark.
LEMMA CrashOwes ==
  ASSUME TypeOK, NEW e \in Trx, Inv(e), OwedInv(e), Crash
  PROVE  OwedInv(e)'
<1>1. /\ row' = row /\ invoice' = invoice /\ supply' = supply
      /\ refunds' = refunds /\ notices' = notices
  BY DEF Crash
<1>2. MarksKept(e)
  BY DEF Crash, MarksKept
<1>3. ASSUME NEW j \in Processing(e), job[j].at \in Early
      PROVE  \/ "errored" \in mark'[e]
             \/ j \in Processing(e)' /\ job'[j].at = "waiting"
  <2>1. /\ j \in Jobs /\ job[j].at # "none" /\ job[j].trx = e
        /\ job[j].name = "transaction"
    BY DEF Processing
  <2>2. CASE j \in PutBack
    <3>1. job'[j] = [job[j] EXCEPT !.at = "waiting", !.answer = "none",
                                   !.stalls = job[j].stalls + 1]
      BY <2>1, <2>2 DEF Crash
    <3>2. /\ job'[j].at = "waiting" /\ job'[j].trx = e
          /\ job'[j].name = "transaction"
      BY <2>1, <3>1, JobType
    <3> QED
      BY <2>1, <3>2 DEF Processing
  <2>3. CASE j \in Running \ PutBack
    BY <2>1, <2>3 DEF Crash
  <2>4. CASE j \notin Running
    <3>1. job[j].at = "waiting"
      BY <1>3, <2>1, <2>4 DEF Running, Early
    <3>2. job'[j] = job[j]
      BY <2>1, <2>4 DEF Crash, PutBack
    <3> QED
      BY <2>1, <3>1, <3>2 DEF Processing
  <2> QED
    BY <2>2, <2>3, <2>4
<1>4. ASSUME NEW r \in Requests, WillProcess(r, e)
      PROVE  "lost" \in mark'[e]
  BY <1>4 DEF Crash, WillProcess, RequestOf, Enqueueing
<1>5. OrderInv(e)'
  <2>1. Carried(e) => Carried(e)' \/ mark'[e] \cap {"lost", "errored"} # {}
    BY <1>3, <1>4 DEF Carried, Early
  <2> QED
    BY <1>1, <1>2, <2>1 DEF OwedInv, OrderInv, MarksKept, Untouched
<1>6. supply[e] # "none" => "touched" \in mark'[e] \/ row[e].paidStatus = "PAID"
  BY <1>2 DEF Inv, MoneyInv, MarksKept, Untouched
<1>7. ASSUME supply[e] # "none",
             AnswerAwaited(e) \/ \E j \in Processing(e) : job[j].at = "refunding"
      PROVE  AnswerAwaited(e)' \/ mark'[e] \cap {"touched", "errored"} # {}
  <2>1. \E j \in Processing(e) : job[j].at \in Early
    BY <1>7 DEF AnswerAwaited, Early
  <2> QED
    BY <1>1, <1>3, <1>6, <1>7, <2>1 DEF AnswerAwaited
<1>8. ReportInv(e)' /\ RefundInv(e)'
  BY <1>1, <1>2, <1>7 DEF OwedInv, ReportInv, RefundInv, MarksKept
<1> QED
  BY <1>5, <1>8 DEF OwedInv

LEMMA NextKeepsOwed ==
  ASSUME TypeOK, NamesInv, NEW t \in Trx, Inv(t), OwedInv(t), [Next]_vars
  PROVE  OwedInv(t)'
<1>1. ASSUME NEW r \in Requests, RequestStarts(r)
      PROVE  OwedInv(t)'
  BY <1>1, QuietRequestsOwe, TransactionCallbackOwes DEF RequestStarts
<1>2. ASSUME NEW r \in Requests, RequestGoesOn(r)
      PROVE  OwedInv(t)'
  BY <1>2, CreateCommitOwes, QuietRequestsOwe, AddJobOwes, QueueAddFailsOwes,
     CancelWriteOwes, UpdateStatusWriteOwes DEF RequestGoesOn
<1>3. ASSUME NEW j \in Jobs, JobGoesOn(j)
      PROVE  OwedInv(t)'
  BY <1>3, FindPaidOwes, FindToRefundOwes, OrderAtSupplierOwes,
     WriteOrderStatusOwes, RefundOwes, RefundedJobsOwe, JobErrorOwes DEF JobGoesOn
<1>4. CASE \/ \E e \in Trx, outcome \in {"paid", "canceled"} :
                SettleInvoice(e, outcome)
           \/ \E e \in Trx : PassDeadline(e) \/ SupplierNotifies(e)
           \/ UNCHANGED vars
  <2>1. /\ UNCHANGED <<row, supply, request, job, refunds, mark>>
        /\ notices \subseteq notices'
        /\ invoice'[t] = "saldo" => invoice[t] = "saldo"
    BY <1>4 DEF SettleInvoice, PassDeadline, SupplierNotifies, vars, TypeOK
  <2> QED
    BY <2>1, OwedKeeps DEF MarksKept, DebtsKept
<1>5. CASE Environment
  BY <1>4, <1>5, SupplierSettlesOwes, DigiflazzCallbackOwes, CrashOwes
     DEF Environment
<1> QED
  BY <1>1, <1>2, <1>3, <1>4, <1>5, HandleExpiredOwes DEF Next

\* An order that was paid has somebody who will bring it to the supplier, one
\* the supplier settled somebody who will write that, and one it rejected
\* somebody who will refund it, or the way it was dropped is one that
\* PaidIsOrdered, SettledIsReported and RejectedIsRefunded name.
THEOREM Order_Never_Forgotten == Spec => []NothingForgotten
<1> DEFINE Owed == NamesInv /\ \A t \in Trx : OwedInv(t)
<1>1. Init => Owed
  <2>1. Init => NamesInv
    BY DEF Init, NamesInv
  <2>2. ASSUME Init, NEW t \in Trx
        PROVE  OwedInv(t)
    <3>1. row[t].paidStatus = "NONE" /\ supply[t] = "none"
      BY <2>2 DEF Init, NewRow
    <3> QED
      BY <3>1 DEF OwedInv, OrderInv, ReportInv, RefundInv
  <2> QED
    BY <2>1, <2>2
<1>2. IInv /\ Owed /\ [Next]_vars => Owed'
  BY NextKeepsNames, NextKeepsOwed DEF IInv
<1>3. IInv /\ Owed => NothingForgotten
  <2> SUFFICES ASSUME IInv, Owed, NEW t \in Trx
               PROVE  /\ invoice[t] \in {"paid", "saldo"} =>
                           supply[t] # "none" \/ Forfeited(t) \/ OrderAwaited(t)
                      /\ ReportInv(t) /\ RefundInv(t)
    BY DEF NothingForgotten, ReportInv, RefundInv
  <2>1. ASSUME invoice[t] \in {"paid", "saldo"}, supply[t] = "none", ~Forfeited(t)
        PROVE  OrderAwaited(t)
    <3>1. /\ mark[t] \cap {"touched", "lost", "unrouted", "errored"} = {}
          /\ row[t].paidStatus \notin {"CANCELED", "EXPIRED"}
      BY <2>1 DEF Forfeited
    <3>2. CASE row[t].paidStatus = "NONE"
      BY <2>1, <3>2 DEF Forfeited, OrderAwaited
    <3>3. CASE row[t].paidStatus = "PENDING"
      BY <2>1, <3>1, <3>3 DEF OwedInv, OrderInv, Untouched, OrderAwaited
    <3>4. CASE row[t].paidStatus = "PAID"
      <4>1. Carried(t)
        BY <2>1, <3>1, <3>4 DEF OwedInv, OrderInv
      <4> QED
        BY <3>4, <4>1 DEF Carried, WillProcess, RequestOf, OrderAwaited, Enqueueing
    <3>5. row[t].paidStatus \in PaidStatus \cup {"NONE"}
      BY DEF IInv, TypeOK, Row
    <3> QED
      BY <3>1, <3>2, <3>3, <3>4, <3>5 DEF PaidStatus
  <2> QED
    BY <2>1 DEF OwedInv
<1> HIDE DEF Owed
<1> QED
  BY <1>1, <1>2, <1>3, Invariant, PTL DEF Spec

-----------------------------------------------------------------------------
(* Seen from outside, an order is an order of AtomicOrder.                 *)

\* Nobody has said anything about an order that has no row.
BlankInv(t) ==
  row[t].paidStatus = "NONE" => Untouched(t) /\ row[t].orderStatus = "PENDING"

\* Whose goods were asked for has a row.
LEMMA AskedHasRow ==
  ASSUME NEW t \in Trx, Inv(t), BlankInv(t), supply[t] # "none"
  PROVE  row[t].paidStatus # "NONE"
BY DEF Inv, MoneyInv, BlankInv

LEMMA NextKeepsBlank ==
  ASSUME TypeOK, NEW e \in Trx, Inv(e), BlankInv(e), [Next]_vars
  PROVE  BlankInv(e)'
<1>1. ASSUME row'[e].paidStatus = row[e].paidStatus,
             row'[e].orderStatus = row[e].orderStatus,
             "touched" \in mark'[e] => "touched" \in mark[e]
      PROVE  BlankInv(e)'
  BY <1>1 DEF BlankInv, Untouched
<1>2. ASSUME row'[e].paidStatus # "NONE"
      PROVE  BlankInv(e)'
  BY <1>2 DEF BlankInv
<1>3. ASSUME NEW r \in Requests, CreateCommit(r)
      PROVE  BlankInv(e)'
  <2>1. CASE request[r].trx = e
    BY <1>2, <1>3, <2>1 DEF CreateCommit, NewRow, TypeOK
  <2>2. CASE request[r].trx # e
    BY <1>1, <1>3, <2>2 DEF CreateCommit, TypeOK
  <2> QED
    BY <2>1, <2>2
<1>4. ASSUME NEW r \in Requests, NEW t \in Trx, TransactionCallback(r, t)
      PROVE  BlankInv(e)'
  <2>1. CASE t = e
    <3>1. row[e] \in Row
      BY DEF TypeOK
    <3>2. row' = [row EXCEPT ![e].paidStatus =
                    IF invoice[e] = "paid" THEN "PAID" ELSE "CANCELED"]
      BY <1>4, <2>1 DEF TransactionCallback
    <3>3. row'[e].paidStatus = IF invoice[e] = "paid" THEN "PAID" ELSE "CANCELED"
      BY <3>1, <3>2 DEF TypeOK, Row
    <3> QED
      BY <1>2, <3>3
  <2>2. CASE t # e
    BY <1>1, <1>4, <2>2 DEF TransactionCallback, TypeOK
  <2> QED
    BY <2>1, <2>2
<1>5. ASSUME NEW r \in Requests, CancelWrite(r)
      PROVE  BlankInv(e)'
  <2>1. CASE request[r].trx = e
    BY <1>2, <1>5, <2>1, CanceledRow DEF CancelWrite, TypeOK
  <2>2. CASE request[r].trx # e
    BY <1>1, <1>5, <2>2 DEF CancelWrite, TypeOK
  <2> QED
    BY <2>1, <2>2
<1>6. ASSUME NEW r \in Requests, NEW data \in AdminChanges, UpdateStatusWrite(r, data)
      PROVE  BlankInv(e)'
  <2>1. request[r].at = "updating"
    BY <1>6 DEF UpdateStatusWrite
  <2>2. CASE request[r].trx = e
    <3>1. row[e].paidStatus # "NONE"
      BY <2>1, <2>2 DEF Inv, RowInv, RequestOf
    <3>2. row[e] \in Row /\ row'[e] = Updated(row[e], data)
      BY <1>6, <2>2 DEF UpdateStatusWrite, TypeOK
    <3> QED
      BY <1>2, <3>1, <3>2, AdminAssumption
  <2>3. CASE request[r].trx # e
    <3>1. row'[e] = row[e] /\ mark'[e] = mark[e]
      BY <1>6, <2>3 DEF UpdateStatusWrite, TypeOK
    <3> QED
      BY <1>1, <3>1
  <2> QED
    BY <2>2, <2>3
<1>7. ASSUME NEW j \in Jobs, WriteOrderStatus(j)
      PROVE  BlankInv(e)'
  <2>1. CASE job[j].trx = e
    <3>1. supply[e] # "none"
      BY <1>7, <2>1 DEF WriteOrderStatus, Inv, AnswerInv, JobOf
    <3> QED
      BY <1>2, <1>7, <2>1, <3>1, AskedHasRow, OrderWritten
  <2>2. CASE job[j].trx # e
    <3>1. row'[e] = row[e] /\ mark'[e] = mark[e]
      BY <1>7, <2>2, OrderWritten DEF WriteOrderStatus, TypeOK
    <3> QED
      BY <1>1, <3>1
  <2> QED
    BY <2>1, <2>2
<1>8. ASSUME NEW t \in Trx, NEW said \in SupplierStatus, DigiflazzCallback(t, said)
      PROVE  BlankInv(e)'
  <2>1. CASE t = e
    <3>1. supply[e] # "none"
      BY <1>8, <2>1 DEF DigiflazzCallback, Inv, AnswerInv
    <3>2. row'[e].paidStatus = row[e].paidStatus
      BY <1>8, <2>1 DEF DigiflazzCallback, TypeOK, Row
    <3> QED
      BY <1>2, <3>1, <3>2, AskedHasRow
  <2>2. CASE t # e
    BY <1>1, <1>8, <2>2 DEF DigiflazzCallback, TypeOK
  <2> QED
    BY <2>1, <2>2
<1>9. ASSUME NEW j \in Jobs, RecordRefund(j)
      PROVE  BlankInv(e)'
  <2>1. /\ row'[e].paidStatus = row[e].paidStatus
        /\ row'[e].orderStatus = row[e].orderStatus
        /\ mark' = mark
    BY <1>9, JobType DEF RecordRefund, TypeOK, Row
  <2> QED
    BY <1>1, <2>1
<1>10. CASE HandleExpiredTransaction
  <2>1. row[e] \in Row /\ mark' = mark
    BY <1>10 DEF HandleExpiredTransaction, TypeOK
  <2>2. CASE row'[e] = row[e]
    BY <1>1, <2>1, <2>2
  <2>3. CASE row'[e] = [row[e] EXCEPT !.paidStatus = "EXPIRED"]
    BY <1>2, <2>1, <2>3 DEF Row
  <2> QED
    BY <1>10, <2>2, <2>3 DEF HandleExpiredTransaction
<1>11. ASSUME UNCHANGED row, "touched" \in mark'[e] => "touched" \in mark[e]
       PROVE  BlankInv(e)'
  BY <1>1, <1>11
<1>16. ASSUME NEW r \in Requests, QueueAddFails(r)
       PROVE  BlankInv(e)'
  BY <1>11, <1>16 DEF QueueAddFails, TypeOK
<1>12. ASSUME NEW r \in Requests, RequestStarts(r) \/ RequestGoesOn(r)
       PROVE  BlankInv(e)'
  BY <1>3, <1>4, <1>5, <1>6, <1>11, <1>12, <1>16
     DEF RequestStarts, RequestGoesOn, CreatePayment, CancelFind,
         UpdateStatusFind, CreateRollback, AddJob, CancelPayment
<1>13. ASSUME NEW j \in Jobs, JobGoesOn(j)
       PROVE  BlankInv(e)'
  <2>1. ASSUME NEW routed \in BOOLEAN, FindPaid(j, routed)
        PROVE  BlankInv(e)'
    BY <1>11, <2>1 DEF FindPaid, TypeOK
  <2>2. CASE JobError(j)
    BY <1>11, <2>2 DEF JobError, TypeOK
  <2>3. CASE UNCHANGED <<row, mark>>
    BY <1>11, <2>3
  <2> QED
    BY <1>7, <1>9, <1>13, <2>1, <2>2, <2>3
       DEF JobGoesOn, FindToRefund, OrderAtSupplier, Refund, Restock
<1>14. CASE Environment
  <2>1. ASSUME NEW t \in Trx, NEW outcome \in {"Sukses", "Gagal"},
               SupplierSettles(t, outcome)
        PROVE  BlankInv(e)'
    BY <1>11, <2>1 DEF SupplierSettles, TypeOK
  <2>2. CASE Crash
    BY <1>11, <2>2 DEF Crash
  <2>3. CASE UNCHANGED <<row, mark>>
    BY <1>11, <2>3
  <2> QED
    BY <1>8, <1>14, <2>1, <2>2, <2>3
       DEF Environment, SettleInvoice, PassDeadline, SupplierNotifies
<1>15. CASE UNCHANGED vars
  BY <1>11, <1>15 DEF vars
<1> QED
  BY <1>10, <1>12, <1>13, <1>14, <1>15 DEF Next

\* The inductive invariant holds, and nothing is said of what has no row.
OrderIInv == IInv /\ \A t \in Trx : BlankInv(t)

LEMMA OrderInvariant == Spec => []OrderIInv
<1>1. Init => \A t \in Trx : BlankInv(t)
  BY DEF Init, BlankInv, NewRow, Untouched
<1>2. IInv /\ IInv' /\ (\A t \in Trx : BlankInv(t)) /\ [Next]_vars
        => (\A t \in Trx : BlankInv(t))'
  BY NextKeepsBlank DEF IInv
<1> QED
  BY <1>1, <1>2, Invariant, PTL DEF Spec, OrderIInv

\* What is seen from outside changes only with what it is seen in.
LEMMA OrderViews ==
  /\ invoice' = invoice => Money' = Money
  /\ row' = row => Accepted' = Accepted /\ Told' = Told
  /\ supply' = supply => Goods' = Goods
  /\ mark' = mark =>
       Touched' = Touched /\ Reexecuted' = Reexecuted /\ Misread' = Misread
BY DEF Money, Accepted, Told, Goods, Touched, Reexecuted, Misread

\* A step that writes one row, seen from outside.
LEMMA OneRowViews ==
  ASSUME NEW t \in Trx, \A e \in Trx \ {t} : row'[e] = row[e]
  PROVE  /\ Told' = [Told EXCEPT ![t] = WordOf(row'[t].orderStatus)]
         /\ Accepted' = IF row'[t].paidStatus = "PAID" THEN Accepted \cup {t}
                        ELSE Accepted \ {t}
         /\ WordOf(row'[t].orderStatus) \in {"open", "canceled", "delivered", "rejected"}
BY DEF Told, Accepted, WordOf

\* A step that writes one row, and nothing else that is seen from outside, is
\* an administrator's, or accepts or cancels the order, or tells the truth.
LEMMA OneRowActs ==
  ASSUME NEW t \in Trx, \A e \in Trx \ {t} : row'[e] = row[e],
         UNCHANGED <<invoice, supply, refunds>>,
         Reexecuted' = Reexecuted, Misread' = Misread,
         \/ Touched' = Touched \cup {t}
         \/ /\ Touched' = Touched
            /\ row'[t].orderStatus = row[t].orderStatus
            /\ row'[t].paidStatus = "PAID"
            /\ invoice[t] \in {"paid", "saldo"}
         \/ /\ Touched' = Touched
            /\ row'[t].paidStatus = "PAID" <=> row[t].paidStatus = "PAID"
            /\ \/ row'[t].orderStatus = row[t].orderStatus
               \/ invoice[t] = "canceled" /\ row'[t].orderStatus = "CANCELED"
               \/ /\ supply[t] # "none"
                  /\ \/ row'[t].orderStatus = "PROCESS"
                     \/ /\ supply[t] \in {"Sukses", "Gagal"}
                        /\ row'[t].orderStatus = OrderStatusOf(supply[t])
  PROVE  [Order!Next]_(Order!vars)
<1> DEFINE word == WordOf(row'[t].orderStatus)
<1>1. Money' = Money /\ Goods' = Goods
  BY OrderViews
<1>2. /\ Told' = [Told EXCEPT ![t] = word]
      /\ Accepted' = IF row'[t].paidStatus = "PAID" THEN Accepted \cup {t}
                     ELSE Accepted \ {t}
      /\ word \in {"open", "canceled", "delivered", "rejected"}
  BY OneRowViews
<1>3. Told[t] = WordOf(row[t].orderStatus)
  BY DEF Told
<1>4. t \in Accepted <=> row[t].paidStatus = "PAID"
  BY DEF Accepted
<1>5. Told = [Told EXCEPT ![t] = Told[t]]
  BY DEF Told
<1> HIDE DEF word
<1>6. CASE Touched' = Touched \cup {t}
  <2>1. Accepted' \in {Accepted \cup {t}, Accepted \ {t}}
    BY <1>2
  <2>2. Order!Interfere(t)
    BY <1>1, <1>2, <1>6, <2>1 DEF Order!Interfere, Order!Ends
  <2> QED
    BY <2>2 DEF Order!Next
<1>7. CASE /\ Touched' = Touched
           /\ row'[t].orderStatus = row[t].orderStatus
           /\ row'[t].paidStatus = "PAID"
           /\ invoice[t] \in {"paid", "saldo"}
  <2>1. Money[t] = "in"
    BY <1>7 DEF Money, MoneyOf
  <2>2. Told' = Told
    BY <1>2, <1>3, <1>5, <1>7 DEF word
  <2>3. Accepted' = Accepted \cup {t}
    BY <1>2, <1>7
  <2>4. Order!Accept(t)
    BY <1>1, <1>7, <2>1, <2>2, <2>3 DEF Order!Accept
  <2> QED
    BY <2>4 DEF Order!Next
<1>8. CASE /\ Touched' = Touched
           /\ row'[t].paidStatus = "PAID" <=> row[t].paidStatus = "PAID"
           /\ \/ row'[t].orderStatus = row[t].orderStatus
              \/ invoice[t] = "canceled" /\ row'[t].orderStatus = "CANCELED"
              \/ /\ supply[t] # "none"
                 /\ \/ row'[t].orderStatus = "PROCESS"
                    \/ /\ supply[t] \in {"Sukses", "Gagal"}
                       /\ row'[t].orderStatus = OrderStatusOf(supply[t])
  <2>1. Accepted' = Accepted
    BY <1>2, <1>4, <1>8
  <2>2. CASE row'[t].orderStatus = row[t].orderStatus
    <3>1. Told' = Told
      BY <1>2, <1>3, <1>5, <2>2 DEF word
    <3> QED
      BY <1>1, <1>8, <2>1, <3>1 DEF Order!vars
  <2>3. CASE invoice[t] = "canceled" /\ row'[t].orderStatus = "CANCELED"
    <3>1. Money[t] = "refused" /\ word = "canceled"
      BY <2>3 DEF Money, MoneyOf, word, WordOf
    <3>2. Order!Cancel(t)
      BY <1>1, <1>2, <1>8, <2>1, <3>1 DEF Order!Cancel
    <3> QED
      BY <3>2 DEF Order!Next
  <2>4. CASE /\ supply[t] # "none"
             /\ \/ row'[t].orderStatus = "PROCESS"
                \/ /\ supply[t] \in {"Sukses", "Gagal"}
                   /\ row'[t].orderStatus = OrderStatusOf(supply[t])
    <3>1. Goods[t] # "none" /\ Goods[t] = GoodsOf(supply[t])
      BY <2>4 DEF Goods, GoodsOf
    <3>2. word \in {"open"} \cup ({Goods[t]} \cap {"delivered", "rejected"})
      BY <2>4, <3>1 DEF word, WordOf, GoodsOf, OrderStatusOf
    <3>3. Order!Tell(t)
      BY <1>1, <1>2, <1>8, <2>1, <3>1, <3>2 DEF Order!Tell, Order!Ends
    <3> QED
      BY <3>3 DEF Order!Next
  <2> QED
    BY <1>8, <2>2, <2>3, <2>4
<1> QED
  BY <1>6, <1>7, <1>8

\* A step that changes nothing that is seen from outside.
LEMMA OrderStutters ==
  ASSUME UNCHANGED <<row, invoice, supply, refunds>>,
         Touched' = Touched, Reexecuted' = Reexecuted, Misread' = Misread
  PROVE  UNCHANGED Order!vars
BY OrderViews DEF Order!vars

\* The steps of requests, seen from outside.
LEMMA RequestActs ==
  ASSUME TypeOK, \A t \in Trx : Inv(t) /\ BlankInv(t), NEW r \in Requests,
         RequestStarts(r) \/ RequestGoesOn(r)
  PROVE  [Order!Next]_(Order!vars)
<1>1. ASSUME NEW t \in Trx, NEW ofUser \in BOOLEAN, NEW method \in {"open", "saldo"},
             CreatePayment(r, t, ofUser, method)
      PROVE  [Order!Next]_(Order!vars)
  <2>1. /\ UNCHANGED <<row, supply, refunds, mark>>
        /\ invoice[t] = "none" /\ invoice' = [invoice EXCEPT ![t] = method]
    BY <1>1 DEF CreatePayment
  <2>2. /\ Accepted' = Accepted /\ Told' = Told /\ Goods' = Goods
        /\ Touched' = Touched /\ Reexecuted' = Reexecuted /\ Misread' = Misread
    BY <2>1, OrderViews
  <2>3. CASE method = "open"
    <3>1. Money' = Money
      BY <2>1, <2>3 DEF Money, MoneyOf, TypeOK
    <3> QED
      BY <2>1, <2>2, <3>1 DEF Order!vars
  <2>4. CASE method = "saldo"
    <3>1. Money[t] = "none" /\ Money' = [Money EXCEPT ![t] = "in"]
      BY <2>1, <2>4 DEF Money, MoneyOf, TypeOK
    <3>2. Order!Pay(t)
      BY <2>1, <2>2, <3>1 DEF Order!Pay
    <3> QED
      BY <3>2 DEF Order!Next
  <2> QED
    BY <2>3, <2>4
<1>2. CASE CreateCommit(r)
  <2> DEFINE t == request[r].trx
  <2>1. t \in Trx /\ request[r].at = "creating"
    BY <1>2, RequestType DEF CreateCommit
  <2>2. row[t].paidStatus = "NONE" /\ row[t].orderStatus = "PENDING"
    BY <2>1 DEF Inv, RowInv, RequestOf, BlankInv
  <2>3. /\ row'[t].orderStatus = "PENDING"
        /\ row'[t].paidStatus = IF invoice[t] = "saldo" THEN "PAID" ELSE "PENDING"
        /\ \A e \in Trx \ {t} : row'[e] = row[e]
    BY <1>2, <2>1 DEF CreateCommit, NewRow, TypeOK
  <2>4. UNCHANGED <<invoice, supply, refunds, mark>>
    BY <1>2 DEF CreateCommit
  <2>5. Touched' = Touched /\ Reexecuted' = Reexecuted /\ Misread' = Misread
    BY <2>4, OrderViews
  <2> QED
    BY <2>1, <2>2, <2>3, <2>4, <2>5, OneRowActs
<1>3. ASSUME NEW t \in Trx, TransactionCallback(r, t)
      PROVE  [Order!Next]_(Order!vars)
  <2>1. row[t] \in Row /\ row[t].paidStatus = "PENDING"
    BY <1>3 DEF TransactionCallback, TypeOK
  <2>2. /\ row'[t].orderStatus = row[t].orderStatus
        /\ row'[t].paidStatus = IF invoice[t] = "paid" THEN "PAID" ELSE "CANCELED"
        /\ \A e \in Trx \ {t} : row'[e] = row[e]
    BY <1>3, <2>1 DEF TransactionCallback, TypeOK, Row
  <2>3. UNCHANGED <<invoice, supply, refunds, mark>>
    BY <1>3 DEF TransactionCallback
  <2>4. Touched' = Touched /\ Reexecuted' = Reexecuted /\ Misread' = Misread
    BY <2>3, OrderViews
  <2> QED
    BY <2>1, <2>2, <2>3, <2>4, OneRowActs
<1>4. CASE CancelPayment(r)
  <2> DEFINE t == request[r].trx
  <2>1. /\ t \in Trx /\ UNCHANGED <<row, supply, refunds, mark>>
        /\ \/ invoice' = invoice
           \/ invoice[t] = "open" /\ invoice' = [invoice EXCEPT ![t] = "canceled"]
    BY <1>4, RequestType DEF CancelPayment
  <2>2. /\ Accepted' = Accepted /\ Told' = Told /\ Goods' = Goods
        /\ Touched' = Touched /\ Reexecuted' = Reexecuted /\ Misread' = Misread
    BY <2>1, OrderViews
  <2>3. CASE invoice' = invoice
    BY <2>1, <2>2, <2>3, OrderViews DEF Order!vars
  <2>4. CASE invoice[t] = "open" /\ invoice' = [invoice EXCEPT ![t] = "canceled"]
    <3>1. Money[t] = "none" /\ Money' = [Money EXCEPT ![t] = "refused"]
      BY <2>1, <2>4 DEF Money, MoneyOf, TypeOK
    <3>2. Order!Pay(t)
      BY <2>1, <2>2, <3>1 DEF Order!Pay
    <3> QED
      BY <2>1, <3>2 DEF Order!Next
  <2> QED
    BY <2>1, <2>3, <2>4
<1>5. CASE CancelWrite(r)
  <2> DEFINE t == request[r].trx
  <2>1. t \in Trx /\ request[r].at = "canceled" /\ row[t] \in Row
    BY <1>5, RequestType DEF CancelWrite, TypeOK
  <2>2. invoice[t] = "canceled"
    BY <2>1 DEF Inv, RowInv, RequestOf
  <2>3. /\ row'[t].orderStatus = "CANCELED" /\ row'[t].paidStatus = "CANCELED"
        /\ \A e \in Trx \ {t} : row'[e] = row[e]
    BY <1>5, <2>1, CanceledRow DEF CancelWrite, TypeOK
  <2>4. UNCHANGED <<invoice, supply, refunds, mark>>
    BY <1>5 DEF CancelWrite
  <2>5. Touched' = Touched /\ Reexecuted' = Reexecuted /\ Misread' = Misread
    BY <2>4, OrderViews
  <2>6. CASE Untouched(t)
    <3>1. row[t].paidStatus # "PAID"
      BY <2>1, <2>2, <2>6 DEF Inv, MoneyInv
    <3> QED
      BY <2>1, <2>2, <2>3, <2>4, <2>5, <3>1, OneRowActs
  <2>7. CASE ~Untouched(t)
    <3>1. Touched' = Touched \cup {t}
      BY <2>1, <2>5, <2>7 DEF Touched, Untouched
    <3> QED
      BY <2>1, <2>3, <2>4, <2>5, <3>1, OneRowActs
  <2> QED
    BY <2>6, <2>7
<1>6. ASSUME NEW data \in AdminChanges, UpdateStatusWrite(r, data)
      PROVE  [Order!Next]_(Order!vars)
  <2> DEFINE t == request[r].trx
  <2>1. /\ t \in Trx /\ UNCHANGED <<invoice, supply, refunds>>
        /\ mark' = [mark EXCEPT ![t] = mark[t] \cup {"touched"}]
        /\ \A e \in Trx \ {t} : row'[e] = row[e]
    BY <1>6, RequestType DEF UpdateStatusWrite, TypeOK
  <2>2. Touched' = Touched \cup {t} /\ Reexecuted' = Reexecuted /\ Misread' = Misread
    BY <2>1 DEF Touched, Reexecuted, Misread, TypeOK
  <2> QED
    BY <2>1, <2>2, OneRowActs
<1>7. CASE UNCHANGED <<row, invoice, supply, refunds, mark>>
  BY <1>7, OrderViews, OrderStutters
<1>8. CASE QueueAddFails(r)
  <2>1. Touched' = Touched /\ Reexecuted' = Reexecuted /\ Misread' = Misread
    BY <1>8 DEF QueueAddFails, Touched, Reexecuted, Misread, TypeOK
  <2> QED
    BY <1>8, <2>1, OrderStutters DEF QueueAddFails
<1> QED
  BY <1>1, <1>2, <1>3, <1>4, <1>5, <1>6, <1>7, <1>8
     DEF RequestStarts, RequestGoesOn, CancelFind, UpdateStatusFind,
         CreateRollback, AddJob

\* The steps of jobs, seen from outside.
LEMMA JobActs ==
  ASSUME TypeOK, \A t \in Trx : Inv(t) /\ BlankInv(t), NEW j \in Jobs, JobGoesOn(j)
  PROVE  [Order!Next]_(Order!vars)
<1> DEFINE t == job[j].trx
<1>1. ASSUME NEW answer \in SupplierStatus, OrderAtSupplier(j, answer)
      PROVE  [Order!Next]_(Order!vars)
  <2>1. /\ t \in Trx /\ job[j].at = "found"
        /\ UNCHANGED <<row, invoice, refunds, mark>>
        /\ supply[t] \in {"none", answer}
        /\ supply' = [supply EXCEPT ![t] = answer]
    BY <1>1, JobType DEF OrderAtSupplier
  <2>2. /\ Accepted' = Accepted /\ Told' = Told /\ Money' = Money
        /\ Touched' = Touched /\ Reexecuted' = Reexecuted /\ Misread' = Misread
    BY <2>1, OrderViews
  <2>3. CASE supply[t] = answer
    <3>1. supply' = supply
      BY <2>1, <2>3 DEF TypeOK
    <3> QED
      BY <2>1, <2>2, <3>1, OrderStutters
  <2>4. CASE supply[t] = "none"
    <3>1. t \in Accepted \cup Touched
      BY <2>1 DEF Inv, MoneyInv, JobOf, Untouched, Accepted, Touched
    <3>2. /\ Goods[t] = "none" /\ Goods' = [Goods EXCEPT ![t] = GoodsOf(answer)]
          /\ GoodsOf(answer) \in {"asked", "delivered", "rejected"}
      BY <2>1, <2>4 DEF Goods, GoodsOf, TypeOK, SupplierStatus
    <3>3. Order!Ask(t)
      BY <2>1, <2>2, <3>1, <3>2 DEF Order!Ask, Order!Ends
    <3> QED
      BY <2>1, <3>3 DEF Order!Next
  <2> QED
    BY <2>1, <2>3, <2>4
<1>2. CASE WriteOrderStatus(j)
  <2>1. t \in Trx /\ job[j].at = "ordered"
    BY <1>2, JobType DEF WriteOrderStatus
  <2>2. /\ supply[t] # "none"
        /\ job[j].answer \in SupplierStatus
        /\ job[j].answer \in {"Sukses", "Gagal"} => supply[t] = job[j].answer
    BY <2>1 DEF Inv, AnswerInv, JobOf
  <2>3. /\ row'[t].paidStatus = row[t].paidStatus
        /\ row'[t].orderStatus = OrderStatusOf(job[j].answer)
        /\ \A e \in Trx \ {t} : row'[e] = row[e]
    BY <1>2, OrderWritten
  <2>4. \/ row'[t].orderStatus = "PROCESS"
        \/ /\ supply[t] \in {"Sukses", "Gagal"}
           /\ row'[t].orderStatus = OrderStatusOf(supply[t])
    BY <2>2, <2>3 DEF OrderStatusOf, SupplierStatus
  <2>5. UNCHANGED <<invoice, supply, refunds>>
    BY <1>2 DEF WriteOrderStatus
  <2>6. Touched' = Touched /\ Reexecuted' = Reexecuted /\ Misread' = Misread
    <3>1. mark' = [mark EXCEPT ![t] = @ \cup MarksOf(t, OrderStatusOf(job[j].answer))]
      BY <1>2 DEF WriteOrderStatus
    <3>2. OrderStatusOf(job[j].answer) = "FAILED" => supply[t] = "Gagal"
      BY <2>2 DEF OrderStatusOf, SupplierStatus
    <3>3. MarksOf(t, OrderStatusOf(job[j].answer)) \subseteq {"regressed"}
      BY <3>2 DEF MarksOf
    <3> QED
      BY <3>1, <3>3 DEF Touched, Reexecuted, Misread, TypeOK
  <2> QED
    BY <2>1, <2>2, <2>3, <2>4, <2>5, <2>6, OneRowActs
<1>3. CASE Refund(j)
  <2>1. /\ job[j].at = "refunding" /\ t \in Trx
        /\ UNCHANGED <<row, invoice, supply, mark>>
        /\ refunds' = [refunds EXCEPT ![t] = @ + 1]
    BY <1>3, JobType DEF Refund
  <2>2. /\ Accepted' = Accepted /\ Told' = Told /\ Money' = Money /\ Goods' = Goods
        /\ Touched' = Touched /\ Reexecuted' = Reexecuted /\ Misread' = Misread
    BY <2>1, OrderViews
  <2>3. Untouched(t) => Goods[t] = "rejected"
    BY <2>1 DEF Inv, SupplyInv, JobOf, Goods, GoodsOf
  <2>4. Untouched(t) /\ t \notin Reexecuted => refunds[t] = 0
    BY <2>1 DEF Inv, OnceInv, JobOf, Reexecuted
  <2>5. Untouched(t) \/ t \in Touched
    BY <2>1 DEF Untouched, Touched
  <2>6. Order!MayReturn(t)
    BY <2>3, <2>4, <2>5 DEF Order!MayReturn
  <2>7. Order!Return(t)
    BY <2>1, <2>2, <2>6 DEF Order!Return
  <2> QED
    BY <2>1, <2>7 DEF Order!Next
<1>4. CASE RecordRefund(j)
  <2>1. /\ t \in Trx /\ UNCHANGED <<invoice, supply, refunds, mark>>
        /\ row'[t].paidStatus = row[t].paidStatus
        /\ row'[t].orderStatus = row[t].orderStatus
        /\ \A e \in Trx \ {t} : row'[e] = row[e]
    BY <1>4, JobType DEF RecordRefund, TypeOK, Row
  <2>2. Touched' = Touched /\ Reexecuted' = Reexecuted /\ Misread' = Misread
    BY <2>1, OrderViews
  <2> QED
    BY <2>1, <2>2, OneRowActs
<1>5. ASSUME NEW routed \in BOOLEAN, FindPaid(j, routed)
      PROVE  [Order!Next]_(Order!vars)
  <2>1. Touched' = Touched /\ Reexecuted' = Reexecuted /\ Misread' = Misread
    BY <1>5 DEF FindPaid, Touched, Reexecuted, Misread, TypeOK
  <2> QED
    BY <1>5, <2>1, OrderStutters DEF FindPaid
<1>6. CASE JobError(j)
  <2>1. Touched' = Touched /\ Reexecuted' = Reexecuted /\ Misread' = Misread
    BY <1>6 DEF JobError, Touched, Reexecuted, Misread, TypeOK
  <2> QED
    BY <1>6, <2>1, OrderStutters DEF JobError
<1>7. CASE UNCHANGED <<row, invoice, supply, refunds, mark>>
  BY <1>7, OrderViews, OrderStutters
<1> QED
  BY <1>1, <1>2, <1>3, <1>4, <1>5, <1>6, <1>7
     DEF JobGoesOn, FindToRefund, Restock

\* The steps of the providers, and a crash, seen from outside.
LEMMA EnvironmentActs ==
  ASSUME TypeOK, \A t \in Trx : Inv(t) /\ BlankInv(t), Environment
  PROVE  [Order!Next]_(Order!vars)
<1>1. ASSUME NEW t \in Trx, NEW outcome \in {"paid", "canceled"},
             SettleInvoice(t, outcome)
      PROVE  [Order!Next]_(Order!vars)
  <2>1. /\ UNCHANGED <<row, supply, refunds, mark>>
        /\ invoice[t] = "open" /\ invoice' = [invoice EXCEPT ![t] = outcome]
    BY <1>1 DEF SettleInvoice
  <2>2. /\ Accepted' = Accepted /\ Told' = Told /\ Goods' = Goods
        /\ Touched' = Touched /\ Reexecuted' = Reexecuted /\ Misread' = Misread
    BY <2>1, OrderViews
  <2>3. /\ Money[t] = "none" /\ Money' = [Money EXCEPT ![t] = MoneyOf(outcome)]
        /\ MoneyOf(outcome) \in {"in", "refused"}
    BY <2>1 DEF Money, MoneyOf, TypeOK
  <2>4. Order!Pay(t)
    BY <2>1, <2>2, <2>3 DEF Order!Pay
  <2> QED
    BY <2>4 DEF Order!Next
<1>2. ASSUME NEW t \in Trx, NEW outcome \in {"Sukses", "Gagal"},
             SupplierSettles(t, outcome)
      PROVE  [Order!Next]_(Order!vars)
  <2>1. /\ UNCHANGED <<row, invoice, refunds>>
        /\ supply[t] = "Pending" /\ supply' = [supply EXCEPT ![t] = outcome]
    BY <1>2 DEF SupplierSettles
  <2>2. Accepted' = Accepted /\ Told' = Told /\ Money' = Money
    BY <2>1, OrderViews
  <2>3. Touched' = Touched /\ Reexecuted' = Reexecuted /\ Misread' = Misread
    BY <1>2 DEF SupplierSettles, Touched, Reexecuted, Misread, TypeOK
  <2>4. /\ Goods[t] = "asked" /\ Goods' = [Goods EXCEPT ![t] = GoodsOf(outcome)]
        /\ GoodsOf(outcome) \in {"delivered", "rejected"}
    BY <2>1 DEF Goods, GoodsOf, TypeOK
  <2>5. Order!Settle(t)
    BY <2>1, <2>2, <2>3, <2>4 DEF Order!Settle, Order!Ends
  <2> QED
    BY <2>5 DEF Order!Next
<1>3. ASSUME NEW t \in Trx, NEW said \in SupplierStatus, DigiflazzCallback(t, said)
      PROVE  [Order!Next]_(Order!vars)
  <2> DEFINE status == CallbackStatusOf(said)
  <2>1. /\ supply[t] # "none" /\ supply[t] \in SupplierStatus
        /\ said \in {"Sukses", "Gagal"} => supply[t] = said
    BY <1>3 DEF DigiflazzCallback, Inv, AnswerInv, TypeOK
  <2>2. /\ row'[t].paidStatus = row[t].paidStatus
        /\ row'[t].orderStatus = status
        /\ \A e \in Trx \ {t} : row'[e] = row[e]
        /\ UNCHANGED <<invoice, supply, refunds>>
        /\ mark' = [mark EXCEPT ![t] = @ \cup MarksOf(t, status)]
    BY <1>3 DEF DigiflazzCallback, TypeOK, Row
  <2>3. Touched' = Touched /\ Reexecuted' = Reexecuted
    BY <2>2, MarksOfTypes DEF Touched, Reexecuted, TypeOK
  <2>4. CASE status = "FAILED" /\ supply[t] # "Gagal"
    <3>1. "misread" \in MarksOf(t, status)
      BY <2>4 DEF MarksOf
    <3>2. Misread' = Misread \cup {t}
      BY <2>2, <3>1 DEF Misread, TypeOK
    <3>3. /\ Told' = [Told EXCEPT ![t] = "rejected"]
          /\ Accepted' = IF row[t].paidStatus = "PAID" THEN Accepted \cup {t}
                         ELSE Accepted \ {t}
      BY <2>2, <2>4, OneRowViews DEF WordOf
    <3>4. Accepted' = Accepted
      BY <3>3 DEF Accepted
    <3>5. Goods[t] \notin {"none", "rejected"}
      BY <2>1, <2>4 DEF Goods, GoodsOf, SupplierStatus
    <3>6. Money' = Money /\ Goods' = Goods
      BY <2>2, OrderViews
    <3>7. Order!Mishear(t)
      BY <2>2, <2>3, <3>2, <3>3, <3>4, <3>5, <3>6 DEF Order!Mishear
    <3> QED
      BY <3>7 DEF Order!Next
  <2>5. CASE ~(status = "FAILED" /\ supply[t] # "Gagal")
    <3>1. supply[t] \in {"Sukses", "Gagal"} /\ status = OrderStatusOf(supply[t])
      BY <2>1, <2>5 DEF CallbackStatusOf, OrderStatusOf, SupplierStatus
    <3>2. "misread" \notin MarksOf(t, status)
      BY <2>5 DEF MarksOf
    <3>3. Misread' = Misread
      BY <2>2, <3>2 DEF Misread, TypeOK
    <3> QED
      BY <2>2, <2>3, <3>1, <3>3, OneRowActs
  <2> QED
    BY <2>4, <2>5
<1>4. CASE Crash
  <2> DEFINE rerun == {t \in Trx : \E j \in PutBack :
                  job[j].trx = t /\ job[j].at \in {"refunded", "restocking"}}
  <2>1. UNCHANGED <<row, invoice, supply, refunds>>
    BY <1>4 DEF Crash
  <2>2. /\ Accepted' = Accepted /\ Told' = Told /\ Goods' = Goods /\ Money' = Money
    BY <2>1, OrderViews
  <2>3. \A t \in Trx : mark'[t] \cap {"touched", "reexecuted"} =
          (mark[t] \cap {"touched", "reexecuted"})
            \cup (IF t \in rerun THEN {"reexecuted"} ELSE {})
    BY <1>4 DEF Crash, TypeOK
  <2>4. rerun \in SUBSET Trx
    OBVIOUS
  <2> HIDE DEF rerun
  <2>5. Touched' = Touched
    BY <2>3 DEF Touched
  <2>6. Reexecuted' = Reexecuted \cup rerun
    BY <2>3, <2>4 DEF Reexecuted
  <2>8. Misread' = Misread
    BY <1>4 DEF Crash, Misread, TypeOK
  <2>7. Order!Forget(rerun)
    BY <2>1, <2>2, <2>5, <2>6, <2>8 DEF Order!Forget
  <2> QED
    BY <2>4, <2>7 DEF Order!Next
<1>5. CASE UNCHANGED <<row, invoice, supply, refunds, mark>>
  BY <1>5, OrderViews, OrderStutters
<1> QED
  BY <1>1, <1>2, <1>3, <1>4, <1>5 DEF Environment, PassDeadline, SupplierNotifies

\* The cron takes PENDING away from many rows at once, which nobody is told.
LEMMA ExpiryActs ==
  ASSUME TypeOK, HandleExpiredTransaction
  PROVE  UNCHANGED Order!vars
<1>1. UNCHANGED <<invoice, supply, refunds, mark>>
  BY DEF HandleExpiredTransaction
<1>2. ASSUME NEW t \in Trx
      PROVE  /\ row'[t].orderStatus = row[t].orderStatus
             /\ row'[t].paidStatus = "PAID" <=> row[t].paidStatus = "PAID"
  <2>1. row[t] \in Row
    BY DEF TypeOK
  <2>2. \/ row'[t] = row[t]
        \/ /\ row[t].paidStatus = "PENDING"
           /\ row'[t] = [row[t] EXCEPT !.paidStatus = "EXPIRED"]
    BY DEF HandleExpiredTransaction
  <2> QED
    BY <2>1, <2>2 DEF Row
<1>3. Accepted' = Accepted /\ Told' = Told
  BY <1>2 DEF Accepted, Told, WordOf
<1> QED
  BY <1>1, <1>3, OrderViews DEF Order!vars

\* Transaction implements AtomicOrder: the handlers and jobs that share a
\* row without a lock, redeliveries, late answers and crashes act as one
\* shopkeeper, who takes the money, asks for the goods, says what became of
\* them and returns the money, each for its reason, as AtomicOrder has it.
THEOREM Transaction_Acts_As_One_Order == Spec => ActsAsOneOrder
<1>1. Init => Order!Init
  <2> SUFFICES ASSUME Init PROVE Order!Init
    OBVIOUS
  <2>1. /\ Money = [t \in Trx |-> "none"] /\ Goods = [t \in Trx |-> "none"]
        /\ refunds = [t \in Trx |-> 0]
    BY DEF Init, Money, Goods, MoneyOf, GoodsOf
  <2>2. Told = [t \in Trx |-> "open"] /\ Accepted = {}
    BY DEF Init, Told, Accepted, WordOf, NewRow
  <2>3. Touched = {} /\ Reexecuted = {} /\ Misread = {}
    BY DEF Init, Touched, Reexecuted, Misread
  <2> QED
    BY <2>1, <2>2, <2>3 DEF Order!Init
<1>2. OrderIInv /\ [Next]_vars => [Order!Next]_(Order!vars)
  <2> SUFFICES ASSUME TypeOK, \A t \in Trx : Inv(t) /\ BlankInv(t), [Next]_vars
               PROVE  [Order!Next]_(Order!vars)
    BY DEF OrderIInv, IInv
  <2>1. CASE UNCHANGED vars
    BY <2>1, OrderViews, OrderStutters DEF vars
  <2> QED
    BY <2>1, RequestActs, JobActs, EnvironmentActs, ExpiryActs DEF Next
<1> QED
  BY <1>1, <1>2, OrderInvariant, PTL DEF Spec, ActsAsOneOrder, Order!Spec

-----------------------------------------------------------------------------
(* RefundsBoundedByReruns: of the runs of an order's job, the one in which  *)
(* it is now and those a crash ended have refunded once each at most.       *)

\* The refunds of an order are covered by the runs of its job.
RerunInv(t) ==
  Untouched(t) =>
    /\ (\A j \in Jobs : ~JobOf(j, t, Added)) => refunds[t] = 0
    /\ \A j \in Jobs : JobOf(j, t, Added) =>
         job[j].stalls <= crashes /\ refunds[t] <= job[j].stalls + 1
    /\ \A j \in Jobs : JobOf(j, t, Early) => refunds[t] <= job[j].stalls

\* Moving a job on leaves its stalls.
LEMMA JobKeepsStalls ==
  ASSUME TypeOK, NEW j \in Jobs, job[j].at # "none", NEW at, NEW answer,
         \/ job' = [job EXCEPT ![j].at = at]
         \/ job' = [job EXCEPT ![j].at = at, ![j].answer = answer]
  PROVE  job'[j].stalls = job[j].stalls
<1>1. PICK a \in Added, n \in JobNames, t \in Trx, s \in 0..MaxStalled,
           w \in SupplierStatus \cup {"none"} :
        job[j] = [at |-> a, name |-> n, trx |-> t, stalls |-> s, answer |-> w]
  BY JobType
<1> QED
  BY <1>1 DEF TypeOK

\* What a step other than a refund, a new job and a crash does to a job.
JobGoesBy(i) ==
  \/ job'[i] = job[i]
  \/ /\ job[i].at \in Added /\ job'[i].at \in Added
     /\ job'[i].trx = job[i].trx /\ job'[i].stalls = job[i].stalls
     /\ job'[i].at \in Early => job[i].at \in Early

LEMMA JobsGoBy ==
  ASSUME TypeOK, [Next]_vars, ~Crash, \A r \in Requests : ~AddJob(r),
         \A j \in Jobs : ~Refund(j)
  PROVE  \A i \in Jobs : JobGoesBy(i)
<1>1. ASSUME NEW j \in Jobs, JobGoesOn(j)
      PROVE  \A i \in Jobs : JobGoesBy(i)
  <2>1. job[j].at # "none"
    BY <1>1 DEF JobGoesOn, FindPaid, FindToRefund, OrderAtSupplier, WriteOrderStatus,
                Refund, RecordRefund, Restock, JobError, Running
  <2>2. job[j].at \in Added /\ job[j].answer \in SupplierStatus \cup {"none"}
    BY <2>1, JobType
  <2>3. PICK at \in Added, answer \in SupplierStatus \cup {"none"} :
          /\ \/ job' = [job EXCEPT ![j].at = at, ![j].answer = answer]
             \/ job' = [job EXCEPT ![j].at = at] /\ answer = job[j].answer
          /\ at \in Early => job[j].at \in Early
    <3>1. CASE \E routed \in BOOLEAN : FindPaid(j, routed)
      BY <2>2, <3>1 DEF FindPaid, Move, Added, Early
    <3>2. CASE FindToRefund(j)
      BY <2>2, <3>2 DEF FindToRefund, Move, Added, Early
    <3>3. CASE \E answer \in SupplierStatus : OrderAtSupplier(j, answer)
      BY <3>3 DEF OrderAtSupplier, Added, Early
    <3>4. CASE WriteOrderStatus(j)
      BY <3>4 DEF WriteOrderStatus, Added, Early
    <3>5. CASE RecordRefund(j)
      BY <2>2, <3>5 DEF RecordRefund, Move, Added, Early
    <3>6. CASE Restock(j)
      BY <2>2, <3>6 DEF Restock, Move, Added, Early
    <3>7. CASE JobError(j)
      BY <3>7 DEF JobError, Added, Early
    <3> QED
      BY <1>1, <3>1, <3>2, <3>3, <3>4, <3>5, <3>6, <3>7 DEF JobGoesOn
  <2>4. job'[j].stalls = job[j].stalls
    BY <2>1, <2>3, JobKeepsStalls
  <2>5. /\ job'[j].at = at /\ job'[j].trx = job[j].trx
        /\ \A i \in Jobs \ {j} : job'[i] = job[i]
    BY <2>1, <2>3, JobMoves
  <2> QED
    BY <2>2, <2>3, <2>4, <2>5 DEF JobGoesBy
<1>2. CASE UNCHANGED job
  BY <1>2 DEF JobGoesBy
<1> QED
  BY <1>1, <1>2
     DEF Next, vars, RequestStarts, RequestGoesOn, Environment, CreatePayment,
         TransactionCallback, CancelFind, UpdateStatusFind, CreateCommit,
         CreateRollback, QueueAddFails, CancelPayment, CancelWrite,
         UpdateStatusWrite, HandleExpiredTransaction, SettleInvoice, PassDeadline,
         SupplierSettles, SupplierNotifies, DigiflazzCallback

LEMMA RerunsKeep ==
  ASSUME NEW t \in Trx, RerunInv(t), MarksKept(t),
         refunds'[t] = refunds[t], crashes' = crashes,
         \A i \in Jobs : JobGoesBy(i)
  PROVE  RerunInv(t)'
<1> SUFFICES ASSUME Untouched(t)'
             PROVE  RerunInv(t)'
  BY DEF RerunInv
<1>1. Untouched(t)
  BY DEF Untouched, MarksKept
<1>2. ASSUME NEW j \in Jobs
      PROVE  /\ JobOf(j, t, Added)' <=> JobOf(j, t, Added)
             /\ JobOf(j, t, Early)' => JobOf(j, t, Early)
             /\ JobOf(j, t, Added) => job'[j].stalls = job[j].stalls
  BY DEF JobOf, JobGoesBy
<1>3. \A j \in Jobs : JobOf(j, t, Early) => JobOf(j, t, Added)
  BY DEF JobOf, Early, Added
<1> QED
  BY <1>1, <1>2, <1>3 DEF RerunInv

LEMMA RefundKeepsReruns ==
  ASSUME TypeOK, NEW e \in Trx, Inv(e), RerunInv(e), NEW j \in Jobs, Refund(j)
  PROVE  RerunInv(e)'
<1> DEFINE t == job[j].trx
<1>1. t \in Trx /\ job[j].at = "refunding"
      /\ job[j].answer \in SupplierStatus \cup {"none"}
  BY JobType DEF Refund
<1>2. /\ crashes' = crashes /\ mark' = mark
      /\ refunds' = [refunds EXCEPT ![t] = refunds[t] + 1]
      /\ job' = [job EXCEPT ![j].at = "refunded"]
  BY DEF Refund, Move
<1>3. /\ job'[j].at = "refunded" /\ job'[j].trx = t
      /\ \A i \in Jobs \ {j} : job'[i] = job[i]
  BY <1>1, <1>2, JobMoves DEF Added
<1>4. job'[j].stalls = job[j].stalls
  BY <1>1, <1>2, JobKeepsStalls
<1>5. CASE e # t
  <2>1. \A i \in Jobs : JobGoesBy(i)
    BY <1>1, <1>3, <1>4 DEF JobGoesBy, Added, Early
  <2>2. refunds'[e] = refunds[e] /\ MarksKept(e)
    BY <1>2, <1>5 DEF TypeOK, MarksKept
  <2> QED
    BY <1>2, <2>1, <2>2, RerunsKeep
<1>6. CASE e = t /\ Untouched(e)
  <2>1. /\ JobOf(j, e, Added) /\ JobOf(j, e, Early)
    BY <1>1, <1>6 DEF JobOf, Added, Early
  <2>2. \A i \in Jobs : JobOf(i, e, Added) => i = j
    BY <1>6, <2>1 DEF Inv, OnceInv
  <2>3. \A i \in Jobs : JobOf(i, e, Added)' => i = j
    BY <1>3, <2>2 DEF JobOf
  <2>4. \A i \in Jobs : ~JobOf(i, e, Early)'
    BY <1>3, <2>3 DEF JobOf, Early, Added
  <2>5. JobOf(j, e, Added)'
    BY <1>3, <1>6 DEF JobOf, Added
  <2>6. job[j].stalls <= crashes /\ refunds[e] <= job[j].stalls
    BY <1>6, <2>1 DEF RerunInv
  <2>7. refunds'[e] = refunds[e] + 1 /\ refunds[e] \in Nat
        /\ job[j].stalls \in Nat
    BY <1>1, <1>2, <1>6, JobType DEF TypeOK
  <2>8. job'[j].stalls <= crashes' /\ refunds'[e] <= job'[j].stalls + 1
    BY <1>2, <1>4, <2>6, <2>7
  <2> QED
    BY <2>3, <2>4, <2>5, <2>8 DEF RerunInv
<1>7. CASE ~Untouched(e)
  BY <1>2, <1>7 DEF RerunInv, Untouched
<1> QED
  BY <1>5, <1>6, <1>7

LEMMA AddJobKeepsReruns ==
  ASSUME TypeOK, NEW e \in Trx, Inv(e), RerunInv(e), NEW r \in Requests, AddJob(r)
  PROVE  RerunInv(e)'
<1> DEFINE t == request[r].trx
<1>1. /\ mark' = mark /\ refunds' = refunds /\ crashes' = crashes
      /\ request[r].at = "enqueueing"
  BY DEF AddJob
<1>2. PICK j \in Jobs :
        /\ job[j].at = "none"
        /\ job'[j].at = "waiting" /\ job'[j].trx = t /\ job'[j].stalls = 0
        /\ \A i \in Jobs \ {j} : job'[i] = job[i]
  BY DEF AddJob, TypeOK
<1>3. CASE e # t
  <2>1. ASSUME NEW i \in Jobs, NEW ats
        PROVE  "none" \notin ats => (JobOf(i, e, ats)' <=> JobOf(i, e, ats))
    BY <1>2, <1>3 DEF JobOf
  <2>2. "none" \notin Added /\ "none" \notin Early
    BY DEF Added, Early
  <2>3. \A i \in Jobs : JobOf(i, e, Added) => job'[i] = job[i]
    BY <1>2, <2>2 DEF JobOf
  <2>4. \A i \in Jobs : JobOf(i, e, Early) => job'[i] = job[i]
    BY <1>2, <2>2 DEF JobOf
  <2> QED
    BY <1>1, <2>1, <2>2, <2>3, <2>4 DEF RerunInv, Untouched
<1>4. CASE e = t /\ Untouched(e)
  <2>1. RequestOf(r, e, {"enqueueing"})
    BY <1>1, <1>4 DEF RequestOf
  <2>2. refunds[e] = 0 /\ \A i \in Jobs : ~JobOf(i, e, Added)
    BY <1>4, <2>1 DEF Inv, OnceInv
  <2>3. \A i \in Jobs : JobOf(i, e, Added)' => i = j
    BY <1>2, <2>2 DEF JobOf
  <2>4. \A i \in Jobs : JobOf(i, e, Early)' => i = j
    BY <2>3 DEF JobOf, Early, Added
  <2>5. crashes \in Nat
    BY BoundsAssumption DEF TypeOK
  <2>6. refunds'[e] = 0 /\ job'[j].stalls <= crashes'
    BY <1>1, <1>2, <2>2, <2>5
  <2> QED
    BY <1>2, <2>3, <2>4, <2>6 DEF RerunInv
<1>5. CASE ~Untouched(e)
  BY <1>1, <1>5 DEF RerunInv, Untouched
<1> QED
  BY <1>3, <1>4, <1>5

\* A crash puts a job back with one more stall, or leaves its stalls.
LEMMA CrashedStalls ==
  ASSUME TypeOK, Crash, NEW j \in Jobs, job[j].at # "none"
  PROVE  /\ job'[j].at # "none" /\ job'[j].trx = job[j].trx
         /\ \/ job'[j].at = "waiting" /\ job'[j].stalls = job[j].stalls + 1
            \/ /\ job[j].at # "done" /\ job'[j].at = "done"
               /\ job'[j].stalls = job[j].stalls
            \/ job'[j] = job[j]
<1>0. PICK a \in Added, n \in JobNames, t \in Trx, s \in 0..MaxStalled,
           w \in SupplierStatus \cup {"none"} :
        job[j] = [at |-> a, name |-> n, trx |-> t, stalls |-> s, answer |-> w]
  BY JobType
<1>1. CASE j \in PutBack
  <2>1. job'[j] = [job[j] EXCEPT !.at = "waiting", !.answer = "none",
                                 !.stalls = job[j].stalls + 1]
    BY <1>1 DEF Crash
  <2> QED
    BY <1>0, <2>1
<1>2. CASE j \in Running \ PutBack
  <2>1. job'[j] = [job[j] EXCEPT !.at = "done", !.answer = "none"]
    BY <1>2 DEF Crash
  <2>2. job[j].at # "done"
    BY <1>2 DEF Running
  <2> QED
    BY <1>0, <2>1, <2>2
<1>3. CASE j \notin Running
  BY <1>3 DEF Crash, PutBack
<1> QED
  BY <1>1, <1>2, <1>3

LEMMA CrashKeepsReruns ==
  ASSUME TypeOK, NEW e \in Trx, RerunInv(e), Crash
  PROVE  RerunInv(e)'
<1> SUFFICES ASSUME Untouched(e)'
             PROVE  RerunInv(e)'
  BY DEF RerunInv
<1>0. refunds' = refunds /\ crashes' = crashes + 1
  BY DEF Crash
<1>1. /\ refunds' = refunds /\ crashes' = crashes + 1 /\ crashes \in Nat
      /\ refunds[e] \in Nat
  BY <1>0, BoundsAssumption DEF TypeOK
<1>2. Untouched(e)
  BY DEF Crash, Untouched
<1>3. ASSUME NEW j \in Jobs, JobOf(j, e, Added)'
      PROVE  /\ JobOf(j, e, Added) /\ job[j].at # "none"
             /\ job[j].stalls \in Nat
  <2>1. job'[j].at # "none"
    BY <1>3 DEF JobOf, Added
  <2>2. job[j].at \in Added /\ job'[j].trx = job[j].trx
    BY <2>1, CrashedJobs
  <2>3. job[j].at # "none"
    BY <2>2 DEF Added
  <2> QED
    BY <1>3, <2>2, <2>3, JobType DEF JobOf
<1>4. ASSUME NEW j \in Jobs, JobOf(j, e, Added)'
      PROVE  /\ job'[j].stalls <= crashes' /\ refunds'[e] <= job'[j].stalls + 1
             /\ JobOf(j, e, Early)' => refunds'[e] <= job'[j].stalls
  <2>1. /\ JobOf(j, e, Added) /\ job[j].at # "none" /\ job[j].stalls \in Nat
    BY <1>3, <1>4
  <2>2. job[j].stalls <= crashes /\ refunds[e] <= job[j].stalls + 1
    BY <1>2, <2>1 DEF RerunInv
  <2>3. CASE job'[j].at = "waiting" /\ job'[j].stalls = job[j].stalls + 1
    BY <1>1, <2>1, <2>2, <2>3
  <2>4. CASE job'[j].at = "done" /\ job'[j].stalls = job[j].stalls
    <3>1. ~JobOf(j, e, Early)'
      BY <2>4 DEF JobOf, Early
    <3> QED
      BY <1>1, <2>1, <2>2, <2>4, <3>1
  <2>5. CASE job'[j] = job[j]
    <3>1. JobOf(j, e, Early)' => refunds[e] <= job[j].stalls
      BY <1>2, <2>5 DEF RerunInv, JobOf
    <3> QED
      BY <1>1, <2>1, <2>2, <2>5, <3>1
  <2> QED
    BY <2>1, <2>3, <2>4, <2>5, CrashedStalls
<1>5. ASSUME \A j \in Jobs : ~JobOf(j, e, Added)'
      PROVE  refunds'[e] = 0
  <2>1. ASSUME NEW j \in Jobs, JobOf(j, e, Added)
        PROVE  FALSE
    <3>1. job[j].at # "none" /\ job[j].trx = e
      BY <2>1 DEF JobOf, Added
    <3>2. job'[j].at # "none" /\ job'[j].trx = e
      BY <3>1, CrashedStalls
    <3>3. job'[j].at \in {"waiting", "done"}
      BY <3>2, CrashedJobs
    <3> QED
      BY <1>5, <3>2, <3>3 DEF JobOf, Added
  <2> QED
    BY <1>1, <1>2, <2>1 DEF RerunInv
<1>6. \A j \in Jobs : JobOf(j, e, Early)' => JobOf(j, e, Added)'
  BY DEF JobOf, Early, Added
<1> QED
  BY <1>4, <1>5, <1>6 DEF RerunInv

LEMMA NextKeepsReruns ==
  ASSUME TypeOK, NEW t \in Trx, Inv(t), RerunInv(t), [Next]_vars
  PROVE  RerunInv(t)'
<1>1. CASE \E j \in Jobs : Refund(j)
  BY <1>1, RefundKeepsReruns
<1>2. CASE \E r \in Requests : AddJob(r)
  BY <1>2, AddJobKeepsReruns
<1>3. CASE Crash
  BY <1>3, CrashKeepsReruns
<1>4. CASE /\ ~Crash /\ \A r \in Requests : ~AddJob(r)
           /\ \A j \in Jobs : ~Refund(j)
  <2>1. \A i \in Jobs : JobGoesBy(i)
    BY <1>4, JobsGoBy
  <2>2. refunds' = refunds /\ crashes' = crashes
    BY <1>4
       DEF Next, vars, RequestStarts, RequestGoesOn, JobGoesOn, Environment,
           CreatePayment, TransactionCallback, CancelFind, UpdateStatusFind,
           CreateCommit, CreateRollback, QueueAddFails, CancelPayment,
           CancelWrite, UpdateStatusWrite, FindPaid, FindToRefund, OrderAtSupplier,
           WriteOrderStatus, RecordRefund, Restock, JobError,
           HandleExpiredTransaction, SettleInvoice, PassDeadline,
           SupplierSettles, SupplierNotifies, DigiflazzCallback
  <2>3. MarksKept(t)
    <3>1. CASE \E j \in Jobs : RecordRefund(j) \/ Restock(j)
      BY <3>1 DEF RecordRefund, Restock, MarksKept
    <3>2. CASE ~\E j \in Jobs : RecordRefund(j) \/ Restock(j)
      BY <1>4, <3>2, StepKeepsCounts
    <3> QED
      BY <3>1, <3>2
  <2> QED
    BY <2>1, <2>2, <2>3, RerunsKeep
<1> QED
  BY <1>1, <1>2, <1>3, <1>4

\* Each crash costs at most one more refund of an order, and never more than
\* Bull puts a stalled job back: with the default of one, an order is refunded
\* twice at most, whatever the handlers do and however often the process ends.
THEOREM Refunds_Bounded_By_Reruns == Spec => []RefundsBoundedByReruns
<1> DEFINE All == \A t \in Trx : RerunInv(t)
<1>1. Init => All
  <2> SUFFICES ASSUME Init, NEW t \in Trx
               PROVE  RerunInv(t)
    OBVIOUS
  <2>1. refunds[t] = 0 /\ \A j \in Jobs : job[j].at = "none"
    BY DEF Init
  <2> QED
    BY <2>1 DEF RerunInv, JobOf, Added, Early
<1>2. IInv /\ All /\ [Next]_vars => All'
  BY NextKeepsReruns DEF IInv
<1>3. IInv /\ All => RefundsBoundedByReruns
  <2> SUFFICES ASSUME IInv, NEW t \in Trx, RerunInv(t), Untouched(t)
               PROVE  refunds[t] <= 1 + crashes /\ refunds[t] <= 1 + MaxStalled
    BY DEF RefundsBoundedByReruns
  <2>1. refunds[t] \in Nat /\ crashes \in Nat /\ MaxStalled \in Nat
    BY BoundsAssumption DEF IInv, TypeOK
  <2>2. CASE \A j \in Jobs : ~JobOf(j, t, Added)
    BY <2>1, <2>2 DEF RerunInv
  <2>3. ASSUME NEW j \in Jobs, JobOf(j, t, Added)
        PROVE  refunds[t] <= 1 + crashes /\ refunds[t] <= 1 + MaxStalled
    <3>1. job[j].at # "none"
      BY <2>3 DEF JobOf, Added
    <3>2. job[j].stalls \in 0..MaxStalled
      BY <3>1, JobType DEF IInv
    <3> QED
      BY <2>1, <2>3, <3>2 DEF RerunInv
  <2> QED
    BY <2>2, <2>3
<1> HIDE DEF All
<1> QED
  BY <1>1, <1>2, <1>3, Invariant, PTL DEF Spec

-----------------------------------------------------------------------------
(* A job does not go round in circles.                                      *)

LEMMA RunLeftValues ==
  /\ RunLeft("waiting") = 6 /\ RunLeft("found") = 5 /\ RunLeft("ordered") = 4
  /\ RunLeft("refunding") = 3 /\ RunLeft("refunded") = 2
  /\ RunLeft("restocking") = 1 /\ RunLeft("done") = 0
BY DEF RunLeft

\* Every step of a handler brings its job forward.
LEMMA HandlerGoesOn ==
  ASSUME TypeOK, NEW j \in Jobs, JobGoesOn(j)
  PROVE  /\ job[j].at # "none" /\ job'[j].stalls = job[j].stalls
         /\ RunLeft(job'[j].at) < RunLeft(job[j].at)
         /\ \A i \in Jobs \ {j} : job'[i] = job[i]
<1>1. job[j].at # "none"
  BY DEF JobGoesOn, FindPaid, FindToRefund, OrderAtSupplier, WriteOrderStatus,
         Refund, RecordRefund, Restock, JobError, Running
<1>2. job[j].at \in Added /\ job[j].answer \in SupplierStatus \cup {"none"}
  BY <1>1, JobType
<1> DEFINE Falls == /\ job'[j].stalls = job[j].stalls
                     /\ RunLeft(job'[j].at) < RunLeft(job[j].at)
                     /\ \A i \in Jobs \ {j} : job'[i] = job[i]
<1>3. ASSUME NEW at \in Added, Move(j, at), RunLeft(at) < RunLeft(job[j].at)
      PROVE  Falls
  <2>1. job' = [job EXCEPT ![j].at = at]
    BY <1>3 DEF Move
  <2>2. job'[j].at = at /\ \A i \in Jobs \ {j} : job'[i] = job[i]
    BY <1>1, <1>2, <2>1, JobMoves
  <2>3. job'[j].stalls = job[j].stalls
    BY <1>1, <2>1, JobKeepsStalls
  <2> QED
    BY <1>3, <2>2, <2>3
<1>4. ASSUME NEW at \in Added, NEW answer \in SupplierStatus \cup {"none"},
             job' = [job EXCEPT ![j].at = at, ![j].answer = answer],
             RunLeft(at) < RunLeft(job[j].at)
      PROVE  Falls
  <2>1. job'[j].at = at /\ \A i \in Jobs \ {j} : job'[i] = job[i]
    BY <1>1, <1>4, JobMoves
  <2>2. job'[j].stalls = job[j].stalls
    BY <1>1, <1>4, JobKeepsStalls
  <2> QED
    BY <1>4, <2>1, <2>2
<1>5. {"found", "ordered", "refunding", "refunded", "restocking", "done"}
        \subseteq Added
  BY DEF Added
<1> HIDE DEF Falls
<1>6. Falls
  <2>1. CASE \E routed \in BOOLEAN : FindPaid(j, routed)
    <3>1. job[j].at = "waiting" /\ \E at \in {"found", "done"} : Move(j, at)
      BY <2>1 DEF FindPaid
    <3>2. \A at \in {"found", "done"} : RunLeft(at) < RunLeft(job[j].at)
      BY <3>1, RunLeftValues
    <3> QED
      BY <1>3, <1>5, <3>1, <3>2
  <2>2. CASE FindToRefund(j)
    <3>1. job[j].at = "waiting" /\ \E at \in {"refunding", "done"} : Move(j, at)
      BY <2>2 DEF FindToRefund
    <3>2. \A at \in {"refunding", "done"} : RunLeft(at) < RunLeft(job[j].at)
      BY <3>1, RunLeftValues
    <3> QED
      BY <1>3, <1>5, <3>1, <3>2
  <2>3. CASE \E answer \in SupplierStatus : OrderAtSupplier(j, answer)
    <3>1. PICK answer \in SupplierStatus :
            job' = [job EXCEPT ![j].at = "ordered", ![j].answer = answer]
      BY <2>3 DEF OrderAtSupplier
    <3>2. job[j].at = "found"
      BY <2>3 DEF OrderAtSupplier
    <3>3. RunLeft("ordered") < RunLeft(job[j].at)
      BY <3>2, RunLeftValues
    <3> QED
      BY <1>4, <1>5, <3>1, <3>3
  <2>4. CASE WriteOrderStatus(j)
    <3>1. PICK at \in {"refunding", "done"} :
            job' = [job EXCEPT ![j].at = at, ![j].answer = "none"]
      BY <2>4 DEF WriteOrderStatus
    <3>2. job[j].at = "ordered"
      BY <2>4 DEF WriteOrderStatus
    <3>3. RunLeft(at) < RunLeft(job[j].at)
      BY <3>2, RunLeftValues
    <3> QED
      BY <1>4, <1>5, <3>1, <3>3
  <2>5. CASE Refund(j)
    <3>1. job[j].at = "refunding" /\ Move(j, "refunded")
      BY <2>5 DEF Refund
    <3>2. RunLeft("refunded") < RunLeft(job[j].at)
      BY <3>1, RunLeftValues
    <3> QED
      BY <1>3, <1>5, <3>1, <3>2
  <2>6. CASE RecordRefund(j)
    <3>1. job[j].at = "refunded" /\ Move(j, "restocking")
      BY <2>6 DEF RecordRefund
    <3>2. RunLeft("restocking") < RunLeft(job[j].at)
      BY <3>1, RunLeftValues
    <3> QED
      BY <1>3, <1>5, <3>1, <3>2
  <2>7. CASE Restock(j)
    <3>1. job[j].at = "restocking" /\ Move(j, "done")
      BY <2>7 DEF Restock
    <3>2. RunLeft("done") < RunLeft(job[j].at)
      BY <3>1, RunLeftValues
    <3> QED
      BY <1>3, <1>5, <3>1, <3>2
  <2>8. CASE JobError(j)
    <3>1. job' = [job EXCEPT ![j].at = "done", ![j].answer = "none"]
      BY <2>8 DEF JobError
    <3>2. job[j].at \in {"found", "ordered", "refunding", "refunded", "restocking"}
      BY <1>2, <2>8 DEF JobError, Running, Added
    <3>3. RunLeft("done") < RunLeft(job[j].at)
      BY <3>2, RunLeftValues
    <3> QED
      BY <1>4, <1>5, <3>1, <3>3
  <2> QED
    BY <2>1, <2>2, <2>3, <2>4, <2>5, <2>6, <2>7, <2>8 DEF JobGoesOn
<1> QED
  BY <1>1, <1>6 DEF Falls

LEMMA StepGoesOn ==
  ASSUME TypeOK, [Next]_vars, NEW j \in Jobs, job[j].at # "none"
  PROVE  job'[j] = job[j] \/ StepsLeft(job'[j]) < StepsLeft(job[j])
<1>1. /\ MaxStalled \in Nat /\ job[j].stalls \in Nat
      /\ job[j].at \in Added /\ RunLeft(job[j].at) \in 0..6
      /\ job[j].at # "done" => RunLeft(job[j].at) > 0
  BY BoundsAssumption, JobType, RunLeftValues DEF Added
<1>2. ASSUME NEW i \in Jobs, JobGoesOn(i)
      PROVE  job'[j] = job[j] \/ StepsLeft(job'[j]) < StepsLeft(job[j])
  <2>1. CASE i = j
    <3>1. /\ job'[j].stalls = job[j].stalls
          /\ RunLeft(job'[j].at) < RunLeft(job[j].at)
      BY <1>2, <2>1, HandlerGoesOn
    <3>2. RunLeft(job'[j].at) \in Int
      BY DEF RunLeft
    <3> QED
      BY <1>1, <3>1, <3>2 DEF StepsLeft
  <2>2. CASE i # j
    BY <1>2, <2>2, HandlerGoesOn
  <2> QED
    BY <2>1, <2>2
<1>3. CASE Crash
  <2>1. CASE job'[j].at = "waiting" /\ job'[j].stalls = job[j].stalls + 1
    BY <1>1, <2>1, RunLeftValues DEF StepsLeft
  <2>2. CASE /\ job[j].at # "done" /\ job'[j].at = "done"
             /\ job'[j].stalls = job[j].stalls
    BY <1>1, <2>2, RunLeftValues DEF StepsLeft
  <2> QED
    BY <1>3, <2>1, <2>2, CrashedStalls
<1>4. ASSUME NEW r \in Requests, AddJob(r)
      PROVE  job'[j] = job[j]
  BY <1>4 DEF AddJob, TypeOK
<1>5. CASE /\ ~Crash /\ \A r \in Requests : ~AddJob(r)
           /\ \A i \in Jobs : ~JobGoesOn(i)
  BY <1>5
     DEF Next, vars, RequestStarts, RequestGoesOn, Environment, CreatePayment,
         TransactionCallback, CancelFind, UpdateStatusFind, CreateCommit,
         CreateRollback, QueueAddFails, CancelPayment, CancelWrite,
         UpdateStatusWrite, HandleExpiredTransaction, SettleInvoice, PassDeadline,
         SupplierSettles, SupplierNotifies, DigiflazzCallback
<1> QED
  BY <1>2, <1>3, <1>4, <1>5

\* No job goes round in circles: handlers, errors and crashes only ever leave
\* it fewer steps, so it ends after 7 * (MaxStalled + 1) of them at most.
THEOREM Jobs_Only_Go_On == Spec => JobsOnlyGoOn
<1>1. TypeOK /\ [Next]_vars =>
        [\A j \in Jobs :
           job[j].at # "none" =>
             \/ job'[j] = job[j]
             \/ StepsLeft(job'[j]) < StepsLeft(job[j])]_vars
  BY StepGoesOn
<1> QED
  BY <1>1, TypeCorrect, PTL DEF Spec, JobsOnlyGoOn

=============================================================================
