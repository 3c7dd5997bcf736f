---------------------------- MODULE Transaction ----------------------------
(***************************************************************************)
(* The life of an order: TransactionService (createTransaction and         *)
(* payInquiry from the payment on, cancelTransaction,                      *)
(* updateStatusTransaction), CallbackService (paydisiniCallback for        *)
(* transactions, digiflazzCallback), AutoService.handleExpiredTransaction  *)
(* and the jobs 'transaction' and 'refund' of QueueConsumer.               *)
(*                                                                         *)
(* An order row has four status fields that different handlers write       *)
(* without a common lock: paidStatus (payment callback, cron, cancel,      *)
(* administrator), orderStatus (job, supplier callback, cancel,            *)
(* administrator), isRefunded and refundStatus (jobs, administrator).      *)
(***************************************************************************)
EXTENDS Integers, FiniteSets, FiniteSetsExt

CONSTANTS
  Trx,            \* orders that may be created
  Requests,       \* HTTP requests that can be in progress at the same time
  Jobs,           \* BOUND: jobs that may ever be added
  Concurrency,    \* jobs the consumer runs at the same time
  MaxStalled,     \* Bull: how often a stalled job is put back (default 1)
  MaxCrashes,     \* BOUND: crashes of the Node process
  AdminChanges,   \* what an administrator may send: records of some fields
  AdminAgain      \* BOUND: may he open an order that he has changed before?

PaidStatus == {"PENDING", "PAID", "CANCELED", "EXPIRED"}
OrderStatus == {"PENDING", "PROCESS", "SUCCESS", "FAILED", "CANCELED"}
RefundStatus == {"NONE", "PENDING", "PROCESS", "SUCCESS", "FAILED"}

\* The status fields of a row of the table transactions, and whether it has a
\* userId; the paid status "NONE" stands for no committed row.
Row == [ofUser : BOOLEAN, paidStatus : PaidStatus \cup {"NONE"},
        orderStatus : OrderStatus, isRefunded : BOOLEAN,
        refundStatus : RefundStatus]

NewRow(ofUser, paid) ==
  [ofUser |-> ofUser, paidStatus |-> paid, orderStatus |-> "PENDING",
   isRefunded |-> FALSE, refundStatus |-> "NONE"]

\* What Digiflazz says of an order.
SupplierStatus == {"Pending", "Sukses", "Gagal"}

\* Prisma leaves a field alone that is not in the data (undefined).
Updated(row, data) ==
  [f \in DOMAIN row |-> IF f \in DOMAIN data THEN data[f] ELSE row[f]]

ASSUME BoundsAssumption ==
  /\ Concurrency \in Nat \ {0} /\ MaxStalled \in Nat /\ MaxCrashes \in Nat
  /\ AdminAgain \in BOOLEAN
ASSUME JobsAssumption == IsFiniteSet(Jobs)
ASSUME AdminAssumption ==
  \A row \in Row, data \in AdminChanges :
    /\ Updated(row, data) \in Row
    /\ row.paidStatus # "NONE" => Updated(row, data).paidStatus # "NONE"

VARIABLES
  row,       \* the table transactions
  overdue,   \* orders whose expiredAt is in the past
  invoice,   \* the payment at Paydisini; "saldo": debited from the balance
  supply,    \* the order at Digiflazz, by its ref_id, the id of the order
  notices,   \* supplier callbacks on their way: <<order, status they tell>>
  request,   \* where each HTTP request is
  job,       \* the jobs in Redis and how far their handlers are
  refunds,   \* BalanceMutation rows of type IN that refer to the order
  restocks,  \* increments of the product's stock made for the order
  crashes,   \* crashes so far
  mark       \* history: what happened to each order, see Marks

vars == <<row, overdue, invoice, supply, notices, request, job, refunds,
          restocks, crashes, mark>>

(***************************************************************************)
(* touched      an administrator changed the row                           *)
(* reexecuted   a crash made Bull run a job again that had refunded        *)
(* regressed    a true final status was replaced by an older answer        *)
(* misread      FAILED was written for an order the supplier had not       *)
(*              rejected: its callback tells Pending                       *)
(* late         the supplier rejected after it had answered Pending        *)
(* lost         a crash between a status update and queue.add, or          *)
(*              queue.add throws                                           *)
(* unrouted     the product was not one of Digiflazz when the job ran      *)
(* errored      a job ended by an error, or stalled too often              *)
(***************************************************************************)
Marks == {"touched", "reexecuted", "regressed", "misread", "late", "lost",
          "unrouted", "errored"}

JobNames == {"transaction", "refund"}

Idle == [at |-> "idle"]

Request ==
  [at : {"idle"}] \cup
  [at : {"creating"}, trx : Trx, ofUser : BOOLEAN] \cup
  [at : {"cancelling", "canceled"}, trx : Trx] \cup
  [at : {"updating"}, trx : Trx, paid : PaidStatus, refunded : BOOLEAN] \cup
  [at : {"enqueueing"}, trx : Trx, names : (SUBSET JobNames) \ {{}}]

\* answer is what the supplier said, while the job has not written it yet.
Job ==
  [at : {"none"}] \cup
  [at : {"waiting", "found", "ordered", "refunding", "refunded",
         "restocking", "done"},
   name : JobNames, trx : Trx, stalls : 0..MaxStalled,
   answer : SupplierStatus \cup {"none"}]

Running == {j \in Jobs : job[j].at \notin {"none", "waiting", "done"}}

Enqueueing == {r \in Requests : request[r].at = "enqueueing"}

\* BOUND: a handler that will add n jobs starts only while they are left.
JobsLeft(n) ==
  Cardinality({j \in Jobs : job[j].at = "none"}) >=
    n + MapThenSumSet(LAMBDA r : Cardinality(request[r].names), Enqueueing)

-----------------------------------------------------------------------------

Init ==
  /\ row = [t \in Trx |-> NewRow(FALSE, "NONE")]
  /\ overdue = {}
  /\ invoice = [t \in Trx |-> "none"]
  /\ supply = [t \in Trx |-> "none"]
  /\ notices = {}
  /\ request = [r \in Requests |-> Idle]
  /\ job = [j \in Jobs |-> [at |-> "none"]]
  /\ refunds = [t \in Trx |-> 0]
  /\ restocks = [t \in Trx |-> 0]
  /\ crashes = 0
  /\ mark = [t \in Trx |-> {}]

Goto(r, state) == request' = [request EXCEPT ![r] = state]

\* Mutant: a handler with no job to add does not end.
ToEnqueueAlways(r, t, names) ==
  Goto(r, [at |-> "enqueueing", trx |-> t, names |-> names])

ToEnqueue(r, t, names) ==
  IF names = {} THEN Goto(r, Idle)
  ELSE Goto(r, [at |-> "enqueueing", trx |-> t, names |-> names])

-----------------------------------------------------------------------------
(* createTransaction and payInquiry: the payment is made while the         *)
(* database transaction that inserts the row is open.                      *)

\* createPayment: Paydisini opens a payment; SALDO deducts the balance, and
\* commits that at once.  SALDO needs a user.
CreatePayment(r, t, ofUser, method) ==
  /\ request[r].at = "idle"
  /\ invoice[t] = "none"
  /\ method = "saldo" => ofUser /\ JobsLeft(1)
  /\ invoice' = [invoice EXCEPT ![t] = method]
  /\ Goto(r, [at |-> "creating", trx |-> t, ofUser |-> ofUser])
  /\ UNCHANGED <<row, overdue, supply, notices, job, refunds, restocks,
                 crashes, mark>>

\* The row is committed with the paidStatus of the payment; an order that is
\* paid already goes to the queue.
CreateCommit(r) ==
  LET t == request[r].trx
      paid == invoice[t] = "saldo"
  IN /\ request[r].at = "creating"
     /\ paid => JobsLeft(1)
     /\ row' = [row EXCEPT ![t] =
          NewRow(request[r].ofUser, IF paid THEN "PAID" ELSE "PENDING")]
     /\ ToEnqueue(r, t, IF paid THEN {"transaction"} ELSE {})
     /\ UNCHANGED <<overdue, invoice, supply, notices, job, refunds, restocks,
                    crashes, mark>>

\* The transaction fails or is over its time (20 seconds; 5 in payInquiry):
\* no row, but the payment or the debit stays.
CreateRollback(r) ==
  /\ request[r].at = "creating"
  /\ Goto(r, Idle)
  /\ UNCHANGED <<row, overdue, invoice, supply, notices, job, refunds,
                 restocks, crashes, mark>>

-----------------------------------------------------------------------------
(* The payment provider, the clock, and what they call.                    *)

SettleInvoice(t, outcome) ==
  /\ invoice[t] = "open"
  /\ invoice' = [invoice EXCEPT ![t] = outcome]
  /\ UNCHANGED <<row, overdue, supply, notices, request, job, refunds,
                 restocks, crashes, mark>>

PassDeadline(t) ==
  /\ row[t].paidStatus # "NONE"
  /\ t \notin overdue
  /\ overdue' = overdue \cup {t}
  /\ UNCHANGED <<row, invoice, supply, notices, request, job, refunds,
                 restocks, crashes, mark>>

\* Mutant: the update does not ask for PENDING.
CallbackUnguarded(r, t) ==
  /\ request[r].at = "idle"
  /\ JobsLeft(1)
  /\ invoice[t] \in {"paid", "canceled"}
  /\ row[t].paidStatus # "NONE"
  /\ t \notin overdue
  /\ row' = [row EXCEPT ![t].paidStatus =
               IF invoice[t] = "paid" THEN "PAID" ELSE "CANCELED"]
  /\ ToEnqueue(r, t, {"transaction"})
  /\ UNCHANGED <<overdue, invoice, supply, notices, job, refunds, restocks,
                 crashes, mark>>

\* Mutant: a canceled payment counts as paid, as it does for deposits.
CallbackAlwaysPaid(r, t) ==
  /\ request[r].at = "idle"
  /\ JobsLeft(1)
  /\ invoice[t] \in {"paid", "canceled"}
  /\ row[t].paidStatus = "PENDING"
  /\ t \notin overdue
  /\ row' = [row EXCEPT ![t].paidStatus = "PAID"]
  /\ ToEnqueue(r, t, {"transaction"})
  /\ UNCHANGED <<overdue, invoice, supply, notices, job, refunds, restocks,
                 crashes, mark>>

\* paydisiniCallback up to the await of queue.add.  The provider may send it
\* any number of times once the payment is settled; a callback for a row that
\* is not PENDING, or is overdue, is answered 'false' and changes nothing.
TransactionCallback(r, t) ==
  /\ request[r].at = "idle"
  /\ JobsLeft(1)
  /\ invoice[t] \in {"paid", "canceled"}
  /\ row[t].paidStatus = "PENDING"
  /\ t \notin overdue
  /\ row' = [row EXCEPT ![t].paidStatus =
               IF invoice[t] = "paid" THEN "PAID" ELSE "CANCELED"]
  /\ ToEnqueue(r, t, {"transaction"})
  /\ UNCHANGED <<overdue, invoice, supply, notices, job, refunds, restocks,
                 crashes, mark>>

\* Mutant: the handler ends without adding the job.
ForgetJob(r) ==
  /\ request[r].at = "enqueueing"
  /\ Goto(r, Idle)
  /\ UNCHANGED <<row, overdue, invoice, supply, notices, job, refunds,
                 restocks, crashes, mark>>

\* addTransactionProcessJob, and after it processRefund of QueueService.
AddJob(r) ==
  LET t == request[r].trx
      name == IF "transaction" \in request[r].names THEN "transaction"
              ELSE "refund"
  IN /\ request[r].at = "enqueueing"
     /\ \E j \in Jobs :
          /\ job[j].at = "none"
          /\ job' = [job EXCEPT ![j] =
               [at |-> "waiting", name |-> name, trx |-> t, stalls |-> 0,
                answer |-> "none"]]
     /\ ToEnqueue(r, t, request[r].names \ {name})
     /\ UNCHANGED <<row, overdue, invoice, supply, notices, refunds, restocks,
                    crashes, mark>>

\* queue.add throws (Redis does not answer): the handler ends by the error,
\* the payment callback with 'false', and nothing undoes the status.
QueueAddFails(r) ==
  /\ request[r].at = "enqueueing"
  /\ Goto(r, Idle)
  /\ mark' = [mark EXCEPT ![request[r].trx] = @ \cup {"lost"}]
  /\ UNCHANGED <<row, overdue, invoice, supply, notices, job, refunds,
                 restocks, crashes>>

\* handleExpiredTransaction: one UPDATE of paid_status alone.
HandleExpiredTransaction ==
  LET expired == {t \in overdue : row[t].paidStatus = "PENDING"}
  IN /\ expired # {}
     /\ row' = [t \in Trx |->
          IF t \in expired THEN [row[t] EXCEPT !.paidStatus = "EXPIRED"]
          ELSE row[t]]
     /\ UNCHANGED <<overdue, invoice, supply, notices, request, job, refunds,
                    restocks, crashes, mark>>

-----------------------------------------------------------------------------
(* cancelTransaction and updateStatusTransaction.                          *)

\* findFirst with PENDING has answered.
CancelFind(r, t) ==
  /\ request[r].at = "idle"
  /\ row[t].paidStatus = "PENDING"
  /\ Goto(r, [at |-> "cancelling", trx |-> t])
  /\ UNCHANGED <<row, overdue, invoice, supply, notices, job, refunds,
                 restocks, crashes, mark>>

\* Mutant: the answer of the provider is not looked at.
CancelPaymentIgnored(r) ==
  LET t == request[r].trx
  IN /\ request[r].at = "cancelling"
     /\ Goto(r, [at |-> "canceled", trx |-> t])
     /\ UNCHANGED <<row, overdue, invoice, supply, notices, job, refunds,
                    restocks, crashes, mark>>

\* cancelPayment: Paydisini cancels a payment that is still open, and says
\* so; otherwise the request ends with "Failed to cancel payment".
CancelPayment(r) ==
  LET t == request[r].trx
  IN /\ request[r].at = "cancelling"
     /\ IF invoice[t] = "open"
          THEN /\ invoice' = [invoice EXCEPT ![t] = "canceled"]
               /\ Goto(r, [at |-> "canceled", trx |-> t])
          ELSE Goto(r, Idle) /\ UNCHANGED invoice
     /\ UNCHANGED <<row, overdue, supply, notices, job, refunds, restocks,
                    crashes, mark>>

\* The update names only the id.
CancelWrite(r) ==
  /\ request[r].at = "canceled"
  /\ row' = [row EXCEPT ![request[r].trx] =
       Updated(@, [orderStatus |-> "CANCELED", paidStatus |-> "CANCELED"])]
  /\ Goto(r, Idle)
  /\ UNCHANGED <<overdue, invoice, supply, notices, job, refunds, restocks,
                 crashes, mark>>

UpdateStatusFind(r, t) ==
  /\ AdminChanges # {} /\ (AdminAgain \/ "touched" \notin mark[t])
  /\ request[r].at = "idle"
  /\ row[t].paidStatus # "NONE"
  /\ Goto(r, [at |-> "updating", trx |-> t, paid |-> row[t].paidStatus,
              refunded |-> row[t].isRefunded])
  /\ UNCHANGED <<row, overdue, invoice, supply, notices, job, refunds,
                 restocks, crashes, mark>>

\* The row is updated whatever it is by now; which jobs follow is decided by
\* comparing it with the row found before.
UpdateStatusWrite(r, data) ==
  LET t == request[r].trx
      new == Updated(row[t], data)
      names ==
        {n \in JobNames :
           \/ n = "transaction" /\ request[r].paid # "PAID"
                /\ new.paidStatus = "PAID"
           \/ n = "refund" /\ ~request[r].refunded /\ new.isRefunded}
  IN /\ request[r].at = "updating"
     /\ JobsLeft(Cardinality(names))
     /\ row' = [row EXCEPT ![t] = new]
     /\ mark' = [mark EXCEPT ![t] = @ \cup {"touched"}]
     /\ ToEnqueue(r, t, names)
     /\ UNCHANGED <<overdue, invoice, supply, notices, job, refunds, restocks,
                    crashes>>

-----------------------------------------------------------------------------
(* The jobs.                                                               *)

Move(j, at) == job' = [job EXCEPT ![j].at = at]

\* Bull hands out a job named 'transaction'; findUnique asks for PAID, and
\* the product is read: only h2hProvider DIGIFLAZZ (routed) has a case, for any
\* other provider, or a product that was deleted, the job ends here.
FindPaid(j, routed) ==
  LET t == job[j].trx
      paid == row[t].paidStatus = "PAID"
  IN /\ job[j].at = "waiting"
     /\ job[j].name = "transaction"
     /\ Cardinality(Running) < Concurrency
     /\ Move(j, IF paid /\ routed THEN "found" ELSE "done")
     /\ mark' = [mark EXCEPT ![t] =
          IF paid /\ ~routed THEN @ \cup {"unrouted"} ELSE @]
     /\ UNCHANGED <<row, overdue, invoice, supply, notices, request, refunds,
                    restocks, crashes>>

\* Bull hands out a job named 'refund'; findUnique asks for a paid order that
\* is to be refunded and is not yet.
FindToRefund(j) ==
  LET found == row[job[j].trx]
  IN /\ job[j].at = "waiting"
     /\ job[j].name = "refund"
     /\ Cardinality(Running) < Concurrency
     /\ Move(j, IF /\ found.paidStatus = "PAID"
                   /\ found.isRefunded
                   /\ found.refundStatus # "SUCCESS"
                THEN "refunding" ELSE "done")
     /\ UNCHANGED <<row, overdue, invoice, supply, notices, request, refunds,
                    restocks, crashes, mark>>

\* digiflazzService.createTransaction with the id of the order as ref_id: the
\* supplier takes the order once, and answers a repeated ref_id with where
\* the order is by now.
OrderAtSupplier(j, answer) ==
  LET t == job[j].trx
  IN /\ job[j].at = "found"
     /\ supply[t] \in {"none", answer}
     /\ supply' = [supply EXCEPT ![t] = answer]
     /\ job' = [job EXCEPT ![j].at = "ordered", ![j].answer = answer]
     /\ UNCHANGED <<row, overdue, invoice, notices, request, refunds,
                    restocks, crashes, mark>>

\* digiflazzCallback takes whatever is not 'Sukses' for a failure...
CallbackStatusOf(answer) == IF answer = "Sukses" THEN "SUCCESS" ELSE "FAILED"

\* ...the job knows 'Pending' too.
OrderStatusOf(answer) ==
  CASE answer = "Sukses"  -> "SUCCESS"
    [] answer = "Pending" -> "PROCESS"
    [] OTHER              -> "FAILED"

\* Mutant: the test for a user is inverted.
RefundsIfGuest(status, found) == status = "FAILED" /\ ~found.ofUser

\* A failed order of a user is refunded by the job itself.
Refunds(status, found) == status = "FAILED" /\ found.ofUser

\* What becomes of the truth when status is written to the orderStatus of t.
MarksOf(t, status) ==
  {m \in {"regressed"} : /\ supply[t] \in {"Sukses", "Gagal"}
                         /\ row[t].orderStatus = OrderStatusOf(supply[t])
                         /\ row[t].orderStatus # status} \cup
  {m \in {"misread"} : status = "FAILED" /\ supply[t] # "Gagal"}

\* The answer is written whatever the row says by now; a failed order is
\* marked for refund.
WriteOrderStatus(j) ==
  LET t == job[j].trx
      status == OrderStatusOf(job[j].answer)
      refund == Refunds(status, row[t])
  IN /\ job[j].at = "ordered"
     /\ row' = [row EXCEPT ![t] =
          [row[t] EXCEPT
            !.orderStatus = status,
            !.isRefunded = row[t].isRefunded \/ status = "FAILED",
            !.refundStatus = IF refund THEN "PROCESS" ELSE row[t].refundStatus]]
     /\ job' = [job EXCEPT ![j].at = IF refund THEN "refunding" ELSE "done",
                           ![j].answer = "none"]
     /\ mark' = [mark EXCEPT ![t] = @ \cup MarksOf(t, status)]
     /\ UNCHANGED <<overdue, invoice, supply, notices, request, refunds,
                    restocks, crashes>>

\* addBalance of the total price.  It throws for an order without a user.
Refund(j) ==
  /\ job[j].at = "refunding"
  /\ row[job[j].trx].ofUser
  /\ refunds' = [refunds EXCEPT ![job[j].trx] = @ + 1]
  /\ Move(j, "refunded")
  /\ UNCHANGED <<row, overdue, invoice, supply, notices, request, restocks,
                 crashes, mark>>

\* Mutant: the refund is recorded before the balance is changed.
RecordRefundFirst(j) ==
  /\ job[j].at = "refunding"
  /\ row' = [row EXCEPT ![job[j].trx].refundStatus = "SUCCESS"]
  /\ Move(j, "restocking")
  /\ UNCHANGED <<overdue, invoice, supply, notices, request, refunds,
                 restocks, crashes, mark>>

RecordRefund(j) ==
  /\ job[j].at = "refunded"
  /\ row' = [row EXCEPT ![job[j].trx].refundStatus = "SUCCESS"]
  /\ Move(j, "restocking")
  /\ UNCHANGED <<overdue, invoice, supply, notices, request, refunds,
                 restocks, crashes, mark>>

Restock(j) ==
  /\ job[j].at = "restocking"
  /\ restocks' = [restocks EXCEPT ![job[j].trx] = @ + 1]
  /\ Move(j, "done")
  /\ UNCHANGED <<row, overdue, invoice, supply, notices, request, refunds,
                 crashes, mark>>

\* Any await of the job throws: 'transaction' swallows the error, 'refund'
\* fails and has no further attempt.
JobError(j) ==
  /\ j \in Running
  /\ job' = [job EXCEPT ![j].at = "done", ![j].answer = "none"]
  /\ mark' = [mark EXCEPT ![job[j].trx] = @ \cup {"errored"}]
  /\ UNCHANGED <<row, overdue, invoice, supply, notices, request, refunds,
                 restocks, crashes>>

-----------------------------------------------------------------------------
(* The supplier, and crashes.                                              *)

\* An order that was Pending is delivered or rejected, and the shop is called.
SupplierSettles(t, outcome) ==
  /\ supply[t] = "Pending"
  /\ supply' = [supply EXCEPT ![t] = outcome]
  /\ notices' = notices \cup {<<t, outcome>>}
  /\ mark' = [mark EXCEPT ![t] =
                IF outcome = "Gagal" THEN @ \cup {"late"} ELSE @]
  /\ UNCHANGED <<row, overdue, invoice, request, job, refunds, restocks,
                 crashes>>

\* The supplier calls the shop, again or not, with where the order is by now:
\* the handler takes a callback that tells Pending, too.
SupplierNotifies(t) ==
  /\ supply[t] # "none"
  /\ notices' = notices \cup {<<t, supply[t]>>}
  /\ UNCHANGED <<row, overdue, invoice, supply, request, job, refunds,
                 restocks, crashes, mark>>

\* Mutant: only an order in PROCESS takes the status.
DigiflazzCallbackGuarded(t, said) ==
  LET status == IF row[t].orderStatus = "PROCESS" THEN CallbackStatusOf(said)
                ELSE row[t].orderStatus
  IN /\ <<t, said>> \in notices
     /\ notices' = notices \ {<<t, said>>}
     /\ row' = [row EXCEPT ![t].orderStatus = status]
     /\ UNCHANGED <<overdue, invoice, supply, request, job, refunds, restocks,
                    crashes, mark>>

\* digiflazzCallback: writes orderStatus alone, whatever it was and whatever
\* the supplier has said since; callbacks arrive in any order.
DigiflazzCallback(t, said) ==
  LET status == CallbackStatusOf(said)
  IN /\ <<t, said>> \in notices
     /\ notices' = notices \ {<<t, said>>}
     /\ row' = [row EXCEPT ![t].orderStatus = status]
     /\ mark' = [mark EXCEPT ![t] = @ \cup MarksOf(t, status)]
     /\ UNCHANGED <<overdue, invoice, supply, request, job, refunds, restocks,
                    crashes>>

\* Mutant: a stalled job is put back every time.
AlwaysPutBack == Running

PutBack == {j \in Running : job[j].stalls < MaxStalled}

\* The Node process ends and starts again: requests in progress are gone,
\* running jobs stall and are put back, MaxStalled times each.
Crash ==
  LET lost == {t \in Trx : \E r \in Enqueueing : request[r].trx = t}
      rerun == {t \in Trx : \E j \in PutBack :
                  job[j].trx = t /\ job[j].at \in {"refunded", "restocking"}}
      failed == {t \in Trx : \E j \in Running \ PutBack : job[j].trx = t}
  IN /\ crashes < MaxCrashes
     /\ crashes' = crashes + 1
     /\ request' = [r \in Requests |-> Idle]
     /\ job' = [j \in Jobs |->
          IF j \in PutBack
            THEN [job[j] EXCEPT !.at = "waiting", !.answer = "none",
                                !.stalls = job[j].stalls + 1]
          ELSE IF j \in Running
            THEN [job[j] EXCEPT !.at = "done", !.answer = "none"]
          ELSE job[j]]
     /\ mark' = [t \in Trx |-> mark[t]
          \cup (IF t \in lost THEN {"lost"} ELSE {})
          \cup (IF t \in rerun THEN {"reexecuted"} ELSE {})
          \cup (IF t \in failed THEN {"errored"} ELSE {})]
     /\ UNCHANGED <<row, overdue, invoice, supply, notices, refunds, restocks>>

-----------------------------------------------------------------------------

RequestStarts(r) ==
  \E t \in Trx :
    \/ \E ofUser \in BOOLEAN, method \in {"open", "saldo"} :
         CreatePayment(r, t, ofUser, method)
    \/ TransactionCallback(r, t)
    \/ CancelFind(r, t)
    \/ UpdateStatusFind(r, t)

RequestGoesOn(r) ==
  \/ CreateCommit(r)
  \/ CreateRollback(r)
  \/ AddJob(r)
  \/ QueueAddFails(r)
  \/ CancelPayment(r)
  \/ CancelWrite(r)
  \/ \E data \in AdminChanges : UpdateStatusWrite(r, data)

JobGoesOn(j) ==
  \/ \E routed \in BOOLEAN : FindPaid(j, routed)
  \/ FindToRefund(j)
  \/ \E answer \in SupplierStatus : OrderAtSupplier(j, answer)
  \/ WriteOrderStatus(j)
  \/ Refund(j)
  \/ RecordRefund(j)
  \/ Restock(j)
  \/ JobError(j)

Environment ==
  \/ \E t \in Trx :
       \/ \E outcome \in {"paid", "canceled"} : SettleInvoice(t, outcome)
       \/ PassDeadline(t)
       \/ \E outcome \in {"Sukses", "Gagal"} : SupplierSettles(t, outcome)
       \/ SupplierNotifies(t)
       \/ \E said \in SupplierStatus : DigiflazzCallback(t, said)
  \/ Crash

Next ==
  \/ \E r \in Requests : RequestStarts(r) \/ RequestGoesOn(r)
  \/ \E j \in Jobs : JobGoesOn(j)
  \/ HandleExpiredTransaction
  \/ Environment

\* Started handlers go on, Bull hands out waiting jobs, the payment provider
\* repeats its callback and the supplier's own arrive.  The payment callback gets
\* its turn (strong fairness) although other requests may use every slot of
\* Requests again and again: the server has no such limit.
Fairness ==
  /\ \A r \in Requests : WF_vars(RequestGoesOn(r))
  /\ \A j \in Jobs : WF_vars(JobGoesOn(j))
  /\ \A t \in Trx : SF_vars(\E r \in Requests : TransactionCallback(r, t))
  /\ \A t \in Trx, said \in SupplierStatus : WF_vars(DigiflazzCallback(t, said))

Spec == Init /\ [][Next]_vars /\ Fairness

-----------------------------------------------------------------------------

\* Every variable has its type.
TypeOK ==
  /\ row \in [Trx -> Row]
  /\ overdue \subseteq Trx
  /\ invoice \in [Trx -> {"none", "open", "saldo", "paid", "canceled"}]
  /\ supply \in [Trx -> SupplierStatus \cup {"none"}]
  /\ notices \subseteq Trx \X SupplierStatus
  /\ request \in [Requests -> Request]
  /\ job \in [Jobs -> Job]
  /\ refunds \in [Trx -> Nat]
  /\ restocks \in [Trx -> Nat]
  /\ crashes \in 0..MaxCrashes
  /\ mark \in [Trx -> SUBSET Marks]

Untouched(t) == "touched" \notin mark[t]

\* An order that is PAID stays PAID, whoever else holds a row that was PENDING
\* when it was read: the cancellation asks the provider first, so the write
\* that names only the id never meets a paid order.  Only an administrator
\* takes the status away.
PaidNeverUndone ==
  [][\A t \in Trx :
       row[t].paidStatus = "PAID" /\ "touched" \notin mark'[t]
         => row'[t].paidStatus = "PAID"]_vars

\* The supplier is asked only for orders that are PAID, and an order is PAID
\* only when the provider was paid or the balance debited.
GoodsOnlyForMoney ==
  \A t \in Trx :
    Untouched(t) =>
      /\ supply[t] # "none" => row[t].paidStatus = "PAID"
      /\ row[t].paidStatus = "PAID" => invoice[t] \in {"paid", "saldo"}

\* No order is both delivered and refunded, and no user is refunded for an
\* order the supplier may still deliver.
RefundOnlyIfRejected ==
  \A t \in Trx : Untouched(t) /\ refunds[t] > 0 => supply[t] = "Gagal"

\* An order is refunded at most once, unless an administrator acts or a job
\* that had refunded is run again.
RefundedOnceUnlessRerun ==
  \A t \in Trx :
    refunds[t] > 1 => mark[t] \cap {"touched", "reexecuted"} # {}

\* How bad a job that is run again can get: each crash costs at most one more
\* refund of an order, and there are never more of them than Bull puts a
\* stalled job back (queue.consumer.ts:106-131; maxStalledCount).
RefundsBoundedByReruns ==
  \A t \in Trx :
    Untouched(t) => refunds[t] <= 1 + crashes /\ refunds[t] <= 1 + MaxStalled

\* refundStatus SUCCESS means that the balance was credited, and the stock is
\* given back at most once for each refund.
RefundAccounts ==
  \A t \in Trx :
    /\ restocks[t] <= refunds[t]
    /\ Untouched(t) /\ row[t].refundStatus = "SUCCESS" => refunds[t] >= 1

\* A final orderStatus is true: SUCCESS only if the supplier delivered, FAILED
\* only if it rejected, although the job writes an answer that may be old and
\* callbacks arrive in any order; but a callback that tells Pending makes an
\* order FAILED that the supplier is still working on, or has delivered.
OrderStatusTruthful ==
  \A t \in Trx :
    Untouched(t) =>
      /\ row[t].orderStatus = "SUCCESS" => supply[t] = "Sukses"
      /\ row[t].orderStatus = "FAILED" =>
           supply[t] = "Gagal" \/ "misread" \in mark[t]

\* What stops an order between payment and supply.
Forfeited(t) ==
  \/ /\ row[t].paidStatus = "NONE"
     /\ \A r \in Requests : request[r].at = "creating" => request[r].trx # t
  \/ row[t].paidStatus \in {"CANCELED", "EXPIRED"}
  \/ t \in overdue /\ row[t].paidStatus = "PENDING"
  \/ mark[t] \cap {"touched", "lost", "unrouted", "errored"} # {}

\* A paid order reaches the supplier, unless its row was never committed, the
\* payment came too late, its product has no supplier with an implementation,
\* or a crash or an error ended its handling.
PaidIsOrdered ==
  \A t \in Trx :
    invoice[t] \in {"paid", "saldo"} ~> supply[t] # "none" \/ Forfeited(t)

\* The status of a settled order reaches the row, unless it was there and was
\* replaced by an older answer: of a job that was slower than the supplier's
\* callback, or of a callback that told Pending and was overtaken.
SettledIsReported ==
  \A t \in Trx :
    supply[t] \in {"Sukses", "Gagal"} ~>
      \/ row[t].orderStatus = OrderStatusOf(supply[t])
      \/ mark[t] \cap {"touched", "regressed", "unrouted", "errored"} # {}

\* A user whose order the supplier rejects is refunded, unless the rejection
\* came after a first answer Pending: the supplier callback does not refund
\* (or a crash made the job run again, and the product was changed since).
RejectedIsRefunded ==
  \A t \in Trx :
    supply[t] = "Gagal" /\ row[t].ofUser ~>
      \/ refunds[t] > 0
      \/ mark[t] \cap {"touched", "late", "unrouted", "errored"} # {}

\* The jobs that process an order.
Processing(t) ==
  {j \in Jobs : /\ job[j].at # "none"
               /\ job[j].name = "transaction" /\ job[j].trx = t}

\* Who will bring a paid order to the supplier: the request that creates it,
\* the provider that repeats its callback, the request that will add its job,
\* or the job.
OrderAwaited(t) ==
  \/ \E r \in Requests : request[r].at = "creating" /\ request[r].trx = t
  \/ row[t].paidStatus = "PENDING" /\ invoice[t] = "paid"
  \/ /\ row[t].paidStatus = "PAID"
     /\ \/ \E r \in Enqueueing :
             request[r].trx = t /\ "transaction" \in request[r].names
        \/ \E j \in Processing(t) : job[j].at \in {"waiting", "found"}

\* Who will ask the supplier and write its answer, or has it in hand.
AnswerAwaited(t) ==
  \E j \in Processing(t) :
    \/ row[t].paidStatus = "PAID" /\ job[j].at \in {"waiting", "found"}
    \/ job[j].at = "ordered" /\ job[j].answer = supply[t]

\* What lets PaidIsOrdered, SettledIsReported and RejectedIsRefunded hold: no
\* step of any handler leaves an order that is owed a delivery, a status or a
\* refund in a state from which nobody goes on, but for the exceptions named
\* there (callback.service.ts:57-68, 141-153, queue.consumer.ts:30-148).
NothingForgotten ==
  \A t \in Trx :
    /\ invoice[t] \in {"paid", "saldo"} =>
         supply[t] # "none" \/ Forfeited(t) \/ OrderAwaited(t)
    /\ supply[t] \in {"Sukses", "Gagal"} =>
         \/ row[t].orderStatus = OrderStatusOf(supply[t])
         \/ mark[t] \cap {"touched", "regressed", "unrouted", "errored"} # {}
         \/ <<t, supply[t]>> \in notices \/ AnswerAwaited(t)
    /\ supply[t] = "Gagal" /\ row[t].ofUser =>
         \/ refunds[t] > 0
         \/ mark[t] \cap {"touched", "late", "unrouted", "errored"} # {}
         \/ AnswerAwaited(t)
         \/ \E j \in Processing(t) : job[j].at = "refunding"

\* The steps a job has left in this run, and with all runs Bull may give it.
RunLeft(at) ==
  CASE at = "waiting"    -> 6
    [] at = "found"      -> 5
    [] at = "ordered"    -> 4
    [] at = "refunding"  -> 3
    [] at = "refunded"   -> 2
    [] at = "restocking" -> 1
    [] OTHER             -> 0

StepsLeft(k) == 7 * (MaxStalled - k.stalls) + RunLeft(k.at)

\* No job goes round in circles: every change of it, by its handler, an error
\* or a crash, leaves it fewer steps (queue.consumer.ts:30-148, 195-257).
JobsOnlyGoOn ==
  [][\A j \in Jobs :
       job[j].at # "none" =>
         \/ job'[j] = job[j]
         \/ StepsLeft(job'[j]) < StepsLeft(job[j])]_vars

\* The refund of an order keeps the promise of PayOnce: entitled once the
\* supplier has rejected the order, waived by an administrator or by a job
\* that is run again after it refunded.
Promise == INSTANCE PayOnce WITH
  Items <- Trx,
  entitled <- {t \in Trx : supply[t] = "Gagal"},
  waived <- {t \in Trx : mark[t] \cap {"touched", "reexecuted"} # {}},
  payouts <- refunds

\* Every step of an order is a step of PayOnce or changes nothing there: an
\* order is refunded at most once, and never before the supplier rejects it.
KeepsPromise == Promise!Spec

\* How the order looks from outside.
MoneyOf(state) ==
  CASE state \in {"paid", "saldo"} -> "in"
    [] state = "canceled"          -> "refused"
    [] OTHER                       -> "none"

GoodsOf(answer) ==
  CASE answer = "none"    -> "none"
    [] answer = "Pending" -> "asked"
    [] answer = "Sukses"  -> "delivered"
    [] OTHER              -> "rejected"

WordOf(status) ==
  CASE status = "SUCCESS"  -> "delivered"
    [] status = "FAILED"   -> "rejected"
    [] status = "CANCELED" -> "canceled"
    [] OTHER               -> "open"

Money == [t \in Trx |-> MoneyOf(invoice[t])]
Accepted == {t \in Trx : row[t].paidStatus = "PAID"}
Goods == [t \in Trx |-> GoodsOf(supply[t])]
Told == [t \in Trx |-> WordOf(row[t].orderStatus)]
Touched == {t \in Trx : "touched" \in mark[t]}
Reexecuted == {t \in Trx : "reexecuted" \in mark[t]}
Misread == {t \in Trx : "misread" \in mark[t]}

Order == INSTANCE AtomicOrder WITH
  Orders <- Trx,
  money <- Money,
  accepted <- Accepted,
  goods <- Goods,
  told <- Told,
  returns <- refunds,
  touched <- Touched,
  forgotten <- Reexecuted,
  misheard <- Misread

\* The handlers and jobs act as one shopkeeper: every step of theirs is a
\* step of AtomicOrder for one order, a crash, or not seen from outside.  That
\* he takes a supplier's 'Pending' for a rejection is AtomicOrder's Mishear.
ActsAsOneOrder == Order!Spec

\* What the refund job asks for (refundStatus: not 'SUCCESS'): an order that
\* was refunded is not refunded again.
RefundedAtMostOnce == \A t \in Trx : refunds[t] <= 1

=============================================================================
