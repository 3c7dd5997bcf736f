------------------------------ MODULE Deposit ------------------------------
(***************************************************************************)
(* The life of a deposit: DepositService (createDeposit, cancelDeposit,    *)
(* updateStatusDeposit), CallbackService.paydisiniCallback for deposits,   *)
(* AutoService.handleExpiredDeposit and QueueConsumer.processDeposit.      *)
(*                                                                         *)
(* The processes are the HTTP requests, the cron job and the jobs of the   *)
(* Bull queue.  A request or a job is interrupted at every await, and the  *)
(* Node process may crash: requests and running handlers are lost, the     *)
(* database, the queue in Redis and the payment provider are not.          *)
(***************************************************************************)
EXTENDS Integers, FiniteSets

CONSTANTS
  Deposits,       \* deposits that may be created
  Requests,       \* HTTP requests that can be in progress at the same time
  Jobs,           \* BOUND: jobs named 'deposit' that may ever be added
  Concurrency,    \* jobs the consumer runs at the same time
  MaxStalled,     \* Bull: how often a stalled job is put back (default 1)
  MaxCrashes,     \* BOUND: crashes of the Node process
  AdminStatuses   \* depositStatus values an administrator writes

DepositStatus == {"PENDING", "PROCESS", "SUCCESS", "CANCELED", "EXPIRED"}

ASSUME ConcurrencyAssumption == Concurrency \in Nat \ {0}
ASSUME MaxStalledAssumption == MaxStalled \in Nat
ASSUME MaxCrashesAssumption == MaxCrashes \in Nat
ASSUME AdminAssumption == AdminStatuses \subseteq DepositStatus

VARIABLES
  status,    \* Deposit.depositStatus; "NONE": no committed row
  overdue,   \* deposits whose expiredAt is in the past
  invoice,   \* the payment at Paydisini
  request,   \* where each HTTP request is
  job,       \* the jobs in Redis and how far their handlers are
  credits,   \* BalanceMutation rows of type IN that refer to the deposit
  crashes,   \* crashes so far
  mark       \* history: what happened to each deposit, see Marks

vars == <<status, overdue, invoice, request, job, credits, crashes, mark>>

(***************************************************************************)
(* touched      an administrator set the status                            *)
(* reexecuted   a crash made Bull run a job again that had already         *)
(*              credited                                                   *)
(* overwritten  a cancellation replaced a status other than PENDING        *)
(* lost         a crash between the status update and queue.add, or        *)
(*              queue.add fails                                            *)
(* errored      a job ended by an error, or stalled too often              *)
(***************************************************************************)
Marks == {"touched", "reexecuted", "overwritten", "lost", "errored"}

Request == [at : {"idle"}] \cup
           [at : {"creating", "cancelling", "enqueueing"}, deposit : Deposits]

Job == [at : {"none"}] \cup
       [at : {"waiting", "found", "credited", "done"},
        deposit : Deposits, stalls : 0..MaxStalled]

Idle == [at |-> "idle"]

Running == {j \in Jobs : job[j].at \in {"found", "credited"}}

Enqueueing == {r \in Requests : request[r].at = "enqueueing"}

\* BOUND: a handler that will add a job starts only while one is left for it.
JobLeft == Cardinality({j \in Jobs : job[j].at = "none"}) >
           Cardinality(Enqueueing)

-----------------------------------------------------------------------------

Init ==
  /\ status = [d \in Deposits |-> "NONE"]
  /\ overdue = {}
  /\ invoice = [d \in Deposits |-> "none"]
  /\ request = [r \in Requests |-> Idle]
  /\ job = [j \in Jobs |-> [at |-> "none"]]
  /\ credits = [d \in Deposits |-> 0]
  /\ crashes = 0
  /\ mark = [d \in Deposits |-> {}]

-----------------------------------------------------------------------------
(* createDeposit: the row is inserted in a transaction that stays open     *)
(* while the payment is created at the provider.                           *)

CreatePayment(r, d) ==
  /\ request[r].at = "idle"
  /\ invoice[d] = "none"
  /\ invoice' = [invoice EXCEPT ![d] = "open"]
  /\ request' = [request EXCEPT ![r] = [at |-> "creating", deposit |-> d]]
  /\ UNCHANGED <<status, overdue, job, credits, crashes, mark>>

CreateCommit(r) ==
  /\ request[r].at = "creating"
  /\ status' = [status EXCEPT ![request[r].deposit] = "PENDING"]
  /\ request' = [request EXCEPT ![r] = Idle]
  /\ UNCHANGED <<overdue, invoice, job, credits, crashes, mark>>

\* The transaction's 20 seconds are over, or the update fails: the row is
\* rolled back, the payment at the provider stays.
CreateRollback(r) ==
  /\ request[r].at = "creating"
  /\ request' = [request EXCEPT ![r] = Idle]
  /\ UNCHANGED <<status, overdue, invoice, job, credits, crashes, mark>>

-----------------------------------------------------------------------------
(* The provider and the clock.                                             *)

\* The user pays, or Paydisini gives the payment up: cancelDeposit does not
\* tell the provider, so an open payment can be paid at any time.
SettleInvoice(d, outcome) ==
  /\ invoice[d] = "open"
  /\ invoice' = [invoice EXCEPT ![d] = outcome]
  /\ UNCHANGED <<status, overdue, request, job, credits, crashes, mark>>

PassDeadline(d) ==
  /\ status[d] # "NONE"
  /\ d \notin overdue
  /\ overdue' = overdue \cup {d}
  /\ UNCHANGED <<status, invoice, request, job, credits, crashes, mark>>

\* Mutant: the update does not ask for PENDING.
AcceptAnyCallback(r, d) ==
  /\ request[r].at = "idle"
  /\ JobLeft
  /\ invoice[d] \in {"paid", "canceled"}
  /\ status[d] # "NONE"
  /\ status' = [status EXCEPT ![d] = "PROCESS"]
  /\ request' = [request EXCEPT ![r] = [at |-> "enqueueing", deposit |-> d]]
  /\ UNCHANGED <<overdue, invoice, job, credits, crashes, mark>>

\* paydisiniCallback up to the await of queue.add.  The provider may send
\* the callback any number of times once the payment is settled; the update
\* asks for PENDING in its WHERE clause and is atomic.  Its status,
\* 'Success' or 'Canceled', is not looked at.  A callback that finds no
\* PENDING row is answered 'false' and changes nothing.
DepositCallback(r, d) ==
  /\ request[r].at = "idle"
  /\ JobLeft
  /\ invoice[d] \in {"paid", "canceled"}
  /\ status[d] = "PENDING"
  /\ status' = [status EXCEPT ![d] = "PROCESS"]
  /\ request' = [request EXCEPT ![r] = [at |-> "enqueueing", deposit |-> d]]
  /\ UNCHANGED <<overdue, invoice, job, credits, crashes, mark>>

\* Mutant: the handler ends without adding the job.
ForgetDepositJob(r) ==
  /\ request[r].at = "enqueueing"
  /\ request' = [request EXCEPT ![r] = Idle]
  /\ UNCHANGED <<status, overdue, invoice, job, credits, crashes, mark>>

\* addDepositProcessJob, for the callback and for the administrator.
AddDepositProcessJob(r) ==
  /\ request[r].at = "enqueueing"
  /\ \E j \in Jobs :
       /\ job[j].at = "none"
       /\ job' = [job EXCEPT ![j] =
            [at |-> "waiting", deposit |-> request[r].deposit, stalls |-> 0]]
  /\ request' = [request EXCEPT ![r] = Idle]
  /\ UNCHANGED <<status, overdue, invoice, credits, crashes, mark>>

\* queue.add throws: the catch answers 'false', or the administrator gets an
\* error, and the status stays PROCESS without a job.
QueueAddFails(r) ==
  /\ request[r].at = "enqueueing"
  /\ request' = [request EXCEPT ![r] = Idle]
  /\ mark' = [mark EXCEPT ![request[r].deposit] = @ \cup {"lost"}]
  /\ UNCHANGED <<status, overdue, invoice, job, credits, crashes>>

\* handleExpiredDeposit: one UPDATE of all pending deposits past expiredAt.
HandleExpiredDeposit ==
  LET expired == {d \in overdue : status[d] = "PENDING"}
  IN /\ expired # {}
     /\ status' = [d \in Deposits |->
                     IF d \in expired THEN "EXPIRED" ELSE status[d]]
     /\ UNCHANGED <<overdue, invoice, request, job, credits, crashes, mark>>

-----------------------------------------------------------------------------
(* cancelDeposit and updateStatusDeposit.                                  *)

\* findFirst with PENDING has answered.
CancelFind(r, d) ==
  /\ request[r].at = "idle"
  /\ status[d] = "PENDING"
  /\ request' = [request EXCEPT ![r] = [at |-> "cancelling", deposit |-> d]]
  /\ UNCHANGED <<status, overdue, invoice, job, credits, crashes, mark>>

\* The update names only the id, so it replaces whatever is there by now.
CancelWrite(r) ==
  LET d == request[r].deposit
  IN /\ request[r].at = "cancelling"
     /\ status' = [status EXCEPT ![d] = "CANCELED"]
     /\ request' = [request EXCEPT ![r] = Idle]
     /\ mark' = [mark EXCEPT ![d] =
          IF status[d] = "PENDING" THEN @ ELSE @ \cup {"overwritten"}]
     /\ UNCHANGED <<overdue, invoice, job, credits, crashes>>

\* The administrator may write any status over any other.  The condition on
\* the status found before (deposit.service.ts:426) holds for every status,
\* so a job follows whenever the new status is PROCESS.
UpdateStatusDeposit(r, d, new) ==
  /\ request[r].at = "idle"
  /\ new = "PROCESS" => JobLeft
  /\ status[d] # "NONE"
  /\ status' = [status EXCEPT ![d] = new]
  /\ request' = IF new = "PROCESS"
       THEN [request EXCEPT ![r] = [at |-> "enqueueing", deposit |-> d]]
       ELSE request
  /\ mark' = [mark EXCEPT ![d] = @ \cup {"touched"}]
  /\ UNCHANGED <<overdue, invoice, job, credits, crashes>>

-----------------------------------------------------------------------------
(* processDeposit.                                                         *)

\* Bull hands the job to the consumer and findUnique asks for PROCESS; any
\* other status ends the job, the error is swallowed.
FindDeposit(j) ==
  /\ job[j].at = "waiting"
  /\ Cardinality(Running) < Concurrency
  /\ job' = [job EXCEPT ![j].at =
       IF status[job[j].deposit] = "PROCESS" THEN "found" ELSE "done"]
  /\ UNCHANGED <<status, overdue, invoice, request, credits, crashes, mark>>

\* addBalance: committed by itself, not by the transaction around it.
CreditDeposit(j) ==
  /\ job[j].at = "found"
  /\ credits' = [credits EXCEPT ![job[j].deposit] = @ + 1]
  /\ job' = [job EXCEPT ![j].at = "credited"]
  /\ UNCHANGED <<status, overdue, invoice, request, crashes, mark>>

\* Mutant: the status is written before the balance.
FinishBeforeCredit(j) ==
  /\ job[j].at = "found"
  /\ status' = [status EXCEPT ![job[j].deposit] = "SUCCESS"]
  /\ job' = [job EXCEPT ![j].at = "credited"]
  /\ UNCHANGED <<overdue, invoice, request, credits, crashes, mark>>

\* tx.deposit.update to SUCCESS and the commit of the transaction.
FinishDeposit(j) ==
  /\ job[j].at = "credited"
  /\ status' = [status EXCEPT ![job[j].deposit] = "SUCCESS"]
  /\ job' = [job EXCEPT ![j].at = "done"]
  /\ UNCHANGED <<overdue, invoice, request, credits, crashes, mark>>

\* A query fails or the transaction is over its time: the catch swallows the
\* error, and for Bull the job is completed.
DepositJobError(j) ==
  /\ j \in Running
  /\ job' = [job EXCEPT ![j].at = "done"]
  /\ mark' = [mark EXCEPT ![job[j].deposit] = @ \cup {"errored"}]
  /\ UNCHANGED <<status, overdue, invoice, request, credits, crashes>>

-----------------------------------------------------------------------------

\* Mutant: a stalled job is put back every time.
AlwaysPutBack == Running

\* Stalled jobs that Bull puts back: MaxStalled times each, then they fail.
PutBack == {j \in Running : job[j].stalls < MaxStalled}

\* The Node process ends and starts again.  Requests in progress are gone,
\* jobs that were running stall.
Crash ==
  LET lost == {d \in Deposits :
                 \E r \in Enqueueing : request[r].deposit = d}
      rerun == {d \in Deposits : \E j \in PutBack :
                  job[j].deposit = d /\ job[j].at = "credited"}
      failed == {d \in Deposits :
                   \E j \in Running \ PutBack : job[j].deposit = d}
  IN /\ crashes < MaxCrashes
     /\ crashes' = crashes + 1
     /\ request' = [r \in Requests |-> Idle]
     /\ job' = [j \in Jobs |->
          IF j \in PutBack
            THEN [at |-> "waiting", deposit |-> job[j].deposit,
                  stalls |-> job[j].stalls + 1]
          ELSE IF j \in Running THEN [job[j] EXCEPT !.at = "done"]
          ELSE job[j]]
     /\ mark' = [d \in Deposits |-> mark[d]
          \cup (IF d \in lost THEN {"lost"} ELSE {})
          \cup (IF d \in rerun THEN {"reexecuted"} ELSE {})
          \cup (IF d \in failed THEN {"errored"} ELSE {})]
     /\ UNCHANGED <<status, overdue, invoice, credits>>

-----------------------------------------------------------------------------

RequestStarts(r) ==
  \E d \in Deposits :
    \/ CreatePayment(r, d)
    \/ DepositCallback(r, d)
    \/ CancelFind(r, d)
    \/ \E new \in AdminStatuses : UpdateStatusDeposit(r, d, new)

RequestGoesOn(r) ==
  \/ CreateCommit(r)
  \/ CreateRollback(r)
  \/ AddDepositProcessJob(r)
  \/ QueueAddFails(r)
  \/ CancelWrite(r)

JobGoesOn(j) ==
  \/ FindDeposit(j)
  \/ CreditDeposit(j)
  \/ FinishDeposit(j)
  \/ DepositJobError(j)

Environment ==
  \/ \E d \in Deposits :
       \/ \E outcome \in {"paid", "canceled"} : SettleInvoice(d, outcome)
       \/ PassDeadline(d)
  \/ Crash

Next ==
  \/ \E r \in Requests : RequestStarts(r) \/ RequestGoesOn(r)
  \/ \E j \in Jobs : JobGoesOn(j)
  \/ HandleExpiredDeposit
  \/ Environment

\* A handler that was started goes on, Bull hands out waiting jobs, and the
\* provider repeats its callback until the deposit is no longer PENDING.
\* Nothing makes a user cancel, an administrator act, the cron run before
\* the callback, or the process crash.
Fairness ==
  /\ \A r \in Requests : WF_vars(RequestGoesOn(r))
  /\ \A j \in Jobs : WF_vars(JobGoesOn(j))
  /\ \A d \in Deposits : WF_vars(\E r \in Requests : DepositCallback(r, d))

Spec == Init /\ [][Next]_vars /\ Fairness

-----------------------------------------------------------------------------

\* Every variable has its type.
TypeOK ==
  /\ status \in [Deposits -> DepositStatus \cup {"NONE"}]
  /\ overdue \subseteq Deposits
  /\ invoice \in [Deposits -> {"none", "open", "paid", "canceled"}]
  /\ request \in [Requests -> Request]
  /\ job \in [Jobs -> Job]
  /\ credits \in [Deposits -> Nat]
  /\ crashes \in 0..MaxCrashes
  /\ mark \in [Deposits -> SUBSET Marks]

\* A deposit is credited at most once, however callbacks, cancellations, the
\* cron and jobs interleave, unless an administrator set its status or Bull
\* ran a job again that had already credited (the credit of
\* queue.consumer.ts:172 is outside the transaction that records it).
CreditedOnceUnlessRerun ==
  \A d \in Deposits :
    credits[d] > 1 => mark[d] \cap {"touched", "reexecuted"} # {}

\* How bad a job that is run again can get: each crash costs at most one more
\* credit of a deposit, and there are never more of them than Bull puts a
\* stalled job back (queue.consumer.ts:150-199; maxStalledCount).
CreditsBoundedByReruns ==
  \A d \in Deposits :
    "touched" \notin mark[d] =>
      credits[d] <= 1 + crashes /\ credits[d] <= 1 + MaxStalled

\* The status tells whether the money was credited: SUCCESS means that it
\* was, PENDING, CANCELED and EXPIRED that it was not.  Only an administrator
\* or a cancellation that read PENDING too early can break this.
StatusTellsCredit ==
  \A d \in Deposits :
    mark[d] \cap {"touched", "overwritten"} = {} =>
      /\ status[d] = "SUCCESS" => credits[d] >= 1
      /\ status[d] \in {"NONE", "PENDING", "CANCELED", "EXPIRED"}
           => credits[d] = 0

\* The ways a payment of the user can fail to reach the balance: the row was
\* rolled back or never written, the deposit was cancelled or had expired
\* when the callback came, or a crash or an error ended its handling.
Forfeited(d) ==
  \/ /\ status[d] = "NONE"
     /\ \A r \in Requests : request[r].at = "creating" => request[r].deposit # d
  \/ status[d] \in {"CANCELED", "EXPIRED"}
  \/ mark[d] \cap {"touched", "lost", "errored"} # {}

\* A payment the user made is credited or ends in one of the ways above: it
\* is never left waiting by the interleaving of the handlers alone.
PaidIsCreditedOrForfeited ==
  \A d \in Deposits : invoice[d] = "paid" ~> credits[d] > 0 \/ Forfeited(d)

\* Who will bring a deposit on: the request that creates it, the provider that
\* repeats its callback, the request that will add its job, or the job.
Awaited(d) ==
  \/ \E r \in Requests :
       request[r].at = "creating" /\ request[r].deposit = d
  \/ status[d] = "PENDING"
  \/ /\ status[d] = "PROCESS"
     /\ \/ \E r \in Enqueueing : request[r].deposit = d
        \/ \E j \in Jobs : /\ job[j].at \in {"waiting", "found"}
                           /\ job[j].deposit = d

\* What lets PaidIsCreditedOrForfeited hold: no step of any handler leaves a
\* deposit that was paid, and neither credited nor forfeited, in a state from
\* which nobody goes on (callback.service.ts:40-58, queue.consumer.ts:150-199).
NothingForgotten ==
  \A d \in Deposits :
    invoice[d] = "paid" => credits[d] > 0 \/ Forfeited(d) \/ Awaited(d)

\* The steps a job has left in this run, and with all runs Bull may give it.
RunLeft(at) ==
  CASE at = "waiting"  -> 3
    [] at = "found"    -> 2
    [] at = "credited" -> 1
    [] OTHER           -> 0

StepsLeft(k) == 4 * (MaxStalled - k.stalls) + RunLeft(k.at)

\* No job goes round in circles: every change of it, by its handler, an error
\* or a crash, leaves it fewer steps (queue.consumer.ts:150-199).
JobsOnlyGoOn ==
  [][\A j \in Jobs :
       job[j].at # "none" =>
         \/ job'[j] = job[j]
         \/ StepsLeft(job'[j]) < StepsLeft(job[j])]_vars

\* No deposit that a callback moved to PROCESS falls back to PENDING, and a
\* closed one (SUCCESS, EXPIRED, CANCELED) is never processed again, unless
\* an administrator acts.
NeverReopened ==
  [][\A d \in Deposits :
       "touched" \notin mark'[d] =>
         /\ status[d] # "NONE" /\ status'[d] = "PENDING"
              => status[d] = "PENDING"
         /\ status'[d] = "PROCESS" => status[d] \in {"PENDING", "PROCESS"}
    ]_vars

\* The credit of a deposit keeps the promise of PayOnce: entitled once the
\* provider has settled the payment (as paid or as canceled: the callback
\* does not look at which), waived by an administrator or a job run again.
Promise == INSTANCE PayOnce WITH
  Items <- Deposits,
  entitled <- {d \in Deposits : invoice[d] \in {"paid", "canceled"}},
  waived <- {d \in Deposits : mark[d] \cap {"touched", "reexecuted"} # {}},
  payouts <- credits

\* Every step of a deposit is a step of PayOnce or changes nothing there: a
\* deposit is credited at most once, and never before it is settled.
KeepsPromise == Promise!Spec

\* What cancelDeposit says when it refuses ("Deposit not found, or status not
\* pending"): only a pending deposit is ever cancelled.
OnlyPendingIsCanceled ==
  [][\A d \in Deposits :
       /\ status'[d] = "CANCELED"
       /\ status[d] # "CANCELED"
       /\ "touched" \notin mark'[d]
       => status[d] = "PENDING"]_vars

\* What the two values of the callback's status say ('Success' | 'Canceled'):
\* a deposit is credited only if the provider reports that it was paid.
CreditedOnlyIfPaid ==
  \A d \in Deposits :
    credits[d] > 0 /\ "touched" \notin mark[d] => invoice[d] = "paid"

=============================================================================
