--------------------------- MODULE DepositProofs ---------------------------
(***************************************************************************)
(* Theorems about Deposit, for any deposits, requests, jobs, concurrency,  *)
(* number of crashes and administrator.                                    *)
(*                                                                         *)
(* CreditedOnceUnlessRerun is not inductive.  RowInv says when a deposit   *)
(* has a committed row; OnceInv follows the right to credit a deposit from *)
(* the PENDING row to the handler that will add the job, to the job, and   *)
(* to the credit: at any time at most one of them holds it.  CarriedInv    *)
(* says that one of them does, or that the way it was dropped is marked.   *)
(* RerunInv counts the credits of a deposit by the runs of its job.        *)
(***************************************************************************)
EXTENDS Deposit, TLAPS

LEMMA RequestType ==
  ASSUME TypeOK, NEW r \in Requests, request[r].at # "idle"
  PROVE  /\ request[r].at \in {"creating", "cancelling", "enqueueing"}
         /\ request[r].deposit \in Deposits
BY DEF TypeOK, Request

LEMMA JobType ==
  ASSUME TypeOK, NEW j \in Jobs, job[j].at # "none"
  PROVE  /\ job[j] = [at |-> job[j].at, deposit |-> job[j].deposit,
                      stalls |-> job[j].stalls]
         /\ job[j].at \in {"waiting", "found", "credited", "done"}
         /\ job[j].deposit \in Deposits
         /\ job[j].stalls \in 0..MaxStalled
BY DEF TypeOK, Job

\* A request record of a deposit has its type, and so has Idle.
LEMMA RequestRecord ==
  /\ Idle \in Request
  /\ \A d \in Deposits, at \in {"creating", "cancelling", "enqueueing"} :
       [at |-> at, deposit |-> d] \in Request
BY DEF Idle, Request

\* Moving a job on leaves its deposit and its stalls.
LEMMA JobAt ==
  ASSUME TypeOK, NEW j \in Jobs, job[j].at # "none", NEW at
  PROVE  [job[j] EXCEPT !.at = at] =
           [at |-> at, deposit |-> job[j].deposit, stalls |-> job[j].stalls]
<1>1. PICK d \in Deposits, s \in 0..MaxStalled,
           a \in {"waiting", "found", "credited", "done"} :
        job[j] = [at |-> a, deposit |-> d, stalls |-> s]
  BY JobType
<1> QED
  BY <1>1

\* A job that is moved on is still a job.
LEMMA JobMoved ==
  ASSUME TypeOK, NEW j \in Jobs, job[j].at # "none",
         NEW at \in {"waiting", "found", "credited", "done"},
         job' = [job EXCEPT ![j].at = at]
  PROVE  job' \in [Jobs -> Job]
<1>1. [job[j] EXCEPT !.at = at] =
        [at |-> at, deposit |-> job[j].deposit, stalls |-> job[j].stalls]
  BY JobAt
<1>2. [job[j] EXCEPT !.at = at] \in Job
  BY <1>1, JobType DEF Job
<1> QED
  BY <1>2 DEF TypeOK

-----------------------------------------------------------------------------

\* The variables keep their types through every handler and every crash.
THEOREM TypeCorrect == Spec => []TypeOK
<1>1. Init => TypeOK
  BY MaxCrashesAssumption, RequestRecord DEF Init, TypeOK, Job
<1>2. TypeOK /\ [Next]_vars => TypeOK'
  <2> SUFFICES ASSUME TypeOK, [Next]_vars
               PROVE  TypeOK'
    OBVIOUS
  <2>1. ASSUME NEW r \in Requests, NEW d \in Deposits, CreatePayment(r, d)
        PROVE  TypeOK'
    BY <2>1, RequestRecord DEF CreatePayment, TypeOK
  <2>2. ASSUME NEW r \in Requests, NEW d \in Deposits, DepositCallback(r, d)
        PROVE  TypeOK'
    BY <2>2, RequestRecord DEF DepositCallback, TypeOK, DepositStatus
  <2>3. ASSUME NEW r \in Requests, NEW d \in Deposits, CancelFind(r, d)
        PROVE  TypeOK'
    BY <2>3, RequestRecord DEF CancelFind, TypeOK
  <2>4. ASSUME NEW r \in Requests, NEW d \in Deposits,
               NEW new \in AdminStatuses, UpdateStatusDeposit(r, d, new)
        PROVE  TypeOK'
    <3>1. mark' \in [Deposits -> SUBSET Marks]
      BY <2>4 DEF UpdateStatusDeposit, TypeOK, Marks
    <3>2. request' \in [Requests -> Request]
      BY <2>4, RequestRecord DEF UpdateStatusDeposit, TypeOK
    <3>3. status' \in [Deposits -> DepositStatus \cup {"NONE"}]
      BY <2>4, AdminAssumption DEF UpdateStatusDeposit, TypeOK
    <3> QED
      BY <2>4, <3>1, <3>2, <3>3 DEF UpdateStatusDeposit, TypeOK
  <2>5. ASSUME NEW r \in Requests, CreateCommit(r)
        PROVE  TypeOK'
    BY <2>5, RequestRecord DEF CreateCommit, TypeOK, DepositStatus
  <2>6. ASSUME NEW r \in Requests, CreateRollback(r)
        PROVE  TypeOK'
    BY <2>6, RequestRecord DEF CreateRollback, TypeOK
  <2>7. ASSUME NEW r \in Requests, AddDepositProcessJob(r)
        PROVE  TypeOK'
    <3>1. request[r].deposit \in Deposits
      BY <2>7, RequestType DEF AddDepositProcessJob
    <3>2. [at |-> "waiting", deposit |-> request[r].deposit, stalls |-> 0]
             \in Job
      BY <3>1, MaxStalledAssumption DEF Job
    <3> QED
      BY <2>7, <3>2, RequestRecord DEF AddDepositProcessJob, TypeOK
  <2>18. ASSUME NEW r \in Requests, QueueAddFails(r)
         PROVE  TypeOK'
    <3>1. mark' \in [Deposits -> SUBSET Marks]
      BY <2>18 DEF QueueAddFails, TypeOK, Marks
    <3> QED
      BY <2>18, <3>1, RequestRecord DEF QueueAddFails, TypeOK
  <2>8. ASSUME NEW r \in Requests, CancelWrite(r)
        PROVE  TypeOK'
    <3>1. mark' \in [Deposits -> SUBSET Marks]
      BY <2>8 DEF CancelWrite, TypeOK, Marks
    <3>2. request' \in [Requests -> Request]
      BY <2>8, RequestRecord DEF CancelWrite, TypeOK
    <3>3. status' \in [Deposits -> DepositStatus \cup {"NONE"}]
      BY <2>8 DEF CancelWrite, TypeOK, DepositStatus
    <3> QED
      BY <2>8, <3>1, <3>2, <3>3 DEF CancelWrite, TypeOK
  <2>9. ASSUME NEW j \in Jobs, FindDeposit(j)
        PROVE  TypeOK'
    <3>1. job' \in [Jobs -> Job]
      BY <2>9, JobMoved DEF FindDeposit
    <3> QED
      BY <2>9, <3>1 DEF FindDeposit, TypeOK
  <2>10. ASSUME NEW j \in Jobs, CreditDeposit(j)
         PROVE  TypeOK'
    <3>1. job' \in [Jobs -> Job]
      BY <2>10, JobMoved DEF CreditDeposit
    <3>2. credits' \in [Deposits -> Nat]
      <4>1. credits \in [Deposits -> Nat] /\ job[j].deposit \in Deposits
        BY <2>10, JobType DEF CreditDeposit, TypeOK
      <4> QED
        BY <2>10, <4>1 DEF CreditDeposit
    <3> QED
      BY <2>10, <3>1, <3>2 DEF CreditDeposit, TypeOK
  <2>11. ASSUME NEW j \in Jobs, FinishDeposit(j)
         PROVE  TypeOK'
    <3>1. job' \in [Jobs -> Job]
      BY <2>11, JobMoved DEF FinishDeposit
    <3> QED
      BY <2>11, <3>1 DEF FinishDeposit, TypeOK, DepositStatus
  <2>12. ASSUME NEW j \in Jobs, DepositJobError(j)
         PROVE  TypeOK'
    <3>1. job' \in [Jobs -> Job]
      BY <2>12, JobMoved DEF DepositJobError, Running
    <3>2. mark' \in [Deposits -> SUBSET Marks]
      BY <2>12 DEF DepositJobError, TypeOK, Marks
    <3> QED
      BY <2>12, <3>1, <3>2 DEF DepositJobError, TypeOK
  <2>13. CASE HandleExpiredDeposit
    BY <2>13 DEF HandleExpiredDeposit, TypeOK, DepositStatus
  <2>14. ASSUME NEW d \in Deposits, NEW outcome \in {"paid", "canceled"},
                SettleInvoice(d, outcome)
         PROVE  TypeOK'
    BY <2>14 DEF SettleInvoice, TypeOK
  <2>15. ASSUME NEW d \in Deposits, PassDeadline(d)
         PROVE  TypeOK'
    BY <2>15 DEF PassDeadline, TypeOK
  <2>16. CASE Crash
    <3>1. ASSUME NEW j \in Jobs
          PROVE  job'[j] \in Job
      <4>1. CASE j \in PutBack
        <5>1. /\ job[j].deposit \in Deposits
              /\ job[j].stalls \in 0..MaxStalled
              /\ job[j].stalls < MaxStalled
          BY <4>1, JobType DEF PutBack, Running
        <5>2. job[j].stalls + 1 \in 0..MaxStalled
          BY <5>1, MaxStalledAssumption
        <5> QED
          BY <2>16, <4>1, <5>1, <5>2 DEF Crash, Job
      <4>2. CASE j \in Running \ PutBack
        <5>1. job'[j] = [job[j] EXCEPT !.at = "done"]
          BY <2>16, <4>2 DEF Crash
        <5>2. job[j].at # "none"
          BY <4>2 DEF Running
        <5>3. [job[j] EXCEPT !.at = "done"] =
                [at |-> "done", deposit |-> job[j].deposit,
                 stalls |-> job[j].stalls]
          BY <5>2, JobAt
        <5> QED
          BY <5>1, <5>2, <5>3, JobType DEF Job
      <4>3. CASE j \notin Running /\ j \notin PutBack
        BY <2>16, <4>3 DEF Crash, TypeOK
      <4> QED
        BY <4>1, <4>2, <4>3
    <3>2. job' \in [Jobs -> Job]
      BY <2>16, <3>1 DEF Crash
    <3>3. mark' \in [Deposits -> SUBSET Marks]
      BY <2>16 DEF Crash, TypeOK, Marks
    <3>4. crashes' \in 0..MaxCrashes
      BY <2>16, MaxCrashesAssumption DEF Crash, TypeOK
    <3> QED
      BY <2>16, <3>2, <3>3, <3>4, RequestRecord DEF Crash, TypeOK
  <2>17. CASE UNCHANGED vars
    BY <2>17 DEF vars, TypeOK
  <2> QED
    BY <2>1, <2>2, <2>3, <2>4, <2>5, <2>6, <2>7, <2>8, <2>9, <2>10, <2>11,
       <2>12, <2>13, <2>14, <2>15, <2>16, <2>17, <2>18
       DEF Next, RequestStarts, RequestGoesOn, JobGoesOn, Environment
<1> QED
  BY <1>1, <1>2, PTL DEF Spec

-----------------------------------------------------------------------------

\* Request r holds the right to credit d: it will add the job.
WillEnqueue(r, d) == request[r].at = "enqueueing" /\ request[r].deposit = d

\* Job j was added for d.
JobOf(j, d) == job[j].at # "none" /\ job[j].deposit = d

\* While a deposit is being created it has no committed row and no second
\* request creates it; everything else that refers to it found a row.
RowInv ==
  /\ \A d \in Deposits : invoice[d] = "none" => status[d] = "NONE"
  /\ \A r \in Requests : request[r].at = "creating" =>
       /\ invoice[request[r].deposit] # "none"
       /\ status[request[r].deposit] = "NONE"
       /\ \A q \in Requests :
            request[q].at = "creating" /\ request[q].deposit = request[r].deposit
              => q = r
  /\ \A r \in Requests : request[r].at \in {"cancelling", "enqueueing"} =>
       status[request[r].deposit] # "NONE"
  /\ \A j \in Jobs : job[j].at # "none" => status[job[j].deposit] # "NONE"

\* No administrator set the status and no job was run again after crediting.
Undisturbed(d) == mark[d] \cap {"touched", "reexecuted"} = {}

\* At most one of a PENDING (or not yet committed) row, a handler about to
\* add the job, a job that has not credited, and a credit exists.
OnceInv(d) ==
  Undisturbed(d) =>
    /\ credits[d] <= 1
    /\ status[d] \in {"NONE", "PENDING"} =>
         /\ credits[d] = 0
         /\ \A r \in Requests : ~WillEnqueue(r, d)
         /\ \A j \in Jobs : ~JobOf(j, d)
    /\ \A r \in Requests : WillEnqueue(r, d) =>
         /\ credits[d] = 0
         /\ \A q \in Requests : WillEnqueue(q, d) => q = r
         /\ \A j \in Jobs : ~JobOf(j, d)
    /\ \A j \in Jobs : JobOf(j, d) =>
         /\ \A i \in Jobs : JobOf(i, d) => i = j
         /\ job[j].at \in {"waiting", "found"} => credits[d] = 0

LEMMA InitInv == Init => RowInv /\ \A d \in Deposits : OnceInv(d)
BY DEF Init, Idle, RowInv, OnceInv, WillEnqueue, JobOf

-----------------------------------------------------------------------------
(* RowInv is preserved.  Only the creating request can write the first     *)
(* status of a deposit, and the status never becomes "NONE" again.         *)

\* A step that changes one request, and otherwise only the status of a
\* deposit that has a row to another status, keeps RowInv.
LEMMA RequestKeepsRow ==
  ASSUME TypeOK, RowInv, NEW r \in Requests, NEW d \in Deposits,
         NEW new \in DepositStatus,
         \/ status' = status
         \/ status[d] # "NONE" /\ status' = [status EXCEPT ![d] = new],
         invoice' = invoice, job' = job,
         \/ request' = request
         \/ request' = [request EXCEPT ![r] = Idle]
         \/ /\ status[d] # "NONE"
            /\ \E at \in {"cancelling", "enqueueing"} :
                 request' = [request EXCEPT ![r] = [at |-> at, deposit |-> d]]
  PROVE  RowInv'
<1>1. \A e \in Deposits : status'[e] = "NONE" <=> status[e] = "NONE"
  BY DEF TypeOK, DepositStatus
<1>2. \A q \in Requests \ {r} : request'[q] = request[q]
  BY DEF TypeOK
<1>3. \/ request'[r] = request[r]
      \/ request'[r].at = "idle"
      \/ /\ request'[r].at \in {"cancelling", "enqueueing"}
         /\ request'[r].deposit = d
         /\ status[d] # "NONE"
  BY DEF TypeOK, Idle
<1>4. \A q \in Requests : request[q].at # "idle" => request[q].deposit \in Deposits
  BY RequestType
<1>5. \A j \in Jobs : job[j].at # "none" => job[j].deposit \in Deposits
  BY JobType
<1>6. \A e \in Deposits : invoice'[e] = "none" => status'[e] = "NONE"
  BY <1>1 DEF RowInv
<1>7. ASSUME NEW q \in Requests, request'[q].at = "creating"
      PROVE  /\ request[q].at = "creating"
             /\ request'[q] = request[q]
  BY <1>2, <1>3, <1>7
<1>8. \A q \in Requests : request'[q].at = "creating" =>
        /\ invoice'[request'[q].deposit] # "none"
        /\ status'[request'[q].deposit] = "NONE"
        /\ \A p \in Requests :
             request'[p].at = "creating" /\ request'[p].deposit = request'[q].deposit
               => p = q
  BY <1>1, <1>4, <1>7 DEF RowInv
<1>9. \A q \in Requests : request'[q].at \in {"cancelling", "enqueueing"} =>
        status'[request'[q].deposit] # "NONE"
  BY <1>1, <1>2, <1>3, <1>4 DEF RowInv
<1>10. \A j \in Jobs : job'[j].at # "none" => status'[job'[j].deposit] # "NONE"
  BY <1>1, <1>5 DEF RowInv
<1> QED
  BY <1>6, <1>8, <1>9, <1>10 DEF RowInv

\* A step of a job moves it on and may set its deposit's status.
LEMMA JobKeepsRow ==
  ASSUME TypeOK, RowInv, NEW j \in Jobs, job[j].at # "none", NEW at, at # "none",
         job' = [job EXCEPT ![j].at = at],
         \/ status' = status
         \/ \E new \in DepositStatus :
               status' = [status EXCEPT ![job[j].deposit] = new],
         invoice' = invoice, request' = request
  PROVE  RowInv'
<1>1. \A i \in Jobs : job[i].at # "none" => job[i].deposit \in Deposits
  BY JobType
<1>2. status[job[j].deposit] # "NONE"
  BY DEF RowInv
<1>3. \A e \in Deposits : status'[e] = "NONE" <=> status[e] = "NONE"
  BY <1>1, <1>2 DEF TypeOK, DepositStatus
<1>4. /\ \A i \in Jobs \ {j} : job'[i] = job[i]
      /\ job'[j].deposit = job[j].deposit
  BY JobAt DEF TypeOK
<1>5. \A q \in Requests : request[q].at # "idle" => request[q].deposit \in Deposits
  BY RequestType
<1>6. \A i \in Jobs : job'[i].at # "none" => status'[job'[i].deposit] # "NONE"
  BY <1>1, <1>2, <1>3, <1>4 DEF RowInv
<1>7. \A e \in Deposits : invoice'[e] = "none" => status'[e] = "NONE"
  BY <1>3 DEF RowInv
<1> QED
  BY <1>3, <1>5, <1>6, <1>7 DEF RowInv

LEMMA CreateKeepsRow ==
  ASSUME TypeOK, RowInv, NEW r \in Requests,
         \/ \E d \in Deposits : CreatePayment(r, d)
         \/ CreateCommit(r)
         \/ CreateRollback(r)
         \/ QueueAddFails(r)
  PROVE  RowInv'
<1>1. \A q \in Requests : request[q].at # "idle" => request[q].deposit \in Deposits
  BY RequestType
<1>2. \A j \in Jobs : job[j].at # "none" => job[j].deposit \in Deposits
  BY JobType
<1>3. ASSUME NEW d \in Deposits, CreatePayment(r, d)
      PROVE  RowInv'
  <2>1. /\ invoice'[d] = "open"
        /\ \A e \in Deposits \ {d} : invoice'[e] = invoice[e]
        /\ request'[r] = [at |-> "creating", deposit |-> d]
        /\ \A q \in Requests \ {r} : request'[q] = request[q]
        /\ invoice[d] = "none"
        /\ status[d] = "NONE"
    BY <1>3 DEF CreatePayment, TypeOK, RowInv
  <2>2. \A q \in Requests \ {r} :
          request[q].at = "creating" => request[q].deposit # d
    BY <2>1 DEF RowInv
  <2>3. status' = status /\ job' = job
    BY <1>3 DEF CreatePayment
  <2>4. \A e \in Deposits : invoice'[e] = "none" => status'[e] = "NONE"
    BY <2>1, <2>3 DEF RowInv
  <2>5. \A q \in Requests : request'[q].at = "creating" =>
          /\ invoice'[request'[q].deposit] # "none"
          /\ status'[request'[q].deposit] = "NONE"
          /\ \A p \in Requests :
               /\ request'[p].at = "creating"
               /\ request'[p].deposit = request'[q].deposit
               => p = q
    BY <1>1, <2>1, <2>2, <2>3 DEF RowInv
  <2>6. \A q \in Requests : request'[q].at \in {"cancelling", "enqueueing"} =>
          status'[request'[q].deposit] # "NONE"
    BY <2>1, <2>3 DEF RowInv
  <2> QED
    BY <2>3, <2>4, <2>5, <2>6 DEF RowInv
<1>4. ASSUME CreateCommit(r)
      PROVE  RowInv'
  <2> PICK d \in Deposits : d = request[r].deposit
    BY <1>1, <1>4 DEF CreateCommit
  <2>1. /\ request[r].at = "creating"
        /\ status[d] = "NONE"
        /\ invoice[d] # "none"
        /\ \A q \in Requests \ {r} :
             request[q].at = "creating" => request[q].deposit # d
    BY <1>4 DEF CreateCommit, RowInv
  <2>2. /\ status'[d] = "PENDING"
        /\ \A e \in Deposits \ {d} : status'[e] = status[e]
        /\ request'[r].at = "idle"
        /\ \A q \in Requests \ {r} : request'[q] = request[q]
        /\ invoice' = invoice
        /\ job' = job
    BY <1>4 DEF CreateCommit, TypeOK, Idle
  <2>3. \A e \in Deposits : invoice'[e] = "none" => status'[e] = "NONE"
    BY <2>1, <2>2 DEF RowInv
  <2>4. \A q \in Requests : request'[q].at = "creating" =>
          /\ q # r
          /\ request[q].at = "creating"
          /\ request[q].deposit \in Deposits \ {d}
    BY <1>1, <2>1, <2>2
  <2>5. \A q \in Requests : request'[q].at = "creating" =>
          /\ invoice'[request'[q].deposit] # "none"
          /\ status'[request'[q].deposit] = "NONE"
          /\ \A p \in Requests :
               /\ request'[p].at = "creating"
               /\ request'[p].deposit = request'[q].deposit
               => p = q
    BY <2>2, <2>4 DEF RowInv
  <2>6. \A q \in Requests : request'[q].at \in {"cancelling", "enqueueing"} =>
          status'[request'[q].deposit] # "NONE"
    BY <1>1, <2>2 DEF RowInv
  <2>7. \A j \in Jobs : job'[j].at # "none" => status'[job'[j].deposit] # "NONE"
    BY <1>2, <2>2 DEF RowInv
  <2> QED
    BY <2>3, <2>5, <2>6, <2>7 DEF RowInv
<1>5. ASSUME CreateRollback(r) \/ QueueAddFails(r)
      PROVE  RowInv'
  <2>1. /\ request'[r].at = "idle"
        /\ \A q \in Requests \ {r} : request'[q] = request[q]
        /\ status' = status /\ invoice' = invoice /\ job' = job
    BY <1>5 DEF CreateRollback, QueueAddFails, TypeOK, Idle
  <2> QED
    BY <2>1 DEF RowInv
<1> QED
  BY <1>3, <1>4, <1>5

\* Adding the job and a crash.
LEMMA EnqueueKeepsRow ==
  ASSUME TypeOK, RowInv, NEW r \in Requests, AddDepositProcessJob(r)
  PROVE  RowInv'
<1> PICK d \in Deposits : d = request[r].deposit
  BY RequestType DEF AddDepositProcessJob
<1> PICK j \in Jobs :
      /\ job[j].at = "none"
      /\ job' = [job EXCEPT ![j] = [at |-> "waiting", deposit |-> d, stalls |-> 0]]
  BY DEF AddDepositProcessJob
<1>1. /\ status[d] # "NONE"
      /\ request[r].at = "enqueueing"
      /\ request'[r].at = "idle"
      /\ \A q \in Requests \ {r} : request'[q] = request[q]
      /\ status' = status
      /\ invoice' = invoice
  BY DEF AddDepositProcessJob, TypeOK, Idle, RowInv
<1>2. /\ job'[j].deposit = d
      /\ \A i \in Jobs \ {j} : job'[i] = job[i]
  BY DEF TypeOK
<1> QED
  BY <1>1, <1>2 DEF RowInv

LEMMA CrashKeepsRow ==
  ASSUME TypeOK, RowInv, Crash
  PROVE  RowInv'
<1>1. \A r \in Requests : request'[r].at = "idle"
  BY DEF Crash, Idle
<1>2. ASSUME NEW j \in Jobs, job'[j].at # "none"
      PROVE  job[j].at # "none" /\ job'[j].deposit = job[j].deposit
  <2>1. CASE j \in PutBack
    BY <2>1 DEF Crash, PutBack, Running
  <2>2. CASE j \in Running \ PutBack
    BY <2>2, JobAt DEF Crash, Running
  <2>3. CASE j \notin PutBack /\ j \notin Running
    BY <1>2, <2>3 DEF Crash
  <2> QED
    BY <2>1, <2>2, <2>3
<1>3. status' = status /\ invoice' = invoice
  BY DEF Crash
<1> QED
  BY <1>1, <1>2, <1>3 DEF RowInv

LEMMA NextKeepsRow ==
  ASSUME TypeOK, RowInv, [Next]_vars
  PROVE  RowInv'
<1>1. ASSUME NEW r \in Requests, NEW d \in Deposits, DepositCallback(r, d)
      PROVE  RowInv'
  BY <1>1, RequestKeepsRow DEF DepositCallback, DepositStatus
<1>2. ASSUME NEW r \in Requests, NEW d \in Deposits, CancelFind(r, d)
      PROVE  RowInv'
  BY <1>2, RequestKeepsRow DEF CancelFind, DepositStatus
<1>3. ASSUME NEW r \in Requests, NEW d \in Deposits,
             NEW new \in AdminStatuses, UpdateStatusDeposit(r, d, new)
      PROVE  RowInv'
  BY <1>3, RequestKeepsRow, AdminAssumption DEF UpdateStatusDeposit
<1>4. ASSUME NEW r \in Requests, CancelWrite(r)
      PROVE  RowInv'
  <2> PICK d \in Deposits : d = request[r].deposit
    BY <1>4, RequestType DEF CancelWrite
  <2>1. status[d] # "NONE"
    BY <1>4 DEF CancelWrite, RowInv
  <2> QED
    BY <1>4, <2>1, RequestKeepsRow DEF CancelWrite, DepositStatus
<1>5. ASSUME NEW r \in Requests,
             CreateCommit(r) \/ CreateRollback(r) \/ QueueAddFails(r)
               \/ \E d \in Deposits : CreatePayment(r, d)
      PROVE  RowInv'
  BY <1>5, CreateKeepsRow
<1>6. ASSUME NEW r \in Requests, AddDepositProcessJob(r)
      PROVE  RowInv'
  BY <1>6, EnqueueKeepsRow
<1>7. ASSUME NEW j \in Jobs, FindDeposit(j)
      PROVE  RowInv'
  BY <1>7, JobKeepsRow DEF FindDeposit
<1>8. ASSUME NEW j \in Jobs, CreditDeposit(j)
      PROVE  RowInv'
  BY <1>8, JobKeepsRow DEF CreditDeposit
<1>9. ASSUME NEW j \in Jobs, FinishDeposit(j)
      PROVE  RowInv'
  BY <1>9, JobKeepsRow DEF FinishDeposit, DepositStatus
<1>10. ASSUME NEW j \in Jobs, DepositJobError(j)
       PROVE  RowInv'
  BY <1>10, JobKeepsRow DEF DepositJobError, Running
<1>11. CASE HandleExpiredDeposit
  <2>1. \A d \in Deposits : status'[d] = "NONE" <=> status[d] = "NONE"
    BY <1>11 DEF HandleExpiredDeposit
  <2>2. /\ invoice' = invoice /\ job' = job /\ request' = request
    BY <1>11 DEF HandleExpiredDeposit
  <2>3. \A q \in Requests : request[q].at # "idle" => request[q].deposit \in Deposits
    BY RequestType
  <2>4. \A i \in Jobs : job[i].at # "none" => job[i].deposit \in Deposits
    BY JobType
  <2> QED
    BY <2>1, <2>2, <2>3, <2>4 DEF RowInv
<1>12. ASSUME NEW d \in Deposits, NEW outcome \in {"paid", "canceled"},
              SettleInvoice(d, outcome)
       PROVE  RowInv'
  <2>1. \A e \in Deposits : invoice'[e] = "none" <=> invoice[e] = "none"
    BY <1>12 DEF SettleInvoice, TypeOK
  <2>2. /\ status' = status /\ job' = job /\ request' = request
    BY <1>12 DEF SettleInvoice
  <2>3. \A q \in Requests : request[q].at # "idle" => request[q].deposit \in Deposits
    BY RequestType
  <2> QED
    BY <2>1, <2>2, <2>3 DEF RowInv
<1>13. ASSUME NEW d \in Deposits, PassDeadline(d)
       PROVE  RowInv'
  BY <1>13 DEF PassDeadline, RowInv
<1>14. CASE Crash
  BY <1>14, CrashKeepsRow
<1>15. CASE UNCHANGED vars
  BY <1>15 DEF vars, RowInv
<1> QED
  BY <1>1, <1>2, <1>3, <1>4, <1>5, <1>6, <1>7, <1>8, <1>9, <1>10, <1>11,
     <1>12, <1>13, <1>14, <1>15
     DEF Next, RequestStarts, RequestGoesOn, JobGoesOn, Environment

-----------------------------------------------------------------------------
(* OnceInv is preserved.                                                   *)

\* A step that creates no new right to credit d keeps OnceInv(d).
LEMMA NoNewRight ==
  ASSUME NEW d \in Deposits, OnceInv(d),
         Undisturbed(d)' =>
           /\ Undisturbed(d)
           /\ credits'[d] = credits[d]
           /\ status'[d] \in {"NONE", "PENDING"} => status[d] \in {"NONE", "PENDING"}
           /\ \A r \in Requests : WillEnqueue(r, d)' => WillEnqueue(r, d)
           /\ \A j \in Jobs : JobOf(j, d)' =>
                /\ JobOf(j, d)
                /\ job'[j].at \in {"waiting", "found"} =>
                     job[j].at \in {"waiting", "found"}
  PROVE  OnceInv(d)'
BY DEF OnceInv

\* A request step that does not start or end an "enqueueing".
LEMMA RequestKeepsOnce ==
  ASSUME TypeOK, NEW d \in Deposits, OnceInv(d), NEW r \in Requests,
         request' = request \/ \E new : /\ new.at # "enqueueing"
                                       /\ request' = [request EXCEPT ![r] = new],
         job' = job, credits' = credits, mark[d] \subseteq mark'[d],
         status'[d] \in {"NONE", "PENDING"} => status[d] \in {"NONE", "PENDING"}
  PROVE  OnceInv(d)'
<1>1. \A q \in Requests : WillEnqueue(q, d)' => WillEnqueue(q, d)
  BY DEF WillEnqueue, TypeOK
<1>2. \A j \in Jobs : JobOf(j, d)' => JobOf(j, d)
  BY DEF JobOf
<1>3. Undisturbed(d)' => Undisturbed(d)
  BY DEF Undisturbed
<1> QED
  BY <1>1, <1>2, <1>3, NoNewRight

\* A job step that neither credits nor puts the job back.
LEMMA JobKeepsOnce ==
  ASSUME TypeOK, NEW d \in Deposits, OnceInv(d), NEW j \in Jobs,
         job[j].at # "none", NEW at \in {"found", "done"},
         at = "found" => job[j].at = "waiting",
         job' = [job EXCEPT ![j].at = at],
         request' = request, credits' = credits, mark[d] \subseteq mark'[d],
         status'[d] \in {"NONE", "PENDING"} => status[d] \in {"NONE", "PENDING"}
  PROVE  OnceInv(d)'
<1>1. /\ \A i \in Jobs \ {j} : job'[i] = job[i]
      /\ job'[j].deposit = job[j].deposit
      /\ job'[j].at = at
  BY JobAt DEF TypeOK
<1>2. \A i \in Jobs : JobOf(i, d)' =>
        /\ JobOf(i, d)
        /\ job'[i].at \in {"waiting", "found"} => job[i].at \in {"waiting", "found"}
  BY <1>1 DEF JobOf
<1>3. \A q \in Requests : WillEnqueue(q, d)' => WillEnqueue(q, d)
  BY DEF WillEnqueue
<1>4. Undisturbed(d)' => Undisturbed(d)
  BY DEF Undisturbed
<1> QED
  BY <1>2, <1>3, <1>4, NoNewRight

\* The callback takes the right from the PENDING row.
LEMMA CallbackKeepsOnce ==
  ASSUME TypeOK, NEW d \in Deposits, OnceInv(d),
         NEW r \in Requests, NEW e \in Deposits, DepositCallback(r, e)
  PROVE  OnceInv(d)'
<1>1. /\ request'[r] = [at |-> "enqueueing", deposit |-> e]
      /\ request[r].at = "idle"
      /\ \A q \in Requests \ {r} : request'[q] = request[q]
      /\ job' = job /\ credits' = credits /\ mark' = mark
      /\ status[e] = "PENDING" /\ status'[e] = "PROCESS"
      /\ d # e => status'[d] = status[d]
  BY DEF DepositCallback, TypeOK
<1>2. CASE d = e
  <2>1. \A q \in Requests : WillEnqueue(q, d)' => q = r \/ WillEnqueue(q, d)
    BY <1>1 DEF WillEnqueue
  <2>2. \A j \in Jobs : JobOf(j, d)' => JobOf(j, d)
    BY <1>1 DEF JobOf
  <2>3. Undisturbed(d)' => Undisturbed(d)
    BY <1>1 DEF Undisturbed
  <2> QED
    BY <1>1, <1>2, <2>1, <2>2, <2>3 DEF OnceInv
<1>3. CASE d # e
  <2>1. \A q \in Requests : WillEnqueue(q, d)' => WillEnqueue(q, d)
    BY <1>1, <1>3 DEF WillEnqueue
  <2>2. \A j \in Jobs : JobOf(j, d)' => JobOf(j, d)
    BY <1>1 DEF JobOf
  <2>3. Undisturbed(d)' => Undisturbed(d)
    BY <1>1 DEF Undisturbed
  <2> QED
    BY <1>1, <1>3, <2>1, <2>2, <2>3, NoNewRight
<1> QED
  BY <1>2, <1>3

\* The handler hands it to the job.
LEMMA EnqueueKeepsOnce ==
  ASSUME TypeOK, RowInv, NEW d \in Deposits, OnceInv(d),
         NEW r \in Requests, AddDepositProcessJob(r)
  PROVE  OnceInv(d)'
<1> PICK e \in Deposits : e = request[r].deposit
  BY RequestType DEF AddDepositProcessJob
<1> PICK j \in Jobs :
      /\ job[j].at = "none"
      /\ job' = [job EXCEPT ![j] = [at |-> "waiting", deposit |-> e, stalls |-> 0]]
  BY DEF AddDepositProcessJob
<1>1. /\ request[r].at = "enqueueing"
      /\ request'[r].at = "idle"
      /\ \A q \in Requests \ {r} : request'[q] = request[q]
      /\ status' = status /\ credits' = credits /\ mark' = mark
      /\ status[e] # "NONE"
  BY DEF AddDepositProcessJob, TypeOK, Idle, RowInv
<1>2. /\ job'[j] = [at |-> "waiting", deposit |-> e, stalls |-> 0]
      /\ \A i \in Jobs \ {j} : job'[i] = job[i]
  BY DEF TypeOK
<1>3. \A q \in Requests : WillEnqueue(q, d)' => q # r /\ WillEnqueue(q, d)
  BY <1>1 DEF WillEnqueue
<1>4. Undisturbed(d)' => Undisturbed(d)
  BY <1>1 DEF Undisturbed
<1>5. CASE d = e
  <2>1. WillEnqueue(r, d)
    BY <1>1, <1>5 DEF WillEnqueue
  <2>2. \A i \in Jobs : JobOf(i, d)' => i = j \/ JobOf(i, d)
    BY <1>2 DEF JobOf
  <2> QED
    BY <1>1, <1>3, <1>4, <2>1, <2>2 DEF OnceInv
<1>6. CASE d # e
  <2>1. \A i \in Jobs : JobOf(i, d)' => JobOf(i, d) /\ job'[i] = job[i]
    BY <1>2, <1>6 DEF JobOf
  <2> QED
    BY <1>1, <1>3, <1>4, <2>1, NoNewRight
<1> QED
  BY <1>5, <1>6

\* The job uses it.
LEMMA CreditKeepsOnce ==
  ASSUME TypeOK, NEW d \in Deposits, OnceInv(d), NEW j \in Jobs, CreditDeposit(j)
  PROVE  OnceInv(d)'
<1> PICK e \in Deposits : e = job[j].deposit
  BY JobType DEF CreditDeposit
<1>1. /\ job[j].at = "found"
      /\ job'[j].at = "credited" /\ job'[j].deposit = e
      /\ \A i \in Jobs \ {j} : job'[i] = job[i]
  BY JobAt DEF CreditDeposit, TypeOK
<1>2. /\ request' = request /\ status' = status /\ mark' = mark
      /\ d # e => credits'[d] = credits[d]
      /\ d = e => credits'[d] = credits[d] + 1
  BY DEF CreditDeposit, TypeOK
<1>3. /\ \A q \in Requests : WillEnqueue(q, d)' => WillEnqueue(q, d)
      /\ Undisturbed(d)' => Undisturbed(d)
      /\ \A i \in Jobs : JobOf(i, d)' => JobOf(i, d)
  BY <1>1, <1>2 DEF WillEnqueue, Undisturbed, JobOf
<1>4. CASE d = e
  <2>1. JobOf(j, d)
    BY <1>1, <1>4 DEF JobOf
  <2> QED
    BY <1>1, <1>2, <1>3, <1>4, <2>1 DEF OnceInv
<1>5. CASE d # e
  <2>1. \A i \in Jobs : JobOf(i, d)' => job'[i] = job[i]
    BY <1>1, <1>5 DEF JobOf
  <2> QED
    BY <1>2, <1>3, <1>5, <2>1, NoNewRight
<1> QED
  BY <1>4, <1>5

\* A crash can give it back only by running a job again that had credited,
\* and that is marked.
LEMMA CrashKeepsOnce ==
  ASSUME TypeOK, NEW d \in Deposits, OnceInv(d), Crash
  PROVE  OnceInv(d)'
<1>1. \A q \in Requests : ~WillEnqueue(q, d)'
  BY DEF Crash, Idle, WillEnqueue
<1>2. mark[d] \subseteq mark'[d] /\ credits' = credits /\ status' = status
  BY DEF Crash
<1>3. Undisturbed(d)' => Undisturbed(d)
  BY <1>2 DEF Undisturbed
<1>4. ASSUME NEW j \in Jobs, JobOf(j, d)', Undisturbed(d)'
      PROVE  /\ JobOf(j, d)
             /\ job'[j].at \in {"waiting", "found"} =>
                  job[j].at \in {"waiting", "found"}
  <2>1. CASE j \in PutBack
    <3>1. job'[j].deposit = job[j].deposit
      BY <2>1 DEF Crash
    <3>2. job[j].at \in {"found", "credited"}
      BY <2>1 DEF PutBack, Running
    <3>3. JobOf(j, d)
      BY <1>4, <3>1, <3>2 DEF JobOf
    <3>4. job[j].at = "credited" => "reexecuted" \in mark'[d]
      BY <2>1, <3>3 DEF Crash, JobOf
    <3> QED
      BY <1>4, <3>2, <3>3, <3>4 DEF Undisturbed
  <2>2. CASE j \in Running \ PutBack
    <3>1. job'[j].at = "done" /\ job'[j].deposit = job[j].deposit
      BY <2>2, JobAt DEF Crash, Running
    <3> QED
      BY <1>4, <2>2, <3>1 DEF JobOf, Running
  <2>3. CASE j \notin PutBack /\ j \notin Running
    <3>1. job'[j] = job[j]
      BY <2>3 DEF Crash
    <3> QED
      BY <1>4, <3>1 DEF JobOf
  <2> QED
    BY <2>1, <2>2, <2>3
<1> QED
  BY <1>1, <1>2, <1>3, <1>4, NoNewRight

LEMMA NextKeepsOnce ==
  ASSUME TypeOK, RowInv, [Next]_vars, NEW d \in Deposits, OnceInv(d)
  PROVE  OnceInv(d)'
<1>1. ASSUME NEW r \in Requests, NEW e \in Deposits, CreatePayment(r, e)
      PROVE  OnceInv(d)'
  BY <1>1, RequestKeepsOnce DEF CreatePayment
<1>2. ASSUME NEW r \in Requests, NEW e \in Deposits, DepositCallback(r, e)
      PROVE  OnceInv(d)'
  BY <1>2, CallbackKeepsOnce
<1>3. ASSUME NEW r \in Requests, NEW e \in Deposits, CancelFind(r, e)
      PROVE  OnceInv(d)'
  BY <1>3, RequestKeepsOnce DEF CancelFind
<1>4. ASSUME NEW r \in Requests, NEW e \in Deposits,
             NEW new \in AdminStatuses, UpdateStatusDeposit(r, e, new)
      PROVE  OnceInv(d)'
  <2>1. CASE d = e
    <3>1. ~Undisturbed(d)'
      BY <1>4, <2>1 DEF UpdateStatusDeposit, Undisturbed, TypeOK
    <3> QED
      BY <3>1 DEF OnceInv
  <2>2. CASE d # e
    <3>1. /\ status'[d] = status[d] /\ mark'[d] = mark[d]
          /\ job' = job /\ credits' = credits
      BY <1>4, <2>2 DEF UpdateStatusDeposit, TypeOK
    <3>2. \A q \in Requests : WillEnqueue(q, d)' => WillEnqueue(q, d)
      BY <1>4, <2>2 DEF UpdateStatusDeposit, WillEnqueue, TypeOK
    <3>3. /\ \A j \in Jobs : JobOf(j, d)' => JobOf(j, d)
          /\ Undisturbed(d)' => Undisturbed(d)
      BY <3>1 DEF JobOf, Undisturbed
    <3> QED
      BY <3>1, <3>2, <3>3, NoNewRight
  <2> QED
    BY <2>1, <2>2
<1>5. ASSUME NEW r \in Requests, CreateCommit(r)
      PROVE  OnceInv(d)'
  <2>1. status[request[r].deposit] = "NONE"
    BY <1>5 DEF CreateCommit, RowInv
  <2>2. status'[d] \in {"NONE", "PENDING"} => status[d] \in {"NONE", "PENDING"}
    BY <1>5, <2>1 DEF CreateCommit, TypeOK
  <2> QED
    BY <1>5, <2>2, RequestKeepsOnce DEF CreateCommit, Idle
<1>6. ASSUME NEW r \in Requests, CreateRollback(r) \/ QueueAddFails(r)
      PROVE  OnceInv(d)'
  <2>1. mark[d] \subseteq mark'[d]
    BY <1>6 DEF CreateRollback, QueueAddFails, TypeOK
  <2> QED
    BY <1>6, <2>1, RequestKeepsOnce DEF CreateRollback, QueueAddFails, Idle
<1>7. ASSUME NEW r \in Requests, AddDepositProcessJob(r)
      PROVE  OnceInv(d)'
  BY <1>7, EnqueueKeepsOnce
<1>8. ASSUME NEW r \in Requests, CancelWrite(r)
      PROVE  OnceInv(d)'
  <2>1. /\ status'[d] \in {"NONE", "PENDING"} => status[d] \in {"NONE", "PENDING"}
        /\ mark[d] \subseteq mark'[d]
    BY <1>8 DEF CancelWrite, TypeOK
  <2> QED
    BY <1>8, <2>1, RequestKeepsOnce DEF CancelWrite, Idle
<1>9. ASSUME NEW j \in Jobs, FindDeposit(j)
      PROVE  OnceInv(d)'
  BY <1>9, JobKeepsOnce DEF FindDeposit
<1>10. ASSUME NEW j \in Jobs, CreditDeposit(j)
       PROVE  OnceInv(d)'
  BY <1>10, CreditKeepsOnce
<1>11. ASSUME NEW j \in Jobs, FinishDeposit(j)
       PROVE  OnceInv(d)'
  <2>1. status'[d] \in {"NONE", "PENDING"} => status[d] \in {"NONE", "PENDING"}
    BY <1>11 DEF FinishDeposit, TypeOK
  <2> QED
    BY <1>11, <2>1, JobKeepsOnce DEF FinishDeposit
<1>12. ASSUME NEW j \in Jobs, DepositJobError(j)
       PROVE  OnceInv(d)'
  <2>1. mark[d] \subseteq mark'[d]
    BY <1>12 DEF DepositJobError, TypeOK
  <2> QED
    BY <1>12, <2>1, JobKeepsOnce DEF DepositJobError, Running
<1>13. CASE HandleExpiredDeposit
  <2>1. status'[d] \in {"NONE", "PENDING"} => status[d] \in {"NONE", "PENDING"}
    BY <1>13 DEF HandleExpiredDeposit
  <2> QED
    BY <1>13, <2>1, NoNewRight
       DEF HandleExpiredDeposit, WillEnqueue, JobOf, Undisturbed
<1>14. ASSUME NEW e \in Deposits, NEW outcome \in {"paid", "canceled"},
              SettleInvoice(e, outcome)
       PROVE  OnceInv(d)'
  BY <1>14 DEF SettleInvoice, OnceInv, WillEnqueue, JobOf, Undisturbed
<1>15. ASSUME NEW e \in Deposits, PassDeadline(e)
       PROVE  OnceInv(d)'
  BY <1>15 DEF PassDeadline, OnceInv, WillEnqueue, JobOf, Undisturbed
<1>16. CASE Crash
  BY <1>16, CrashKeepsOnce
<1>17. CASE UNCHANGED vars
  BY <1>17 DEF vars, OnceInv, WillEnqueue, JobOf, Undisturbed
<1> QED
  BY <1>1, <1>2, <1>3, <1>4, <1>5, <1>6, <1>7, <1>8, <1>9, <1>10, <1>11,
     <1>12, <1>13, <1>14, <1>15, <1>16, <1>17
     DEF Next, RequestStarts, RequestGoesOn, JobGoesOn, Environment

\* No interleaving of callbacks, cancellations, the cron and jobs credits a
\* deposit twice; only an administrator or a re-executed job can.
THEOREM CreditedOnce_Unless_Rerun == Spec => []CreditedOnceUnlessRerun
<1> DEFINE Inv == RowInv /\ \A d \in Deposits : OnceInv(d)
<1>1. Init => Inv
  BY InitInv
<1>2. TypeOK /\ Inv /\ [Next]_vars => Inv'
  BY NextKeepsRow, NextKeepsOnce
<1>3. TypeOK /\ Inv => CreditedOnceUnlessRerun
  BY DEF OnceInv, Undisturbed, CreditedOnceUnlessRerun, TypeOK
<1> HIDE DEF Inv
<1> QED
  BY <1>1, <1>2, <1>3, TypeCorrect, PTL DEF Spec

-----------------------------------------------------------------------------
(* Deposit implements PayOnce.                                             *)

\* Whoever is about to add a job, and every job, is there because the
\* provider settled the payment or because an administrator acted.
Settled(d) == invoice[d] \in {"paid", "canceled"} \/ "touched" \in mark[d]

SettledInv ==
  /\ \A r \in Requests :
       request[r].at = "enqueueing" => Settled(request[r].deposit)
  /\ \A j \in Jobs : job[j].at # "none" => Settled(job[j].deposit)

\* A settled deposit stays settled.
LEMMA SettledStays ==
  ASSUME TypeOK, [Next]_vars, NEW d \in Deposits, Settled(d)
  PROVE  Settled(d)'
<1>1. CASE UNCHANGED <<invoice, mark>>
  BY <1>1 DEF Settled
<1>2. ASSUME NEW r \in Requests, NEW c \in Deposits, CreatePayment(r, c)
      PROVE  Settled(d)'
  BY <1>2 DEF CreatePayment, Settled, TypeOK
<1>3. ASSUME NEW c \in Deposits, NEW outcome, SettleInvoice(c, outcome)
      PROVE  Settled(d)'
  BY <1>3 DEF SettleInvoice, Settled, TypeOK
<1>4. ASSUME NEW r \in Requests, CancelWrite(r) \/ QueueAddFails(r)
      PROVE  Settled(d)'
  BY <1>4 DEF CancelWrite, QueueAddFails, Settled, TypeOK
<1>5. ASSUME NEW r \in Requests, NEW c \in Deposits, NEW new,
             UpdateStatusDeposit(r, c, new)
      PROVE  Settled(d)'
  BY <1>5 DEF UpdateStatusDeposit, Settled, TypeOK
<1>6. ASSUME NEW j \in Jobs, DepositJobError(j)
      PROVE  Settled(d)'
  BY <1>6 DEF DepositJobError, Settled, TypeOK
<1>7. CASE Crash
  BY <1>7 DEF Crash, Settled, TypeOK
<1>8. \A r \in Requests, c \in Deposits :
        DepositCallback(r, c) \/ CancelFind(r, c) => UNCHANGED <<invoice, mark>>
  BY DEF DepositCallback, CancelFind
<1>9. \A r \in Requests :
        CreateCommit(r) \/ CreateRollback(r) \/ AddDepositProcessJob(r)
          => UNCHANGED <<invoice, mark>>
  BY DEF CreateCommit, CreateRollback, AddDepositProcessJob
<1>10. \A j \in Jobs : FindDeposit(j) \/ CreditDeposit(j) \/ FinishDeposit(j)
          => UNCHANGED <<invoice, mark>>
  BY DEF FindDeposit, CreditDeposit, FinishDeposit
<1>11. HandleExpiredDeposit \/ (\E c \in Deposits : PassDeadline(c))
          \/ UNCHANGED vars => UNCHANGED <<invoice, mark>>
  BY DEF HandleExpiredDeposit, PassDeadline, vars
<1> QED
  BY <1>1, <1>2, <1>3, <1>4, <1>5, <1>6, <1>7, <1>8, <1>9, <1>10, <1>11
     DEF Next, RequestStarts, RequestGoesOn, JobGoesOn, Environment

LEMMA NextKeepsSettled ==
  ASSUME TypeOK, SettledInv, [Next]_vars
  PROVE  SettledInv'
<1> USE DEF SettledInv
<1>1. ASSUME NEW r \in Requests, RequestStarts(r) \/ RequestGoesOn(r)
      PROVE  SettledInv'
  <2>0. \A d \in Deposits : Settled(d) => Settled(d)'
    BY SettledStays
  <2>1. CASE RequestStarts(r)
    <3>0. PICK d \in Deposits :
            \/ CreatePayment(r, d) \/ DepositCallback(r, d) \/ CancelFind(r, d)
            \/ \E new \in AdminStatuses : UpdateStatusDeposit(r, d, new)
      BY <2>1 DEF RequestStarts
    <3>1. job' = job
      BY <3>0 DEF CreatePayment, DepositCallback, CancelFind, UpdateStatusDeposit
    <3>2. \/ request' = request
          \/ /\ request' = [request EXCEPT
                              ![r] = [at |-> "enqueueing", deposit |-> d]]
             /\ Settled(d)'
          \/ request' = [request EXCEPT ![r] = [at |-> "creating", deposit |-> d]]
          \/ request' = [request EXCEPT ![r] = [at |-> "cancelling", deposit |-> d]]
      <4>1. CASE CreatePayment(r, d)
        BY <4>1 DEF CreatePayment
      <4>2. CASE DepositCallback(r, d)
        BY <4>2 DEF DepositCallback, Settled
      <4>3. CASE CancelFind(r, d)
        BY <4>3 DEF CancelFind
      <4>4. ASSUME NEW new \in AdminStatuses, UpdateStatusDeposit(r, d, new)
            PROVE  \/ request' = request
                   \/ /\ request' = [request EXCEPT
                                       ![r] = [at |-> "enqueueing", deposit |-> d]]
                      /\ Settled(d)'
        BY <4>4 DEF UpdateStatusDeposit, Settled, TypeOK
      <4> QED
        BY <3>0, <4>1, <4>2, <4>3, <4>4
    <3>3. \A q \in Requests : request'[q].at = "enqueueing" =>
            \/ request'[q] = request[q]
            \/ request'[q].deposit = d /\ Settled(d)'
      BY <3>2 DEF TypeOK
    <3> QED
      BY <2>0, <3>1, <3>3, RequestType, JobType DEF Settled
  <2>2. CASE \/ CreateCommit(r) \/ CreateRollback(r) \/ CancelWrite(r)
             \/ QueueAddFails(r)
    <3>1. job' = job /\ request' = [request EXCEPT ![r] = Idle]
      BY <2>2 DEF CreateCommit, CreateRollback, CancelWrite, QueueAddFails
    <3>2. \A q \in Requests : request'[q] = request[q] \/ request'[q].at = "idle"
      BY <3>1 DEF TypeOK, Idle
    <3> QED
      BY <2>0, <3>1, <3>2, RequestType, JobType DEF Settled
  <2>3. CASE AddDepositProcessJob(r)
    <3>1. PICK i \in Jobs : job' = [job EXCEPT ![i] =
            [at |-> "waiting", deposit |-> request[r].deposit, stalls |-> 0]]
      BY <2>3 DEF AddDepositProcessJob
    <3>2. \A q \in Requests : request'[q] = request[q] \/ request'[q].at = "idle"
      BY <2>3 DEF AddDepositProcessJob, TypeOK, Idle
    <3>3. request[r].at = "enqueueing" /\ Settled(request[r].deposit)
      BY <2>3 DEF AddDepositProcessJob
    <3>4. \A j \in Jobs : job'[j] = job[j]
                          \/ job'[j].deposit = request[r].deposit
      BY <3>1 DEF TypeOK
    <3> QED
      BY <2>0, <3>2, <3>3, <3>4, RequestType, JobType DEF Settled
  <2> QED
    BY <1>1, <2>1, <2>2, <2>3 DEF RequestGoesOn
<1>2. ASSUME NEW j \in Jobs, JobGoesOn(j)
      PROVE  SettledInv'
  <2>0. \A d \in Deposits : Settled(d) => Settled(d)'
    BY SettledStays
  <2>1. /\ request' = request
        /\ job[j].at # "none"
        /\ \E at : job' = [job EXCEPT ![j].at = at]
    BY <1>2 DEF JobGoesOn, FindDeposit, CreditDeposit, FinishDeposit,
       DepositJobError, Running
  <2>2. job'[j].deposit = job[j].deposit
    <3>1. PICK at : job' = [job EXCEPT ![j].at = at]
      BY <2>1
    <3>2. job'[j] = [job[j] EXCEPT !.at = at]
      BY <3>1 DEF TypeOK
    <3> QED
      BY <2>1, <3>2, JobAt
  <2>3. \A i \in Jobs : i # j => job'[i] = job[i]
    BY <2>1 DEF TypeOK
  <2> QED
    BY <2>0, <2>1, <2>2, <2>3, RequestType, JobType DEF Settled
<1>3. CASE HandleExpiredDeposit
  BY <1>3, SettledStays, RequestType, JobType DEF HandleExpiredDeposit, Settled
<1>4. CASE Environment
  <2>0. \A d \in Deposits : Settled(d) => Settled(d)'
    BY SettledStays
  <2>1. CASE Crash
    <3>1. \A r \in Requests : request'[r].at = "idle"
      BY <2>1 DEF Crash, Idle
    <3>2. \A j \in Jobs : job'[j].at # "none" =>
            job[j].at # "none" /\ job'[j].deposit = job[j].deposit
      <4> SUFFICES ASSUME NEW j \in Jobs, job'[j].at # "none"
                   PROVE  job[j].at # "none" /\ job'[j].deposit = job[j].deposit
        OBVIOUS
      <4>1. CASE j \in PutBack
        BY <2>1, <4>1 DEF Crash, PutBack, Running
      <4>2. CASE j \in Running \ PutBack
        BY <2>1, <4>2, JobAt DEF Crash, Running
      <4>3. CASE j \notin Running
        BY <2>1, <4>3 DEF Crash, PutBack
      <4> QED
        BY <4>1, <4>2, <4>3
    <3> QED
      BY <2>0, <3>1, <3>2, JobType DEF Settled
  <2>2. CASE ~Crash
    BY <1>4, <2>0, <2>2, RequestType, JobType
       DEF Environment, SettleInvoice, PassDeadline, Settled
  <2> QED
    BY <2>1, <2>2
<1>5. CASE UNCHANGED vars
  BY <1>5, SettledStays, RequestType, JobType DEF vars, Settled
<1> QED
  BY <1>1, <1>2, <1>3, <1>4, <1>5 DEF Next

\* A step that changes neither the settled payments nor the credits nor what
\* is waived is a stutter of PayOnce.
LEMMA PromiseStutters ==
  ASSUME invoice' = invoice, credits' = credits,
         \A d \in Deposits : mark'[d] \cap {"touched", "reexecuted"} =
                             mark[d] \cap {"touched", "reexecuted"}
  PROVE  UNCHANGED Promise!vars
BY DEF Promise!vars

\* Every step of Deposit is a step of PayOnce or a stutter of it.
LEMMA NextKeepsPromise ==
  ASSUME TypeOK, \A d \in Deposits : OnceInv(d), SettledInv, [Next]_vars
  PROVE  [Promise!Next]_(Promise!vars)
<1>1. ASSUME NEW d \in Deposits, NEW outcome \in {"paid", "canceled"},
             SettleInvoice(d, outcome)
      PROVE  Promise!Next
  <2>1. Promise!Entitle(d)
    BY <1>1 DEF SettleInvoice, Promise!Entitle, TypeOK
  <2> QED
    BY <2>1 DEF Promise!Next
<1>2. ASSUME NEW r \in Requests, NEW d \in Deposits, NEW new,
             UpdateStatusDeposit(r, d, new)
      PROVE  Promise!Next
  <2>1. Promise!Waive({d})
    BY <1>2 DEF UpdateStatusDeposit, Promise!Waive, TypeOK
  <2> QED
    BY <2>1 DEF Promise!Next
<1>3. ASSUME NEW j \in Jobs, CreditDeposit(j)
      PROVE  Promise!Next
  <2> DEFINE d == job[j].deposit
  <2>1. job[j].at = "found" /\ d \in Deposits /\ JobOf(j, d)
    BY <1>3, JobType DEF CreditDeposit, JobOf
  <2>2. Undisturbed(d) => credits[d] = 0
    BY <2>1 DEF OnceInv
  <2>3. Undisturbed(d) => invoice[d] \in {"paid", "canceled"}
    BY <2>1 DEF SettledInv, Settled, Undisturbed
  <2>4. Promise!MayPay(d)
    BY <2>1, <2>2, <2>3 DEF Promise!MayPay, Undisturbed
  <2>5. Promise!Payout(d)
    BY <1>3, <2>4 DEF CreditDeposit, Promise!Payout
  <2> QED
    BY <2>1, <2>5 DEF Promise!Next
<1>4. CASE Crash
  <2> DEFINE rerun == {d \in Deposits : \E j \in PutBack :
                         job[j].deposit = d /\ job[j].at = "credited"}
  <2>1. \A d \in Deposits : mark'[d] \cap {"touched", "reexecuted"} =
          (mark[d] \cap {"touched", "reexecuted"})
            \cup (IF d \in rerun THEN {"reexecuted"} ELSE {})
    BY <1>4 DEF Crash, TypeOK
  <2>2. {d \in Deposits : mark'[d] \cap {"touched", "reexecuted"} # {}} =
          {d \in Deposits : mark[d] \cap {"touched", "reexecuted"} # {}} \cup rerun
    BY <2>1
  <2>3. rerun \in SUBSET Deposits
    OBVIOUS
  <2>4. Promise!Waive(rerun)
    BY <1>4, <2>2 DEF Crash, Promise!Waive
  <2> HIDE DEF rerun
  <2> QED
    BY <2>3, <2>4 DEF Promise!Next, Promise!Waive
<1>5. ASSUME NEW r \in Requests, CancelWrite(r) \/ QueueAddFails(r)
      PROVE  UNCHANGED Promise!vars
  BY <1>5, PromiseStutters DEF CancelWrite, QueueAddFails, TypeOK
<1>6. ASSUME NEW j \in Jobs, DepositJobError(j)
      PROVE  UNCHANGED Promise!vars
  BY <1>6, PromiseStutters DEF DepositJobError, TypeOK
<1>7. CASE \/ HandleExpiredDeposit \/ UNCHANGED vars
           \/ \E d \in Deposits : PassDeadline(d)
           \/ \E r \in Requests, d \in Deposits :
                CreatePayment(r, d) \/ DepositCallback(r, d) \/ CancelFind(r, d)
           \/ \E r \in Requests : \/ CreateCommit(r) \/ CreateRollback(r)
                                  \/ AddDepositProcessJob(r)
           \/ \E j \in Jobs : FindDeposit(j) \/ FinishDeposit(j)
  <2>1. ASSUME NEW r \in Requests, NEW d \in Deposits, CreatePayment(r, d)
        PROVE  UNCHANGED Promise!vars
    <3>1. \A c \in Deposits : invoice'[c] \in {"paid", "canceled"}
                              <=> invoice[c] \in {"paid", "canceled"}
      BY <2>1 DEF CreatePayment, TypeOK
    <3> QED
      BY <2>1, <3>1 DEF CreatePayment, Promise!vars
  <2>2. \A r \in Requests, d \in Deposits :
          DepositCallback(r, d) \/ CancelFind(r, d)
            => UNCHANGED <<invoice, credits, mark>>
    BY DEF DepositCallback, CancelFind
  <2>3. \A r \in Requests :
          CreateCommit(r) \/ CreateRollback(r) \/ AddDepositProcessJob(r)
            => UNCHANGED <<invoice, credits, mark>>
    BY DEF CreateCommit, CreateRollback, AddDepositProcessJob
  <2>4. \A j \in Jobs : FindDeposit(j) \/ FinishDeposit(j)
          => UNCHANGED <<invoice, credits, mark>>
    BY DEF FindDeposit, FinishDeposit
  <2>5. HandleExpiredDeposit \/ (\E c \in Deposits : PassDeadline(c))
          \/ UNCHANGED vars => UNCHANGED <<invoice, credits, mark>>
    BY DEF HandleExpiredDeposit, PassDeadline, vars
  <2>6. UNCHANGED <<invoice, credits, mark>> => UNCHANGED Promise!vars
    BY PromiseStutters
  <2> QED
    BY <1>7, <2>1, <2>2, <2>3, <2>4, <2>5, <2>6
<1> QED
  BY <1>1, <1>2, <1>3, <1>4, <1>5, <1>6, <1>7
     DEF Next, RequestStarts, RequestGoesOn, JobGoesOn, Environment

\* Deposit implements PayOnce: no interleaving of callbacks, cancellations,
\* the cron, jobs and crashes credits a deposit twice, or before the provider
\* settled it, unless an administrator acts or a job is run again.
THEOREM Deposit_Keeps_Promise == Spec => KeepsPromise
<1> DEFINE Inv == RowInv /\ (\A d \in Deposits : OnceInv(d)) /\ SettledInv
<1>1. Init => Inv /\ Promise!Init
  <2>1. Init => SettledInv
    BY DEF Init, SettledInv, Idle
  <2>2. Init => Promise!Init
    BY DEF Init, Promise!Init
  <2> QED
    BY <2>1, <2>2, InitInv
<1>2. TypeOK /\ Inv /\ [Next]_vars => Inv'
  BY NextKeepsRow, NextKeepsOnce, NextKeepsSettled
<1>3. TypeOK /\ Inv /\ [Next]_vars => [Promise!Next]_(Promise!vars)
  BY NextKeepsPromise
<1> HIDE DEF Inv
<1> QED
  BY <1>1, <1>2, <1>3, TypeCorrect, PTL DEF Spec, KeepsPromise, Promise!Spec

-----------------------------------------------------------------------------
(* StatusTellsCredit: a status that says "not credited" leaves no handler  *)
(* and no job that could still credit, and a job that has credited finds   *)
(* the credit it will report.                                              *)

NotCredited == {"NONE", "PENDING", "CANCELED", "EXPIRED"}

Plain(d) == mark[d] \cap {"touched", "overwritten"} = {}

TellsInv(d) ==
  /\ \A j \in Jobs : JobOf(j, d) /\ job[j].at = "credited" => credits[d] >= 1
  /\ Plain(d) =>
       /\ status[d] = "SUCCESS" => credits[d] >= 1
       /\ status[d] \in NotCredited =>
            /\ credits[d] = 0
            /\ \A r \in Requests : ~WillEnqueue(r, d)
            /\ \A j \in Jobs : ~JobOf(j, d)

\* Who is about to add a job of d was about to before.
EnqueuersKept(d) ==
  \A r \in Requests :
    request'[r].at = "enqueueing" /\ request'[r].deposit = d => WillEnqueue(r, d)

\* A job of d was one before, and one that has credited had.
JobsKept(d) ==
  \A j \in Jobs :
    job'[j].at # "none" /\ job'[j].deposit = d =>
      /\ JobOf(j, d)
      /\ job'[j].at = "credited" => job[j].at = "credited"

LEMMA TellsKeeps ==
  ASSUME NEW d \in Deposits, TellsInv(d), mark[d] \subseteq mark'[d],
         credits'[d] = credits[d],
         status'[d] = "SUCCESS" => status[d] = "SUCCESS",
         status'[d] \in NotCredited => status[d] \in NotCredited,
         EnqueuersKept(d), JobsKept(d)
  PROVE  TellsInv(d)'
<1>1. Plain(d)' => Plain(d)
  BY DEF Plain
<1>2. \A r \in Requests : WillEnqueue(r, d)' => WillEnqueue(r, d)
  BY DEF EnqueuersKept, WillEnqueue
<1>3. \A j \in Jobs : JobOf(j, d)' => /\ JobOf(j, d)
                                      /\ job'[j].at = "credited" =>
                                           job[j].at = "credited"
  BY DEF JobsKept, JobOf
<1> QED
  BY <1>1, <1>2, <1>3 DEF TellsInv

\* The requests.
LEMMA RequestsTell ==
  ASSUME TypeOK, RowInv, NEW d \in Deposits, TellsInv(d), NEW r \in Requests,
         RequestStarts(r) \/ RequestGoesOn(r)
  PROVE  TellsInv(d)'
<1>1. ASSUME NEW c \in Deposits, CreatePayment(r, c) \/ CancelFind(r, c)
      PROVE  TellsInv(d)'
  <2>1. EnqueuersKept(d)
    BY <1>1 DEF CreatePayment, CancelFind, EnqueuersKept, WillEnqueue, TypeOK
  <2>2. JobsKept(d)
    BY <1>1 DEF CreatePayment, CancelFind, JobsKept, JobOf
  <2> QED
    BY <1>1, <2>1, <2>2, TellsKeeps DEF CreatePayment, CancelFind
<1>2. ASSUME NEW c \in Deposits, DepositCallback(r, c)
      PROVE  TellsInv(d)'
  <2>1. JobsKept(d)
    BY <1>2 DEF DepositCallback, JobsKept, JobOf
  <2>2. CASE c # d
    <3>1. EnqueuersKept(d)
      BY <1>2, <2>2 DEF DepositCallback, EnqueuersKept, WillEnqueue, TypeOK
    <3> QED
      BY <1>2, <2>1, <2>2, <3>1, TellsKeeps DEF DepositCallback, TypeOK
  <2>3. CASE c = d
    <3>1. /\ status'[d] = "PROCESS" /\ job' = job /\ credits' = credits
      BY <1>2, <2>3 DEF DepositCallback, TypeOK
    <3> QED
      BY <3>1 DEF TellsInv, JobOf, NotCredited
  <2> QED
    BY <2>2, <2>3
<1>3. ASSUME NEW c \in Deposits, NEW new \in AdminStatuses,
             UpdateStatusDeposit(r, c, new)
      PROVE  TellsInv(d)'
  <2>1. JobsKept(d)
    BY <1>3 DEF UpdateStatusDeposit, JobsKept, JobOf
  <2>2. CASE c # d
    <3>1. EnqueuersKept(d)
      BY <1>3, <2>2 DEF UpdateStatusDeposit, EnqueuersKept, WillEnqueue, TypeOK
    <3> QED
      BY <1>3, <2>1, <2>2, <3>1, TellsKeeps DEF UpdateStatusDeposit, TypeOK
  <2>3. CASE c = d
    <3>1. /\ "touched" \in mark'[d] /\ job' = job /\ credits' = credits
      BY <1>3, <2>3 DEF UpdateStatusDeposit, TypeOK
    <3> QED
      BY <3>1 DEF TellsInv, JobOf, Plain
  <2> QED
    BY <2>2, <2>3
<1>4. ASSUME CreateCommit(r)
      PROVE  TellsInv(d)'
  <2>1. EnqueuersKept(d) /\ JobsKept(d)
    BY <1>4 DEF CreateCommit, EnqueuersKept, JobsKept, WillEnqueue, JobOf, Idle, TypeOK
  <2>2. \/ status'[d] = status[d]
        \/ status'[d] = "PENDING" /\ status[d] = "NONE"
    BY <1>4 DEF CreateCommit, TypeOK, RowInv
  <2> QED
    BY <1>4, <2>1, <2>2, TellsKeeps DEF CreateCommit, NotCredited
<1>5. ASSUME CreateRollback(r) \/ QueueAddFails(r)
      PROVE  TellsInv(d)'
  <2>1. request' = [request EXCEPT ![r] = Idle] /\ job' = job
    BY <1>5 DEF CreateRollback, QueueAddFails
  <2>2. EnqueuersKept(d) /\ JobsKept(d)
    BY <2>1 DEF EnqueuersKept, JobsKept, WillEnqueue, JobOf, Idle, TypeOK
  <2>3. /\ mark[d] \subseteq mark'[d]
        /\ credits' = credits /\ status' = status
    BY <1>5 DEF CreateRollback, QueueAddFails, TypeOK
  <2> QED
    BY <2>2, <2>3, TellsKeeps
<1>6. ASSUME AddDepositProcessJob(r)
      PROVE  TellsInv(d)'
  <2>1. EnqueuersKept(d)
    BY <1>6 DEF AddDepositProcessJob, EnqueuersKept, WillEnqueue, Idle, TypeOK
  <2>2. PICK j \in Jobs :
          /\ job'[j].at = "waiting" /\ job'[j].deposit = request[r].deposit
          /\ \A i \in Jobs \ {j} : job'[i] = job[i]
    BY <1>6 DEF AddDepositProcessJob, TypeOK
  <2>3. CASE request[r].deposit # d
    <3>1. JobsKept(d)
      BY <2>2, <2>3 DEF JobsKept, JobOf
    <3> QED
      BY <1>6, <2>1, <3>1, TellsKeeps DEF AddDepositProcessJob
  <2>4. CASE request[r].deposit = d
    <3>1. WillEnqueue(r, d)
      BY <1>6, <2>4 DEF AddDepositProcessJob, WillEnqueue
    <3>2. Plain(d) => status[d] \notin NotCredited
      BY <3>1 DEF TellsInv
    <3> QED
      BY <1>6, <2>2, <3>2 DEF AddDepositProcessJob, TellsInv, JobOf, Plain
  <2> QED
    BY <2>3, <2>4
<1>7. ASSUME CancelWrite(r)
      PROVE  TellsInv(d)'
  <2>1. EnqueuersKept(d) /\ JobsKept(d)
    BY <1>7 DEF CancelWrite, EnqueuersKept, JobsKept, WillEnqueue, JobOf, Idle, TypeOK
  <2>2. CASE request[r].deposit # d
    BY <1>7, <2>1, <2>2, TellsKeeps DEF CancelWrite, TypeOK
  <2>3. CASE request[r].deposit = d /\ status[d] = "PENDING"
    BY <1>7, <2>1, <2>3, TellsKeeps DEF CancelWrite, TypeOK, NotCredited
  <2>4. CASE request[r].deposit = d /\ status[d] # "PENDING"
    <3>1. "overwritten" \in mark'[d] /\ job' = job /\ credits' = credits
      BY <1>7, <2>4 DEF CancelWrite, TypeOK
    <3> QED
      BY <3>1 DEF TellsInv, JobOf, Plain
  <2> QED
    BY <2>2, <2>3, <2>4
<1> QED
  BY <1>1, <1>2, <1>3, <1>4, <1>5, <1>6, <1>7 DEF RequestStarts, RequestGoesOn

\* The jobs.
LEMMA JobsTell ==
  ASSUME TypeOK, NEW d \in Deposits, TellsInv(d), NEW j \in Jobs, JobGoesOn(j)
  PROVE  TellsInv(d)'
<1>1. /\ job[j].at # "none" /\ job[j].deposit \in Deposits /\ request' = request
  BY JobType DEF JobGoesOn, FindDeposit, CreditDeposit, FinishDeposit,
                 DepositJobError, Running
<1>2. PICK at : /\ job' = [job EXCEPT ![j].at = at]
                /\ at = "credited" => CreditDeposit(j)
                /\ at # "none"
  BY DEF JobGoesOn, FindDeposit, CreditDeposit, FinishDeposit, DepositJobError
<1>3. /\ job'[j].at = at /\ job'[j].deposit = job[j].deposit
      /\ \A i \in Jobs \ {j} : job'[i] = job[i]
  <2>1. job'[j] = [job[j] EXCEPT !.at = at]
    BY <1>2 DEF TypeOK
  <2> QED
    BY <1>1, <1>2, <2>1, JobAt DEF TypeOK
<1>4. EnqueuersKept(d)
  BY <1>1 DEF EnqueuersKept, WillEnqueue
<1>5. CASE CreditDeposit(j)
  <2>1. CASE job[j].deposit # d
    <3>1. JobsKept(d)
      BY <1>3, <2>1 DEF JobsKept, JobOf
    <3> QED
      BY <1>4, <1>5, <2>1, <3>1, TellsKeeps DEF CreditDeposit, TypeOK
  <2>2. CASE job[j].deposit = d
    <3>1. JobOf(j, d)
      BY <1>1, <2>2 DEF JobOf
    <3>2. Plain(d) => status[d] \notin NotCredited
      BY <3>1 DEF TellsInv
    <3>3. credits'[d] >= 1
      BY <1>5, <2>2 DEF CreditDeposit, TypeOK
    <3> QED
      BY <1>5, <3>2, <3>3 DEF CreditDeposit, TellsInv, Plain
  <2> QED
    BY <2>1, <2>2
<1>6. CASE ~CreditDeposit(j)
  <2>1. JobsKept(d)
    BY <1>1, <1>2, <1>3, <1>6 DEF JobsKept, JobOf
  <2>2. CASE FinishDeposit(j) /\ job[j].deposit = d
    <3>1. /\ JobOf(j, d) /\ job[j].at = "credited" /\ status'[d] = "SUCCESS"
          /\ credits' = credits
      BY <1>1, <2>2 DEF JobOf, FinishDeposit, TypeOK
    <3>2. credits[d] >= 1
      BY <3>1 DEF TellsInv
    <3> QED
      BY <3>1, <3>2 DEF TellsInv, NotCredited
  <2>3. CASE FinishDeposit(j) /\ job[j].deposit # d
    BY <1>4, <2>1, <2>3, TellsKeeps DEF FinishDeposit, TypeOK
  <2>4. CASE FindDeposit(j)
    BY <1>4, <2>1, <2>4, TellsKeeps DEF FindDeposit
  <2>5. CASE DepositJobError(j)
    BY <1>1, <1>4, <2>1, <2>5, TellsKeeps DEF DepositJobError, TypeOK
  <2> QED
    BY <1>6, <2>2, <2>3, <2>4, <2>5 DEF JobGoesOn
<1> QED
  BY <1>5, <1>6

LEMMA NextKeepsTells ==
  ASSUME TypeOK, RowInv, NEW d \in Deposits, TellsInv(d), [Next]_vars
  PROVE  TellsInv(d)'
<1>1. CASE HandleExpiredDeposit
  <2>1. EnqueuersKept(d) /\ JobsKept(d)
    BY <1>1 DEF HandleExpiredDeposit, EnqueuersKept, JobsKept, WillEnqueue, JobOf
  <2>2. \/ status'[d] = status[d]
        \/ status'[d] = "EXPIRED" /\ status[d] = "PENDING"
    BY <1>1 DEF HandleExpiredDeposit
  <2> QED
    BY <1>1, <2>1, <2>2, TellsKeeps DEF HandleExpiredDeposit, NotCredited
<1>2. CASE Crash
  <2>1. EnqueuersKept(d)
    BY <1>2 DEF Crash, EnqueuersKept, Idle
  <2>2. ASSUME NEW j \in Jobs, job'[j].at # "none", job'[j].deposit = d
        PROVE  JobOf(j, d) /\ job'[j].at # "credited"
    <3>1. CASE j \in PutBack
      BY <1>2, <2>2, <3>1 DEF Crash, PutBack, Running, JobOf
    <3>2. CASE j \in Running \ PutBack
      BY <1>2, <2>2, <3>2, JobAt DEF Crash, Running, JobOf
    <3>3. CASE j \notin Running
      <4>1. job'[j] = job[j]
        BY <1>2, <3>3 DEF Crash, PutBack
      <4> QED
        BY <2>2, <3>3, <4>1 DEF Running, JobOf
    <3> QED
      BY <3>1, <3>2, <3>3
  <2>3. JobsKept(d)
    BY <2>2 DEF JobsKept
  <2>4. mark[d] \subseteq mark'[d]
    BY <1>2 DEF Crash
  <2> QED
    BY <1>2, <2>1, <2>3, <2>4, TellsKeeps DEF Crash
<1>3. CASE \/ \E c \in Deposits, outcome \in {"paid", "canceled"} :
                SettleInvoice(c, outcome)
           \/ \E c \in Deposits : PassDeadline(c)
           \/ UNCHANGED vars
  <2>1. UNCHANGED <<status, request, job, credits, mark>>
    BY <1>3 DEF SettleInvoice, PassDeadline, vars
  <2>2. EnqueuersKept(d) /\ JobsKept(d)
    BY <2>1 DEF EnqueuersKept, JobsKept, WillEnqueue, JobOf
  <2> QED
    BY <2>1, <2>2, TellsKeeps
<1> QED
  BY <1>1, <1>2, <1>3, RequestsTell, JobsTell DEF Next, Environment

\* The status of a deposit tells whether the money was credited, whatever the
\* interleaving of callbacks, jobs, the cron and crashes: only an administrator
\* or a cancellation that overwrites a later status makes it lie.
THEOREM Status_Tells_Credit == Spec => []StatusTellsCredit
<1> DEFINE All == RowInv /\ \A d \in Deposits : TellsInv(d)
<1>1. Init => All
  <2>1. Init => \A d \in Deposits : TellsInv(d)
    BY DEF Init, Idle, TellsInv, WillEnqueue, JobOf
  <2> QED
    BY <2>1, InitInv
<1>2. TypeOK /\ All /\ [Next]_vars => All'
  BY NextKeepsRow, NextKeepsTells
<1>3. All => StatusTellsCredit
  BY DEF StatusTellsCredit, TellsInv, Plain, NotCredited
<1> HIDE DEF All
<1> QED
  BY <1>1, <1>2, <1>3, TypeCorrect, PTL DEF Spec

-----------------------------------------------------------------------------

\* What NeverReopened asks of one step and one deposit.
KeepsClosed(d) ==
  "touched" \notin mark'[d] =>
    /\ status[d] # "NONE" /\ status'[d] = "PENDING" => status[d] = "PENDING"
    /\ status'[d] = "PROCESS" => status[d] \in {"PENDING", "PROCESS"}

\* Only createDeposit writes PENDING, into a row that was not there, and only
\* the callback writes PROCESS, over PENDING.
LEMMA StepKeepsClosed ==
  ASSUME TypeOK, RowInv, [Next]_vars, NEW d \in Deposits
  PROVE  KeepsClosed(d)
<1>1. ASSUME NEW r \in Requests, RequestStarts(r)
      PROVE  KeepsClosed(d)
  <2>1. ASSUME NEW c \in Deposits, CreatePayment(r, c) \/ CancelFind(r, c)
        PROVE  KeepsClosed(d)
    BY <2>1 DEF CreatePayment, CancelFind, KeepsClosed
  <2>2. ASSUME NEW c \in Deposits, DepositCallback(r, c)
        PROVE  KeepsClosed(d)
    BY <2>2 DEF DepositCallback, KeepsClosed, TypeOK
  <2>3. ASSUME NEW c \in Deposits, NEW new \in AdminStatuses,
               UpdateStatusDeposit(r, c, new)
        PROVE  KeepsClosed(d)
    BY <2>3 DEF UpdateStatusDeposit, KeepsClosed, TypeOK
  <2> QED
    BY <1>1, <2>1, <2>2, <2>3 DEF RequestStarts
<1>2. ASSUME NEW r \in Requests, RequestGoesOn(r)
      PROVE  KeepsClosed(d)
  <2>1. CASE CreateCommit(r)
    BY <2>1 DEF CreateCommit, KeepsClosed, RowInv, TypeOK
  <2>2. CASE CreateRollback(r) \/ AddDepositProcessJob(r) \/ QueueAddFails(r)
    BY <2>2 DEF CreateRollback, AddDepositProcessJob, QueueAddFails, KeepsClosed
  <2>3. CASE CancelWrite(r)
    BY <2>3 DEF CancelWrite, KeepsClosed, TypeOK
  <2> QED
    BY <1>2, <2>1, <2>2, <2>3 DEF RequestGoesOn
<1>3. ASSUME NEW j \in Jobs, JobGoesOn(j)
      PROVE  KeepsClosed(d)
  <2>1. CASE FinishDeposit(j)
    BY <2>1 DEF FinishDeposit, KeepsClosed, TypeOK
  <2>2. CASE ~FinishDeposit(j)
    BY <1>3, <2>2
       DEF JobGoesOn, FindDeposit, CreditDeposit, DepositJobError, KeepsClosed
  <2> QED
    BY <2>1, <2>2
<1>4. CASE HandleExpiredDeposit
  BY <1>4 DEF HandleExpiredDeposit, KeepsClosed
<1>5. CASE Environment
  BY <1>5 DEF Environment, SettleInvoice, PassDeadline, Crash, KeepsClosed
<1>6. CASE UNCHANGED vars
  BY <1>6 DEF vars, KeepsClosed
<1> QED
  BY <1>1, <1>2, <1>3, <1>4, <1>5, <1>6 DEF Next

\* Whatever callback, job, cron and cancellation do, and in whatever order, a
\* closed deposit is not processed again and none becomes PENDING again.
THEOREM Never_Reopened == Spec => NeverReopened
<1>1. TypeOK /\ RowInv /\ [Next]_vars =>
        [\A d \in Deposits :
           "touched" \notin mark'[d] =>
             /\ status[d] # "NONE" /\ status'[d] = "PENDING"
                  => status[d] = "PENDING"
             /\ status'[d] = "PROCESS" => status[d] \in {"PENDING", "PROCESS"}
        ]_vars
  BY StepKeepsClosed DEF KeepsClosed
<1>2. Init => RowInv
  BY InitInv
<1>3. TypeOK /\ RowInv /\ [Next]_vars => RowInv'
  BY NextKeepsRow
<1> QED
  BY <1>1, <1>2, <1>3, TypeCorrect, PTL DEF Spec, NeverReopened

-----------------------------------------------------------------------------
(* NothingForgotten.  A deposit in PROCESS that was not credited is carried *)
(* by the handler that will add its job or by a job that will credit it;    *)
(* whoever drops it leaves one of the marks of Forfeited.                   *)

Carried(d) ==
  \/ \E r \in Requests : WillEnqueue(r, d)
  \/ \E j \in Jobs : JobOf(j, d) /\ job[j].at \in {"waiting", "found"}

Dropped(d) == mark[d] \cap {"touched", "lost", "errored"} # {}

CarriedInv(d) ==
  ~Dropped(d) /\ credits[d] = 0 =>
    /\ status[d] # "SUCCESS"
    /\ status[d] = "PROCESS" => Carried(d)

\* A step that neither credits nor moves a deposit to PROCESS or SUCCESS, and
\* leaves who carries it or its mark.
LEMMA CarriedKeeps ==
  ASSUME NEW d \in Deposits, CarriedInv(d), mark[d] \subseteq mark'[d],
         credits'[d] = 0 => credits[d] = 0,
         status'[d] \in {"SUCCESS", "PROCESS"} => status'[d] = status[d],
         Carried(d) => Carried(d)' \/ Dropped(d)'
  PROVE  CarriedInv(d)'
<1>1. Dropped(d) => Dropped(d)'
  BY DEF Dropped
<1> QED
  BY <1>1 DEF CarriedInv

\* The requests.
LEMMA RequestsCarry ==
  ASSUME TypeOK, RowInv, NEW d \in Deposits, CarriedInv(d), NEW r \in Requests,
         RequestStarts(r) \/ RequestGoesOn(r)
  PROVE  CarriedInv(d)'
<1>1. ASSUME request[r].at # "enqueueing", job' = job,
             \A q \in Requests \ {r} : request'[q] = request[q]
      PROVE  Carried(d) => Carried(d)'
  BY <1>1 DEF Carried, WillEnqueue, JobOf
<1>2. ASSUME NEW c \in Deposits, CreatePayment(r, c) \/ CancelFind(r, c)
      PROVE  CarriedInv(d)'
  <2>1. Carried(d) => Carried(d)'
    BY <1>1, <1>2 DEF CreatePayment, CancelFind, TypeOK
  <2> QED
    BY <1>2, <2>1, CarriedKeeps DEF CreatePayment, CancelFind
<1>3. ASSUME NEW c \in Deposits, DepositCallback(r, c)
      PROVE  CarriedInv(d)'
  <2>1. CASE c = d
    <3>1. status'[d] = "PROCESS"
      BY <1>3, <2>1 DEF DepositCallback, TypeOK
    <3>2. request'[r] = [at |-> "enqueueing", deposit |-> d]
      BY <1>3, <2>1 DEF DepositCallback, TypeOK
    <3>3. Carried(d)'
      BY <3>2 DEF Carried, WillEnqueue
    <3> QED
      BY <3>1, <3>3 DEF CarriedInv
  <2>2. CASE c # d
    <3>1. Carried(d) => Carried(d)'
      BY <1>1, <1>3 DEF DepositCallback, TypeOK
    <3> QED
      BY <1>3, <2>2, <3>1, CarriedKeeps DEF DepositCallback, TypeOK
  <2> QED
    BY <2>1, <2>2
<1>4. ASSUME NEW c \in Deposits, NEW new \in AdminStatuses,
             UpdateStatusDeposit(r, c, new)
      PROVE  CarriedInv(d)'
  <2>1. CASE c = d
    <3>1. "touched" \in mark'[d]
      BY <1>4, <2>1 DEF UpdateStatusDeposit, TypeOK
    <3> QED
      BY <3>1 DEF CarriedInv, Dropped
  <2>2. CASE c # d
    <3>1. Carried(d) => Carried(d)'
      BY <1>1, <1>4 DEF UpdateStatusDeposit, TypeOK
    <3> QED
      BY <1>4, <2>2, <3>1, CarriedKeeps DEF UpdateStatusDeposit, TypeOK
  <2> QED
    BY <2>1, <2>2
<1>5. ASSUME CreateCommit(r)
      PROVE  CarriedInv(d)'
  <2>1. Carried(d) => Carried(d)'
    BY <1>1, <1>5 DEF CreateCommit, TypeOK
  <2>2. status'[d] \in {"SUCCESS", "PROCESS"} => status'[d] = status[d]
    BY <1>5 DEF CreateCommit, TypeOK
  <2> QED
    BY <1>5, <2>1, <2>2, CarriedKeeps DEF CreateCommit
<1>6. ASSUME CreateRollback(r)
      PROVE  CarriedInv(d)'
  <2>1. Carried(d) => Carried(d)'
    BY <1>1, <1>6 DEF CreateRollback, TypeOK
  <2> QED
    BY <1>6, <2>1, CarriedKeeps DEF CreateRollback
<1>7. ASSUME AddDepositProcessJob(r)
      PROVE  CarriedInv(d)'
  <2>1. PICK j \in Jobs :
          /\ job[j].at = "none"
          /\ job'[j].at = "waiting" /\ job'[j].deposit = request[r].deposit
          /\ \A i \in Jobs \ {j} : job'[i] = job[i]
    BY <1>7 DEF AddDepositProcessJob, TypeOK
  <2>2. \A q \in Requests \ {r} : request'[q] = request[q]
    BY <1>7 DEF AddDepositProcessJob, TypeOK
  <2>3. WillEnqueue(r, d) => Carried(d)'
    BY <2>1 DEF WillEnqueue, Carried, JobOf
  <2>4. Carried(d) => Carried(d)'
    BY <2>1, <2>2, <2>3 DEF Carried, WillEnqueue, JobOf
  <2> QED
    BY <1>7, <2>4, CarriedKeeps DEF AddDepositProcessJob
<1>8. ASSUME CancelWrite(r)
      PROVE  CarriedInv(d)'
  <2>1. Carried(d) => Carried(d)'
    BY <1>1, <1>8 DEF CancelWrite, TypeOK
  <2>2. status'[d] \in {"SUCCESS", "PROCESS"} => status'[d] = status[d]
    BY <1>8 DEF CancelWrite, TypeOK
  <2>3. mark[d] \subseteq mark'[d]
    BY <1>8 DEF CancelWrite, TypeOK
  <2> QED
    BY <1>8, <2>1, <2>2, <2>3, CarriedKeeps DEF CancelWrite
<1>9. ASSUME QueueAddFails(r)
      PROVE  CarriedInv(d)'
  <2>1. /\ \A q \in Requests \ {r} : request'[q] = request[q]
        /\ UNCHANGED <<status, job, credits>>
        /\ mark[d] \subseteq mark'[d]
    BY <1>9 DEF QueueAddFails, TypeOK
  <2>2. WillEnqueue(r, d) => "lost" \in mark'[d]
    BY <1>9 DEF WillEnqueue, QueueAddFails, TypeOK
  <2>3. Carried(d) => Carried(d)' \/ Dropped(d)'
    BY <2>1, <2>2 DEF Carried, Dropped, WillEnqueue, JobOf
  <2> QED
    BY <2>1, <2>3, CarriedKeeps
<1> QED
  BY <1>2, <1>3, <1>4, <1>5, <1>6, <1>7, <1>8, <1>9
     DEF RequestStarts, RequestGoesOn

\* The jobs: the one that credits has found the deposit, the one that reports
\* SUCCESS has credited it, and the one that fails leaves its mark.
LEMMA JobsCarry ==
  ASSUME TypeOK, NEW d \in Deposits, TellsInv(d), CarriedInv(d),
         NEW j \in Jobs, JobGoesOn(j)
  PROVE  CarriedInv(d)'
<1>1. /\ job[j].at # "none" /\ job[j].deposit \in Deposits /\ request' = request
      /\ mark[d] \subseteq mark'[d]
  BY JobType DEF JobGoesOn, FindDeposit, CreditDeposit, FinishDeposit,
                 DepositJobError, Running, TypeOK
<1>2. PICK at : job' = [job EXCEPT ![j].at = at]
  BY DEF JobGoesOn, FindDeposit, CreditDeposit, FinishDeposit, DepositJobError
<1>3. /\ job'[j].at = at /\ job'[j].deposit = job[j].deposit
      /\ \A i \in Jobs \ {j} : job'[i] = job[i]
  <2>1. job'[j] = [job[j] EXCEPT !.at = at]
    BY <1>2 DEF TypeOK
  <2> QED
    BY <1>1, <1>2, <2>1, JobAt DEF TypeOK
<1>4. CASE job[j].deposit # d
  <2>1. Carried(d) => Carried(d)'
    BY <1>1, <1>3, <1>4 DEF Carried, WillEnqueue, JobOf
  <2>2. status'[d] = status[d] /\ credits'[d] = credits[d]
    BY <1>4 DEF JobGoesOn, FindDeposit, CreditDeposit, FinishDeposit,
                DepositJobError, TypeOK
  <2> QED
    BY <1>1, <2>1, <2>2, CarriedKeeps
<1>5. CASE job[j].deposit = d /\ FindDeposit(j)
  <2>1. status' = status /\ credits' = credits
    BY <1>5 DEF FindDeposit
  <2>2. status[d] = "PROCESS" => job'[j].at = "found"
    <3>1. job'[j] = [job[j] EXCEPT !.at =
                       IF status[job[j].deposit] = "PROCESS" THEN "found" ELSE "done"]
      BY <1>5 DEF FindDeposit, TypeOK
    <3> QED
      BY <1>1, <1>5, <3>1, JobAt
  <2>3. status[d] = "PROCESS" => Carried(d)'
    BY <1>3, <1>5, <2>2 DEF Carried, JobOf
  <2> QED
    BY <1>1, <2>1, <2>3 DEF CarriedInv, Dropped
<1>6. CASE job[j].deposit = d /\ CreditDeposit(j)
  <2>1. credits'[d] # 0
    BY <1>6 DEF CreditDeposit, TypeOK
  <2> QED
    BY <2>1 DEF CarriedInv
<1>7. CASE job[j].deposit = d /\ FinishDeposit(j)
  <2>1. credits'[d] >= 1
    BY <1>7 DEF FinishDeposit, TellsInv, JobOf
  <2> QED
    BY <2>1 DEF CarriedInv
<1>8. CASE job[j].deposit = d /\ DepositJobError(j)
  <2>1. "errored" \in mark'[d]
    BY <1>8 DEF DepositJobError, TypeOK
  <2> QED
    BY <2>1 DEF CarriedInv, Dropped
<1> QED
  BY <1>4, <1>5, <1>6, <1>7, <1>8 DEF JobGoesOn

\* A crash drops what a request was about to enqueue and the stalled jobs that
\* are not put back; it marks the deposits of both.
LEMMA CrashCarries ==
  ASSUME TypeOK, NEW d \in Deposits, CarriedInv(d), Crash
  PROVE  CarriedInv(d)'
<1>1. ASSUME NEW r \in Requests, WillEnqueue(r, d)
      PROVE  "lost" \in mark'[d]
  BY <1>1 DEF Crash, WillEnqueue, Enqueueing
<1>2. ASSUME NEW j \in Jobs, JobOf(j, d), job[j].at \in {"waiting", "found"}
      PROVE  Carried(d)' \/ Dropped(d)'
  <2>1. CASE j \in PutBack
    <3>1. job'[j].at = "waiting" /\ job'[j].deposit = d
      BY <1>2, <2>1 DEF Crash, JobOf
    <3> QED
      BY <3>1 DEF Carried, JobOf
  <2>2. CASE j \in Running \ PutBack
    <3>1. "errored" \in mark'[d]
      BY <1>2, <2>2 DEF Crash, JobOf
    <3> QED
      BY <3>1 DEF Dropped
  <2>3. CASE j \notin Running
    <3>1. job'[j] = job[j]
      BY <2>3 DEF Crash, PutBack
    <3> QED
      BY <1>2, <3>1 DEF Carried, JobOf
  <2> QED
    BY <2>1, <2>2, <2>3
<1>3. Carried(d) => Carried(d)' \/ Dropped(d)'
  BY <1>1, <1>2 DEF Carried, Dropped
<1>4. mark[d] \subseteq mark'[d]
  BY DEF Crash
<1> QED
  BY <1>3, <1>4, CarriedKeeps DEF Crash

LEMMA NextKeepsCarried ==
  ASSUME TypeOK, RowInv, NEW d \in Deposits, TellsInv(d), CarriedInv(d),
         [Next]_vars
  PROVE  CarriedInv(d)'
<1>1. CASE HandleExpiredDeposit
  <2>1. /\ status'[d] \in {"SUCCESS", "PROCESS"} => status'[d] = status[d]
        /\ UNCHANGED <<request, job, credits, mark>>
    BY <1>1 DEF HandleExpiredDeposit
  <2>2. Carried(d) => Carried(d)'
    BY <2>1 DEF Carried, WillEnqueue, JobOf
  <2> QED
    BY <2>1, <2>2, CarriedKeeps
<1>2. CASE \/ \E c \in Deposits, outcome \in {"paid", "canceled"} :
                SettleInvoice(c, outcome)
           \/ \E c \in Deposits : PassDeadline(c)
           \/ UNCHANGED vars
  <2>1. UNCHANGED <<status, request, job, credits, mark>>
    BY <1>2 DEF SettleInvoice, PassDeadline, vars
  <2>2. Carried(d) => Carried(d)'
    BY <2>1 DEF Carried, WillEnqueue, JobOf
  <2> QED
    BY <2>1, <2>2, CarriedKeeps
<1> QED
  BY <1>1, <1>2, RequestsCarry, JobsCarry, CrashCarries DEF Next, Environment

\* A deposit that was paid, and neither credited nor forfeited, always has
\* somebody who will bring it on: the interleaving of callbacks, cancellations,
\* the cron, jobs and crashes never leaves it where nobody looks at it again.
THEOREM Nothing_Forgotten == Spec => []NothingForgotten
<1> DEFINE All == /\ RowInv
                  /\ \A d \in Deposits : TellsInv(d)
                  /\ \A d \in Deposits : CarriedInv(d)
<1>1. Init => All
  <2>1. Init => \A d \in Deposits : TellsInv(d) /\ CarriedInv(d)
    BY DEF Init, Idle, TellsInv, CarriedInv, WillEnqueue, JobOf
  <2> QED
    BY <2>1, InitInv
<1>2. TypeOK /\ All /\ [Next]_vars => All'
  BY NextKeepsRow, NextKeepsTells, NextKeepsCarried
<1>3. TypeOK /\ All => NothingForgotten
  <2> SUFFICES ASSUME TypeOK, All, NEW d \in Deposits,
                      ~(credits[d] > 0), ~Forfeited(d)
               PROVE  Awaited(d)
    BY DEF NothingForgotten
  <2>1. credits[d] = 0
    BY DEF TypeOK
  <2>2. ~Dropped(d) /\ status[d] \notin {"CANCELED", "EXPIRED"}
    BY DEF Forfeited, Dropped
  <2>3. CASE status[d] = "NONE"
    BY <2>3 DEF Forfeited, Awaited
  <2>4. CASE status[d] = "PENDING"
    BY <2>4 DEF Awaited
  <2>5. CASE status[d] = "PROCESS"
    <3>1. Carried(d)
      BY <2>1, <2>2, <2>5 DEF CarriedInv
    <3> QED
      BY <2>5, <3>1 DEF Carried, WillEnqueue, JobOf, Awaited, Enqueueing
  <2>6. status[d] # "SUCCESS"
    BY <2>1, <2>2 DEF CarriedInv
  <2> QED
    BY <2>2, <2>3, <2>4, <2>5, <2>6 DEF TypeOK, DepositStatus
<1> HIDE DEF All
<1> QED
  BY <1>1, <1>2, <1>3, TypeCorrect, PTL DEF Spec

-----------------------------------------------------------------------------
(* CreditsBoundedByReruns: of the runs of a deposit's job, the one in which *)
(* it is now and those a crash ended have credited once each at most.       *)

Plainly(d) == "touched" \notin mark[d]

\* As OnceInv, but for a job that is run again after it credited: its credits
\* are covered by its stalls.
RerunInv(d) ==
  Plainly(d) =>
    /\ status[d] \in {"NONE", "PENDING"} =>
         /\ \A r \in Requests : ~WillEnqueue(r, d)
         /\ \A j \in Jobs : ~JobOf(j, d)
    /\ \A r \in Requests : WillEnqueue(r, d) =>
         /\ \A q \in Requests : WillEnqueue(q, d) => q = r
         /\ \A j \in Jobs : ~JobOf(j, d)
    /\ (\A j \in Jobs : ~JobOf(j, d)) => credits[d] = 0
    /\ \A j \in Jobs : JobOf(j, d) =>
         /\ \A i \in Jobs : JobOf(i, d) => i = j
         /\ job[j].stalls <= crashes
         /\ credits[d] <= job[j].stalls + 1
         /\ job[j].at \in {"waiting", "found"} => credits[d] <= job[j].stalls

\* What a step leaves of job i that is not the one to credit, to be added or
\* to be put back.
JobGoesBy(i, d) ==
  /\ JobOf(i, d)' <=> JobOf(i, d)
  /\ JobOf(i, d) =>
       /\ job'[i].stalls = job[i].stalls
       /\ job'[i].at \in {"waiting", "found"} => job[i].at \in {"waiting", "found"}

\* A step that gives nobody the right to credit deposit d.
GoesBy(d) ==
  /\ Plainly(d)
  /\ credits'[d] = credits[d] /\ crashes' = crashes
  /\ status'[d] \in {"NONE", "PENDING"} => status[d] \in {"NONE", "PENDING"}
  /\ \A r \in Requests : WillEnqueue(r, d)' => WillEnqueue(r, d)
  /\ \A i \in Jobs : JobGoesBy(i, d)

LEMMA GoingByKeepsReruns ==
  ASSUME NEW d \in Deposits, RerunInv(d), Plainly(d)' => GoesBy(d)
  PROVE  RerunInv(d)'
BY DEF RerunInv, GoesBy, JobGoesBy

\* A job is moved on, neither put back nor credited.
LEMMA MovedJobGoesBy ==
  ASSUME TypeOK, NEW d \in Deposits, NEW j \in Jobs, job[j].at # "none",
         NEW at, at # "none",
         at \in {"waiting", "found"} => job[j].at \in {"waiting", "found"},
         job' = [job EXCEPT ![j].at = at]
  PROVE  \A i \in Jobs : JobGoesBy(i, d)
<1>1. job'[j] = [at |-> at, deposit |-> job[j].deposit, stalls |-> job[j].stalls]
      /\ \A i \in Jobs \ {j} : job'[i] = job[i]
  BY JobAt DEF TypeOK
<1> QED
  BY <1>1 DEF JobGoesBy, JobOf

LEMMA RequestGoesBy ==
  ASSUME TypeOK, RowInv, NEW d \in Deposits, Plainly(d)', NEW r \in Requests,
         RequestStarts(r) \/ RequestGoesOn(r), ~DepositCallback(r, d),
         AddDepositProcessJob(r) => request[r].deposit # d
  PROVE  GoesBy(d)
<1>1. ASSUME NEW s \in {"idle", "creating", "cancelling"}, NEW rest,
             request' = [request EXCEPT ![r] = rest], rest.at = s
      PROVE  \A q \in Requests : WillEnqueue(q, d)' => WillEnqueue(q, d)
  BY <1>1 DEF WillEnqueue, TypeOK
<1>2. job' = job => \A i \in Jobs : JobGoesBy(i, d)
  BY DEF JobGoesBy, JobOf
<1>3. mark' = mark => Plainly(d)
  BY DEF Plainly
<1>4. ASSUME NEW e \in Deposits, CreatePayment(r, e) \/ CancelFind(r, e)
      PROVE  GoesBy(d)
  BY <1>1, <1>2, <1>3, <1>4 DEF CreatePayment, CancelFind, GoesBy
<1>5. ASSUME NEW e \in Deposits, DepositCallback(r, e)
      PROVE  GoesBy(d)
  <2>1. /\ e # d /\ job' = job /\ credits' = credits /\ mark' = mark
        /\ crashes' = crashes
        /\ status' = [status EXCEPT ![e] = "PROCESS"]
        /\ request' = [request EXCEPT ![r] = [at |-> "enqueueing", deposit |-> e]]
    BY <1>5 DEF DepositCallback
  <2>2. status'[d] = status[d]
    BY <2>1 DEF TypeOK
  <2>3. \A q \in Requests : WillEnqueue(q, d)' => WillEnqueue(q, d)
    BY <2>1 DEF WillEnqueue, TypeOK
  <2> QED
    BY <1>2, <1>3, <2>1, <2>2, <2>3 DEF GoesBy
<1>6. ASSUME NEW e \in Deposits, NEW new \in AdminStatuses,
             UpdateStatusDeposit(r, e, new)
      PROVE  GoesBy(d)
  <2>1. d # e
    BY <1>6 DEF UpdateStatusDeposit, Plainly, TypeOK
  <2>2. /\ status'[d] = status[d] /\ mark'[d] = mark[d]
        /\ job' = job /\ credits' = credits /\ crashes' = crashes
    BY <1>6, <2>1 DEF UpdateStatusDeposit, TypeOK
  <2>3. \A q \in Requests : WillEnqueue(q, d)' => WillEnqueue(q, d)
    BY <1>6, <2>1 DEF UpdateStatusDeposit, WillEnqueue, TypeOK
  <2> QED
    BY <1>2, <2>2, <2>3 DEF GoesBy, Plainly
<1>7. CASE CreateCommit(r)
  <2>1. status[request[r].deposit] = "NONE"
    BY <1>7 DEF CreateCommit, RowInv
  <2>2. status'[d] \in {"NONE", "PENDING"} => status[d] \in {"NONE", "PENDING"}
    BY <1>7, <2>1 DEF CreateCommit, TypeOK
  <2> QED
    BY <1>1, <1>2, <1>3, <1>7, <2>2 DEF CreateCommit, GoesBy, Idle
<1>8. CASE CreateRollback(r)
  BY <1>1, <1>2, <1>3, <1>8 DEF CreateRollback, GoesBy, Idle
<1>9. CASE CancelWrite(r)
  <2>1. /\ status'[d] \in {"NONE", "PENDING"} => status[d] \in {"NONE", "PENDING"}
        /\ mark[d] \subseteq mark'[d]
    BY <1>9 DEF CancelWrite, TypeOK
  <2>2. Plainly(d)
    BY <2>1 DEF Plainly
  <2> QED
    BY <1>1, <1>2, <1>9, <2>1, <2>2 DEF CancelWrite, GoesBy, Idle
<1>10. CASE AddDepositProcessJob(r)
  <2>1. PICK j \in Jobs :
          /\ job[j].at = "none" /\ job'[j].deposit = request[r].deposit
          /\ \A i \in Jobs \ {j} : job'[i] = job[i]
    BY <1>10 DEF AddDepositProcessJob, TypeOK
  <2>2. \A i \in Jobs : JobGoesBy(i, d)
    BY <1>10, <2>1 DEF JobGoesBy, JobOf
  <2> QED
    BY <1>1, <1>3, <1>10, <2>2 DEF AddDepositProcessJob, GoesBy, Idle
<1>11. CASE QueueAddFails(r)
  <2>1. mark[d] \subseteq mark'[d]
    BY <1>11 DEF QueueAddFails, TypeOK
  <2>2. Plainly(d)
    BY <2>1 DEF Plainly
  <2> QED
    BY <1>1, <1>2, <1>11, <2>2 DEF QueueAddFails, GoesBy, Idle
<1> QED
  BY <1>4, <1>5, <1>6, <1>7, <1>8, <1>9, <1>10, <1>11
     DEF RequestStarts, RequestGoesOn

LEMMA JobStepGoesBy ==
  ASSUME TypeOK, NEW d \in Deposits, Plainly(d)', NEW j \in Jobs, JobGoesOn(j),
         CreditDeposit(j) => job[j].deposit # d
  PROVE  GoesBy(d)
<1>1. request' = request => \A q \in Requests : WillEnqueue(q, d)' => WillEnqueue(q, d)
  BY DEF WillEnqueue
<1>2. CASE FindDeposit(j)
  <2>1. \A i \in Jobs : JobGoesBy(i, d)
    BY <1>2, MovedJobGoesBy DEF FindDeposit
  <2> QED
    BY <1>1, <1>2, <2>1 DEF FindDeposit, GoesBy, Plainly
<1>3. CASE CreditDeposit(j)
  <2>1. \A i \in Jobs : JobGoesBy(i, d)
    BY <1>3, MovedJobGoesBy DEF CreditDeposit
  <2>2. credits'[d] = credits[d]
    BY <1>3 DEF CreditDeposit, TypeOK
  <2> QED
    BY <1>1, <1>3, <2>1, <2>2 DEF CreditDeposit, GoesBy, Plainly
<1>4. CASE FinishDeposit(j)
  <2>1. \A i \in Jobs : JobGoesBy(i, d)
    BY <1>4, MovedJobGoesBy DEF FinishDeposit
  <2>2. status'[d] \in {"NONE", "PENDING"} => status[d] \in {"NONE", "PENDING"}
    BY <1>4 DEF FinishDeposit, TypeOK
  <2> QED
    BY <1>1, <1>4, <2>1, <2>2 DEF FinishDeposit, GoesBy, Plainly
<1>5. CASE DepositJobError(j)
  <2>1. \A i \in Jobs : JobGoesBy(i, d)
    BY <1>5, MovedJobGoesBy DEF DepositJobError, Running
  <2>2. Plainly(d)
    BY <1>5 DEF DepositJobError, Plainly, TypeOK
  <2> QED
    BY <1>1, <1>5, <2>1, <2>2 DEF DepositJobError, GoesBy
<1> QED
  BY <1>2, <1>3, <1>4, <1>5 DEF JobGoesOn

\* The callback takes the right from the PENDING row.
LEMMA CallbackKeepsReruns ==
  ASSUME TypeOK, NEW d \in Deposits, RerunInv(d), NEW r \in Requests,
         DepositCallback(r, d)
  PROVE  RerunInv(d)'
<1>1. /\ \A q \in Requests \ {r} : request'[q] = request[q]
      /\ job' = job /\ credits' = credits /\ mark' = mark /\ crashes' = crashes
      /\ status[d] = "PENDING" /\ status'[d] = "PROCESS"
  BY DEF DepositCallback, TypeOK
<1>2. \A q \in Requests : WillEnqueue(q, d)' => q = r \/ WillEnqueue(q, d)
  BY <1>1 DEF WillEnqueue
<1>3. \A j \in Jobs : JobOf(j, d)' <=> JobOf(j, d)
  BY <1>1 DEF JobOf
<1>4. Plainly(d)' => Plainly(d)
  BY <1>1 DEF Plainly
<1> QED
  BY <1>1, <1>2, <1>3, <1>4 DEF RerunInv

\* The handler hands it to the job.
LEMMA EnqueueKeepsReruns ==
  ASSUME TypeOK, RowInv, NEW d \in Deposits, RerunInv(d), NEW r \in Requests,
         AddDepositProcessJob(r), request[r].deposit = d
  PROVE  RerunInv(d)'
<1>1. /\ request[r].at = "enqueueing" /\ request'[r].at = "idle"
      /\ \A q \in Requests \ {r} : request'[q] = request[q]
      /\ status' = status /\ credits' = credits /\ mark' = mark
      /\ crashes' = crashes
  BY DEF AddDepositProcessJob, TypeOK, Idle
<1>2. PICK j \in Jobs :
        /\ job[j].at = "none"
        /\ job'[j] = [at |-> "waiting", deposit |-> d, stalls |-> 0]
        /\ \A i \in Jobs \ {j} : job'[i] = job[i]
  BY DEF AddDepositProcessJob, TypeOK
<1>3. WillEnqueue(r, d)
  BY <1>1 DEF WillEnqueue
<1>4. \A q \in Requests : WillEnqueue(q, d)' => q # r /\ WillEnqueue(q, d)
  BY <1>1 DEF WillEnqueue
<1>5. /\ \A i \in Jobs : JobOf(i, d)' => i = j \/ JobOf(i, d)
      /\ JobOf(j, d)'
  BY <1>2 DEF JobOf
<1>6. Plainly(d)' => Plainly(d)
  BY <1>1 DEF Plainly
<1>7. crashes \in Nat
  BY MaxCrashesAssumption DEF TypeOK
<1> SUFFICES ASSUME Plainly(d)'
             PROVE  RerunInv(d)'
  BY DEF RerunInv
<1>8. /\ credits[d] = 0 /\ status[d] \notin {"NONE", "PENDING"}
      /\ \A i \in Jobs : ~JobOf(i, d)
      /\ \A q \in Requests : ~WillEnqueue(q, d)'
  BY <1>3, <1>4, <1>6 DEF RerunInv
<1>9. \A i \in Jobs : JobOf(i, d)' => i = j
  BY <1>5, <1>8
<1>10. job'[j].stalls <= crashes' /\ credits'[d] <= job'[j].stalls
       /\ credits'[d] <= job'[j].stalls + 1
  BY <1>1, <1>2, <1>7, <1>8
<1> QED
  BY <1>1, <1>5, <1>8, <1>9, <1>10 DEF RerunInv

\* The job uses it.
LEMMA CreditKeepsReruns ==
  ASSUME TypeOK, NEW d \in Deposits, RerunInv(d), NEW j \in Jobs,
         CreditDeposit(j), job[j].deposit = d
  PROVE  RerunInv(d)'
<1>1. /\ job[j].at = "found" /\ job[j].stalls \in Nat
      /\ job'[j] = [at |-> "credited", deposit |-> d, stalls |-> job[j].stalls]
      /\ \A i \in Jobs \ {j} : job'[i] = job[i]
  BY JobAt, JobType DEF CreditDeposit, TypeOK
<1>2. /\ request' = request /\ status' = status /\ mark' = mark
      /\ crashes' = crashes /\ credits'[d] = credits[d] + 1 /\ credits[d] \in Nat
  BY DEF CreditDeposit, TypeOK
<1>3. /\ \A q \in Requests : WillEnqueue(q, d)' <=> WillEnqueue(q, d)
      /\ Plainly(d)' => Plainly(d)
      /\ \A i \in Jobs : JobOf(i, d)' <=> JobOf(i, d)
      /\ JobOf(j, d)
  BY <1>1, <1>2 DEF WillEnqueue, Plainly, JobOf
<1> SUFFICES ASSUME Plainly(d)'
             PROVE  RerunInv(d)'
  BY DEF RerunInv
<1>4. /\ \A i \in Jobs : JobOf(i, d) => i = j
      /\ job[j].stalls <= crashes /\ credits[d] <= job[j].stalls
  BY <1>1, <1>3 DEF RerunInv
<1>5. /\ job'[j].stalls <= crashes' /\ credits'[d] <= job'[j].stalls + 1
      /\ job'[j].at \notin {"waiting", "found"}
  BY <1>1, <1>2, <1>4
<1>6. /\ status[d] \notin {"NONE", "PENDING"}
      /\ \A q \in Requests : ~WillEnqueue(q, d)
  BY <1>3 DEF RerunInv
<1> QED
  BY <1>2, <1>3, <1>4, <1>5, <1>6 DEF RerunInv

\* A crash puts a job back with one more stall, or leaves its stalls.
LEMMA CrashedJobs ==
  ASSUME TypeOK, Crash, NEW j \in Jobs, job[j].at # "none"
  PROVE  /\ job'[j].at # "none" /\ job'[j].deposit = job[j].deposit
         /\ \/ job'[j].at = "waiting" /\ job'[j].stalls = job[j].stalls + 1
            \/ /\ job[j].at # "done" /\ job'[j].at = "done"
               /\ job'[j].stalls = job[j].stalls
            \/ job'[j] = job[j]
<1>1. CASE j \in PutBack
  <2>1. job'[j] = [at |-> "waiting", deposit |-> job[j].deposit,
                   stalls |-> job[j].stalls + 1]
    BY <1>1 DEF Crash
  <2> QED
    BY <2>1
<1>2. CASE j \in Running \ PutBack
  <2>1. job'[j] = [at |-> "done", deposit |-> job[j].deposit,
                   stalls |-> job[j].stalls]
    BY <1>2, JobAt DEF Crash
  <2>2. job[j].at # "done"
    BY <1>2 DEF Running
  <2> QED
    BY <2>1, <2>2
<1>3. CASE j \notin Running
  BY <1>3 DEF Crash, PutBack
<1> QED
  BY <1>1, <1>2, <1>3

LEMMA CrashKeepsReruns ==
  ASSUME TypeOK, NEW d \in Deposits, RerunInv(d), Crash
  PROVE  RerunInv(d)'
<1>1. \A q \in Requests : ~WillEnqueue(q, d)'
  BY DEF Crash, Idle, WillEnqueue
<1>2. credits' = credits /\ status' = status /\ crashes' = crashes + 1
      /\ mark[d] \subseteq mark'[d]
  BY DEF Crash
<1>3. crashes \in Nat /\ credits[d] \in Nat
      /\ \A j \in Jobs : job[j].at # "none" => job[j].stalls \in Nat
  BY MaxCrashesAssumption, JobType DEF TypeOK
<1>4. \A j \in Jobs : job[j].at = "none" => job'[j] = job[j]
  BY DEF Crash, PutBack, Running
<1>5. \A j \in Jobs : JobOf(j, d)' <=> JobOf(j, d)
  BY <1>4, CrashedJobs DEF JobOf
<1> SUFFICES ASSUME Plainly(d)'
             PROVE  RerunInv(d)'
  BY DEF RerunInv
<1>6. Plainly(d)
  BY <1>2 DEF Plainly
<1>7. ASSUME NEW j \in Jobs, JobOf(j, d)
      PROVE  /\ job'[j].stalls <= crashes' /\ credits'[d] <= job'[j].stalls + 1
             /\ job'[j].at \in {"waiting", "found"} =>
                  credits'[d] <= job'[j].stalls
  <2>1. job[j].at # "none" /\ job[j].stalls \in Nat
    BY <1>3, <1>7 DEF JobOf
  <2>2. /\ job[j].stalls <= crashes /\ credits[d] <= job[j].stalls + 1
        /\ job[j].at \in {"waiting", "found"} => credits[d] <= job[j].stalls
    BY <1>6, <1>7 DEF RerunInv
  <2> QED
    BY <1>2, <1>3, <2>1, <2>2, CrashedJobs
<1> QED
  BY <1>1, <1>2, <1>5, <1>6, <1>7 DEF RerunInv

LEMMA NextKeepsReruns ==
  ASSUME TypeOK, RowInv, [Next]_vars, NEW d \in Deposits, RerunInv(d)
  PROVE  RerunInv(d)'
<1>1. ASSUME NEW r \in Requests, RequestStarts(r) \/ RequestGoesOn(r)
      PROVE  RerunInv(d)'
  <2>1. CASE DepositCallback(r, d)
    BY <2>1, CallbackKeepsReruns
  <2>2. CASE AddDepositProcessJob(r) /\ request[r].deposit = d
    BY <2>2, EnqueueKeepsReruns
  <2> QED
    BY <1>1, <2>1, <2>2, RequestGoesBy, GoingByKeepsReruns
<1>2. ASSUME NEW j \in Jobs, JobGoesOn(j)
      PROVE  RerunInv(d)'
  <2>1. CASE CreditDeposit(j) /\ job[j].deposit = d
    BY <2>1, CreditKeepsReruns
  <2> QED
    BY <1>2, <2>1, JobStepGoesBy, GoingByKeepsReruns
<1>3. CASE Crash
  BY <1>3, CrashKeepsReruns
<1>4. CASE HandleExpiredDeposit \/ (Environment /\ ~Crash) \/ UNCHANGED vars
  <2>1. /\ request' = request /\ job' = job /\ credits' = credits
        /\ crashes' = crashes /\ mark' = mark
        /\ status'[d] \in {"NONE", "PENDING"} => status[d] \in {"NONE", "PENDING"}
    BY <1>4 DEF HandleExpiredDeposit, Environment, SettleInvoice, PassDeadline, vars
  <2>2. GoesBy(d) \/ ~Plainly(d)'
    BY <2>1 DEF GoesBy, JobGoesBy, JobOf, WillEnqueue, Plainly
  <2> QED
    BY <2>2, GoingByKeepsReruns
<1> QED
  BY <1>1, <1>2, <1>3, <1>4 DEF Next, Environment

\* Each crash costs at most one more credit of a deposit, and never more than
\* Bull puts a stalled job back: with the default of one, a deposit is
\* credited twice at most.
THEOREM Credits_Bounded_By_Reruns == Spec => []CreditsBoundedByReruns
<1> DEFINE Inv == RowInv /\ \A d \in Deposits : RerunInv(d)
<1>1. Init => Inv
  <2> SUFFICES ASSUME Init
               PROVE  Inv
    OBVIOUS
  <2>1. \A d \in Deposits : RerunInv(d)
    BY DEF Init, Idle, RerunInv, WillEnqueue, JobOf
  <2> QED
    BY <2>1, InitInv
<1>2. TypeOK /\ Inv /\ [Next]_vars => Inv'
  BY NextKeepsRow, NextKeepsReruns
<1>3. TypeOK /\ Inv => CreditsBoundedByReruns
  <2> SUFFICES ASSUME TypeOK, NEW d \in Deposits, RerunInv(d), Plainly(d)
               PROVE  credits[d] <= 1 + crashes /\ credits[d] <= 1 + MaxStalled
    BY DEF CreditsBoundedByReruns, Plainly
  <2>1. credits[d] \in Nat /\ crashes \in Nat /\ MaxStalled \in Nat
    BY MaxCrashesAssumption, MaxStalledAssumption DEF TypeOK
  <2>2. CASE \A j \in Jobs : ~JobOf(j, d)
    BY <2>1, <2>2 DEF RerunInv
  <2>3. ASSUME NEW j \in Jobs, JobOf(j, d)
        PROVE  credits[d] <= 1 + crashes /\ credits[d] <= 1 + MaxStalled
    <3>1. job[j].stalls \in 0..MaxStalled
      BY <2>3, JobType DEF JobOf
    <3> QED
      BY <2>1, <2>3, <3>1 DEF RerunInv
  <2> QED
    BY <2>2, <2>3
<1> HIDE DEF Inv
<1> QED
  BY <1>1, <1>2, <1>3, TypeCorrect, PTL DEF Spec

-----------------------------------------------------------------------------
(* A job does not go round in circles.                                      *)

LEMMA RunLeftValues ==
  /\ RunLeft("waiting") = 3 /\ RunLeft("found") = 2
  /\ RunLeft("credited") = 1 /\ RunLeft("done") = 0
BY DEF RunLeft

LEMMA StepGoesOn ==
  ASSUME TypeOK, [Next]_vars, NEW j \in Jobs, job[j].at # "none"
  PROVE  job'[j] = job[j] \/ StepsLeft(job'[j]) < StepsLeft(job[j])
<1>1. /\ MaxStalled \in Nat /\ job[j].stalls \in Nat
      /\ RunLeft(job[j].at) \in 0..3
      /\ job[j].at # "done" => RunLeft(job[j].at) > 0
  <2>1. MaxStalled \in Nat /\ job[j].stalls \in Nat
    <3>1. MaxStalled \in Nat
      BY MaxStalledAssumption
    <3>2. job[j].stalls \in 0..MaxStalled
      BY JobType
    <3> QED
      BY <3>1, <3>2
  <2>2. job[j].at \in {"waiting", "found", "credited", "done"}
    BY JobType
  <2>3. RunLeft(job[j].at) \in 0..3
    BY <2>2, RunLeftValues
  <2>4. job[j].at # "done" => RunLeft(job[j].at) > 0
    BY <2>2, RunLeftValues
  <2> QED
    BY <2>1, <2>3, <2>4
<1>2. ASSUME NEW i \in Jobs, JobGoesOn(i)
      PROVE  job'[j] = job[j] \/ StepsLeft(job'[j]) < StepsLeft(job[j])
  <2>1. job[i].at # "none"
    BY <1>2 DEF JobGoesOn, FindDeposit, CreditDeposit, FinishDeposit,
                DepositJobError, Running
  <2>2. PICK at : /\ job' = [job EXCEPT ![i].at = at]
                  /\ RunLeft(at) < RunLeft(job[i].at) /\ RunLeft(at) \in Nat
    BY <1>2, RunLeftValues
       DEF JobGoesOn, FindDeposit, CreditDeposit, FinishDeposit,
           DepositJobError, Running
  <2>3. job'[i] = [at |-> at, deposit |-> job[i].deposit, stalls |-> job[i].stalls]
        /\ \A k \in Jobs \ {i} : job'[k] = job[k]
    BY <2>1, <2>2, JobAt DEF TypeOK
  <2> QED
    BY <1>1, <2>2, <2>3 DEF StepsLeft
<1>3. CASE Crash
  <2>1. CASE job'[j].at = "waiting" /\ job'[j].stalls = job[j].stalls + 1
    BY <1>1, <2>1, RunLeftValues DEF StepsLeft
  <2>2. CASE /\ job[j].at # "done" /\ job'[j].at = "done"
             /\ job'[j].stalls = job[j].stalls
    BY <1>1, <2>2, RunLeftValues DEF StepsLeft
  <2> QED
    BY <1>3, <2>1, <2>2, CrashedJobs
<1>4. ASSUME NEW r \in Requests, AddDepositProcessJob(r)
      PROVE  job'[j] = job[j]
  BY <1>4 DEF AddDepositProcessJob, TypeOK
<1>5. CASE /\ ~Crash /\ \A r \in Requests : ~AddDepositProcessJob(r)
           /\ \A i \in Jobs : ~JobGoesOn(i)
  BY <1>5
     DEF Next, vars, RequestStarts, RequestGoesOn, Environment, CreatePayment,
         DepositCallback, CancelFind, UpdateStatusDeposit, CreateCommit,
         CreateRollback, CancelWrite, QueueAddFails, HandleExpiredDeposit,
         SettleInvoice, PassDeadline
<1> QED
  BY <1>2, <1>3, <1>4, <1>5

\* No job goes round in circles: its handler, an error and crashes only ever
\* leave it fewer steps, so it ends after 4 * (MaxStalled + 1) of them at most.
THEOREM Jobs_Only_Go_On == Spec => JobsOnlyGoOn
<1>1. TypeOK /\ [Next]_vars =>
        [\A j \in Jobs :
           job[j].at # "none" =>
             \/ job'[j] = job[j]
             \/ StepsLeft(job'[j]) < StepsLeft(job[j])]_vars
  BY StepGoesOn
<1> QED
  BY <1>1, TypeCorrect, PTL DEF Spec, JobsOnlyGoOn

=============================================================================
