SPECIFICATION Spec

CONSTANTS
  d1 = d1
  r1 = r1
  r2 = r2
  j1 = j1
  j2 = j2
  Deposits <- MCDeposits
  Requests <- MCRequests
  Jobs <- MCJobs
  Concurrency = 3
  MaxStalled = 1
  MaxCrashes = 2
  AdminStatuses <- MCAdminStatuses

INVARIANTS
  TypeOK
  StatusTellsCredit
  CreditsBoundedByReruns
  NothingForgotten

PROPERTIES
  NeverReopened
  KeepsPromise
  PaidIsCreditedOrForfeited

CHECK_DEADLOCK FALSE
