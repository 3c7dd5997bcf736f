SPECIFICATION Spec

CONSTANTS
  t1 = t1
  r1 = r1
  r2 = r2
  j1 = j1
  j2 = j2
  Trx <- MCTrx
  Requests <- MCRequests
  Jobs <- MCJobs
  Concurrency = 3
  MaxStalled = 1
  MaxCrashes = 2
  AdminChanges = {}
  AdminAgain = FALSE

INVARIANTS
  NothingForgotten
  RefundsBoundedByReruns

PROPERTIES
  PaidIsOrdered
  SettledIsReported
  RejectedIsRefunded

CHECK_DEADLOCK FALSE
