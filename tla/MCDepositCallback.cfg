SPECIFICATION Spec

CONSTANTS
  d1 = d1
  r1 = r1
  r2 = r2
  j1 = j1
  j2 = j2
  Deposits <- MCDeposits
  Requests <- MCRequests
  Jobs <- MCJobs
  Concurrency = 3
  MaxStalled = 1
  MaxCrashes = 0
  AdminStatuses = {}

INVARIANTS
  CreditedOnlyIfPaid

CHECK_DEADLOCK FALSE
