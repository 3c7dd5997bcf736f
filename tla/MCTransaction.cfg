SPECIFICATION Spec

CONSTANTS
  t1 = t1
  r1 = r1
  r2 = r2
  j1 = j1
  j2 = j2
  Trx <- MCTrx
  Requests <- MCRequests
  Jobs <- MCJobs
  Concurrency = 3
  MaxStalled = 1
  MaxCrashes = 1
  AdminChanges <- MCAdminChanges
  AdminAgain = FALSE

SYMMETRY MCSymmetry

INVARIANTS
  TypeOK
  GoodsOnlyForMoney
  RefundAccounts

PROPERTIES
  PaidNeverUndone
  ActsAsOneOrder

CHECK_DEADLOCK FALSE
