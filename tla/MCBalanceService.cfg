INIT MCInit
NEXT MCNext

CONSTANTS
  u1 = u1
  u2 = u2
  k1 = k1
  k2 = k2
  k3 = k3
  Users <- MCUsers
  Calls <- MCCalls
  Amounts <- MCAmounts
  InitialBalance <- MCInitialBalance
  FirstYear = 2023
  LastYear = 2026

PROPERTIES
  ActsAtomically

SYMMETRY Symmetry

INVARIANTS
  TypeOK
  LedgerExplainsBalance
  StatementHoldsUnlessOverlapped
  NoOverdraftUnlessContended
  DebtBoundedByOverlap
  MonthsOnceUnlessTheDayIsMissing

\* Each call is made once: the model stops when all have been.
CHECK_DEADLOCK FALSE
