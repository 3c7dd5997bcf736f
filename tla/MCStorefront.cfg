SPECIFICATION ShopSpec

CONSTANTS
  b1 = b1
  b2 = b2
  i1 = i1
  Costs <- MCCosts
  NewProducts <- MCNewProducts
  ProductUpdates <- MCProductUpdates
  Methods <- MCMethods
  MaxEdits = 1
  Buyers <- MCBuyers
  Guests <- MCGuests
  Bills <- MCBills
  BillTotals <- MCBillTotals
  Quantities <- MCQuantities
  Inexact <- MCInexact
  Surcharges = {5}
  ProviderFees = {7}
  MaxTries = 1
  Limit = 3
  MaxRows = 6
  AtFirst = 4
  Lists <- EveryList

INVARIANTS
  ShopTypeOK
  ChargedAsQuoted
  ChargedOnceUnlessRolledBack
  RefundKeepsAtMostFees
  NoLossUnlessStaleOrNegative
  NothingMissedUnlessMoved
  ShownTwiceOnlyIfPushed

PROPERTIES
  OfferedIsAccepted

CHECK_DEADLOCK FALSE
