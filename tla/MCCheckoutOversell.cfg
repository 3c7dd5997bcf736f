SPECIFICATION Spec

CONSTANTS
  p1 = p1
  o1 = o1
  o2 = o2
  o3 = o3
  Products <- MCProducts
  Orders <- MCOrders
  Quantities <- MCQuantities
  InitialStock <- MCInitialStock
  Supplies = {}
  PoolSize = 2

INVARIANTS
  NoOversell

CHECK_DEADLOCK FALSE
