SPECIFICATION Spec
CONSTANTS
  o1 = o1
  o2 = o2
  o3 = o3
  a1 = a1
  a2 = a2
  NoOrder = NoOrder
  Orders <- ThreeOrders
  Manual <- SecondThird
  Quota <- Third
  Admins <- TwoAdmins
  Charge = 5
  Qty = 2
  Unit = 2
  MaxRetry = 2
  MaxFaults = 2
  MaxCrashes = 1
  Outages = FALSE
CHECK_DEADLOCK FALSE
SYMMETRY AdminSymmetry
INVARIANTS
  TypeOK
  NoOverRefund
  SetAside
  FlagMatchesMoney
PROPERTIES
  ImplementsAccount
