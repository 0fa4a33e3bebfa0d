SPECIFICATION FairSpec
CONSTANTS
  o1 = o1
  o2 = o2
  o3 = o3
  a1 = a1
  a2 = a2
  NoOrder = NoOrder
  Orders <- TwoOrders
  Manual <- Nobody
  Quota <- Nobody
  Admins <- OneAdmin
  Charge = 5
  Qty = 2
  Unit = 2
  MaxRetry = 1
  MaxFaults = 0
  MaxCrashes = 0
  Outages = TRUE
ACTION_CONSTRAINT Calm
CHECK_DEADLOCK FALSE
PROPERTIES
  FailedIsRefunded
  ProcessingSettles
