SPECIFICATION DepositsSpec
CONSTANTS
  d1 = d1
  d2 = d2
  t1 = t1
  r1 = r1
  r2 = r2
  r3 = r3
  Nothing = Nothing
  Deposits <- MCDeposits
  TargetOrders <- MCTargets
  Reviews <- MCReviews
  DepositAmounts <- MCAmounts
  MaxFaults = 1
  MaxCrashes = 1
SYMMETRY MCSymmetry
CHECK_DEADLOCK FALSE
INVARIANTS
  DepositsTypeOK
  PaidOnceAsShown
  NoSilentLoss
PROPERTY
  DecisionStands
