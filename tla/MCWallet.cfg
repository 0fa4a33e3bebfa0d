SPECIFICATION Spec
CONSTANTS
  c1 = c1
  c2 = c2
  c3 = c3
  u1 = u1
  Users <- MCUsers
  Calls <- MCCalls
  Ops <- MCOps
  Amounts <- MCAmounts
  Targets <- MCTargets
  Limits <- MCLimits
  Percents <- MCPercents
  Opening = 2
  OpeningLimit = 1
SYMMETRY MCSymmetry
CHECK_DEADLOCK FALSE
INVARIANTS
  TypeOK
  BalanceExplained
  LedgerReplays
  FloorHeld
  CreditMirrors
