SPECIFICATION MCSpec
CONSTANTS
  c1 = c1
  c2 = c2
  c3 = c3
  u1 = u1
  w1 = w1
  w2 = w2
  USD = USD
  EGP = EGP
  Seed = Seed
  NoDoc = NoDoc
  NoCode = NoCode
  Calls <- ThreeCalls
  Workers <- TwoWorkers
  Users = {u1}
  Codes <- TwoCodes
  Rates = {2, 4}
  Jobs <- EveryJob
  Deployments = {"replicaSet", "standalone"}
SYMMETRY CallSymmetry
CHECK_DEADLOCK FALSE
INVARIANTS
  TypeOK
  CacheFollows
  TransactionsChargeInCurrency
PROPERTIES
  SwitchIsSound
