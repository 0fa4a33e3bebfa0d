CONSTANTS
  w1 = w1  w2 = w2  p1 = p1  i1 = i1  i2 = i2  g1 = g1  g2 = g2
  s1 = s1  s2 = s2  o1 = o1  o2 = o2  a1 = a1  a2 = a2
  None = None  Off = Off
  Workers = {w1}
  Providers = {p1}
  Items = {i1, i2}
  Supplier <- OneSupplier
  LastVersion = 2
  Offer <- TwoLists
  Goods = {g1}
  Syncs = {s1}
  Orders = {o1}
  Admins = {a1}
  Host <- OneWorker
  Markups <- MCMarkups
  Patches <- SomePatches
  Asked = {1}
  MaxCrashes = 0
SPECIFICATION Spec
INVARIANT LossIsExplained
CHECK_DEADLOCK FALSE
