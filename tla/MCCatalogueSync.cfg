CONSTANTS
  w1 = w1  w2 = w2  p1 = p1  i1 = i1  i2 = i2  g1 = g1  g2 = g2
  s1 = s1  s2 = s2  o1 = o1  o2 = o2  a1 = a1  a2 = a2
  None = None  Off = Off
  Workers = {w1}
  Providers = {p1}
  Items = {i1}
  Supplier <- OneItem
  LastVersion = 2
  Offer <- TwoPrices
  Goods = {g1}
  Syncs = {s1, s2}
  Orders = {o1, o2}
  Admins = {}
  Host <- OneWorker
  Markups <- OneMarkup
  Patches <- NoPatches
  Asked = {1}
  MaxCrashes = 1
SPECIFICATION Spec
SYMMETRY RequestSymmetry
INVARIANTS LocksHeld
PROPERTIES StoredPricesAdvance AnswersAdvance
CHECK_DEADLOCK FALSE
