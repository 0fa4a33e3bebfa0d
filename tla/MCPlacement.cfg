CONSTANTS
  o1 = o1  o2 = o2  pa = pa  pb = pb
  None = None
  Orders = {o1, o2}
  Providers = {pa, pb}
  Kinds = {"royalCrown", "alkasr", "ibra", "dealer", "mock"}
  Batch = 2
  MaxRetry = 1
  MockNumber = 1
SPECIFICATION MCSpec
CONSTRAINTS OneDisturbance OneIsSpecial
SYMMETRY Symmetries
INVARIANTS  StuckIsExplained 
CHECK_DEADLOCK FALSE
