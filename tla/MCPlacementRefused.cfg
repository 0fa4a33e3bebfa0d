CONSTANTS
  o1 = o1  o2 = o2  pa = pa  pb = pb
  None = None
  Orders = {o1}
  Providers = {pa, pb}
  Kinds = {"royalCrown", "ibra"}
  Batch = 1
  MaxRetry = 1
  MockNumber = 1
SPECIFICATION MCSpec
INVARIANT FailedWasRefused
CHECK_DEADLOCK FALSE
