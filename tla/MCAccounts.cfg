CONSTANTS
  u1 = u1  r1 = r1  r2 = r2
  Users = {u1}
  Requests = {r1, r2}
  None = None
  MaxLinks = 1
  MaxCodes = 2
SPECIFICATION Spec
SYMMETRY RequestSymmetry
INVARIANTS TypeOK BannedStaysOut SpentCodeIsGone
CHECK_DEADLOCK FALSE
