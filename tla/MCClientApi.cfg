CONSTANTS
  p1 = p1  p2 = p2  o1 = o1  o2 = o2  r1 = r1  r2 = r2  c1 = c1  c2 = c2
  v1 = v1  v2 = v2
  None = None
  Products = {p1, p2}
  Orders = {o1, o2}
  Requests = {r1, r2}
  Codes = {c1, c2}
  StartAt = 3
  MaxNumber = 5
  MaxAttempts = 2
  Names <- MCNames
  Lower <- MCLower
  Squashed <- MCSquashed
  Targets = {"playerId", "uid", "userId"}
  Ignored = {"currency"}
  SnakeCase = {"player_id", "uid", "server", "currency", "link"}
  Forms <- MCForms
  Entries <- MCEntries
  Lists <- MCLists
  PlayerIds = {v1}
SPECIFICATION Spec
CONSTRAINT Bounds
SYMMETRY Symmetries
INVARIANTS AnswersStand InputFitsForm
PROPERTIES CounterAdvances
CHECK_DEADLOCK FALSE
