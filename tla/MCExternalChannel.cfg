CONSTANTS
  r1 = r1
  r2 = r2
  r3 = r3
  m1 = m1
  m2 = m2
  a1 = a1
  None = None
  Team = Team
  Calls = {r1, r2, r3}
  Messages = {m1, m2}
  MessageOf <- MessageOfRequest
  Agents = {a1}
  MaxRebinds = 1
  MaxResponses = 2
  Expiring = {m1}
  Responders = {r3}
  Reports = {"DELIVERED"}
  FirstBindings = {a1}
SPECIFICATION Spec
SYMMETRY Symmetry
INVARIANTS
  DispatchedOnce
  RepliesAreTraced
  InTurnUntilTimeout
CHECK_DEADLOCK FALSE
