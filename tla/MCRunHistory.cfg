SPECIFICATION Spec
CONSTANTS
  c1 = c1
  c2 = c2
  s1 = s1
  a1 = a1
  a2 = a2
  t1 = t1
  None = None
  Callers = {c1, c2}
  Sessions = {s1}
  Runs = {a1, a2, t1}
  KindOf <- MCKindOf
  Starts <- MCStarts
  MaxCalls = 2
  MaxEvents = 1
  MaxFaults = 1
INVARIANTS
  ListedUntilDeleted
  DeletedIsGone
  IdleOnceTerminated
CHECK_DEADLOCK FALSE
