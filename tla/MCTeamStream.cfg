CONSTANTS
  a = a
  b = b
  s1 = s1
  s2 = s2
  c1 = c1
  c2 = c2
  c3 = c3
  None = None
  Teams = {a, b}
  Sessions = {s1, s2}
  Commands = {c1, c2, c3}
  TeamOf <- MCTeamOf
  MaxRuns = 2
  MaxEvents = 1
  MaxRemote = 2
SPECIFICATION Spec
INVARIANT StreamIsOrdered
CHECK_DEADLOCK FALSE
