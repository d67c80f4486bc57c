CONSTANTS
  s1 = s1
  s2 = s2
  i1 = i1
  i2 = i2
  Sessions = {s1, s2}
  Local = {i1}
  Remote = {i2}
  MaxRuns = 2
SPECIFICATION ApprovalSpec
SYMMETRY Symmetry
INVARIANT TokensStayGood
CHECK_DEADLOCK FALSE
