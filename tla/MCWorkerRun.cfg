CONSTANTS
  b1 = b1
  b3 = b3
  m1 = m1
  s1 = s1
  r1 = r1
  r2 = r2
  memberA = memberA
  memberB = memberB
  NoConfig = NoConfig
  RunOf <- MCRunOf
  KindOf <- MCKindOf
  ConfigOf <- MCConfigOf
  MaxTeams = 2
  Envelopes = {b1, b3, m1, s1}
  Runs = {r1, r2}
  Configs = {memberA, memberB}
  Retried = {b1}
  MaxAttempts = 2
  MaxRestarts = 1
SPECIFICATION Spec
INVARIANTS
  SettledRunIsWhole
  

  
CHECK_DEADLOCK FALSE
