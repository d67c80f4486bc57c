CONSTANTS
  t1 = t1
  t2 = t2
  t3 = t3
  d2 = d2
  d1 = d1
  NoTeam = NoTeam
  Teams = {t1, t2, t3}
  Definitions = {d1, d2}
  DefinitionOf <- MCDefinitionOf
  Commands = {c1, c2}
  CoordinatorFailureThreshold = 1
  GlobalFailureThreshold = 2
  MaxRuns = 2
SYMMETRY CommandSymmetry
SPECIFICATION Spec
INVARIANTS
  
  DegradationAgrees
PROPERTIES
  ImplementsLease
