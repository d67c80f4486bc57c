SPECIFICATION SyncSpec
CONSTANTS
  source = source
  t1 = t1
  t2 = t2
  f = f
  x = x
  y = y
  z = z
  a = a
  b = b
  outer = outer
  inner = inner
  server = server
  None = None
  Source = source
  Targets <- MCTargets
  Families <- MCFamilies
  Texts <- MCTexts
  Entered <- MCEntered
  Agents <- MCAgents
  Teams <- MCTeams
  Servers <- MCServers
  Plans <- MCPlans
  Stored <- MCStored
  MaxRuns = 2
  MaxEdits = 1
  MaxFailures = 1
INVARIANTS
  SuccessMeansArrived
  ReferencesArrive
PROPERTY
  TargetWinsKeeps
CHECK_DEADLOCK FALSE
