SPECIFICATION ToolsSpec
CONSTANTS
  c1 = c1
  c2 = c2
  f1 = f1
  f2 = f2
  t1 = t1
  t2 = t2
  a1 = a1
  a2 = a2
  team = team
  server = server
  skill = skill
  home = home
  dir1 = dir1
  dir2 = dir2
  v1 = v1
  v2 = v2
  host = host
  worker = worker
  embedded = embedded
  noText = noText
  missing = missing
  gone = gone
  m1 = m1
  m2 = m2
  r1 = r1
  r2 = r2
  None = None
  Absent = Absent
  NoReply = NoReply
  Callers <- MCCallers
  Authors <- MCCallers
  SkillNames <- MCSkillNames
  Default = home
  Sources <- MCSources
  ReadOnly <- MCReadOnly
  Tags <- MCTags
  FirstTag = v1
  Installed <- MCInstalled
  Workloads <- MCWorkloads
  Families <- MCFamilies
  Texts <- MCTexts
  Agents <- MCAgents
  Teams <- MCTeams
  Servers <- MCServers
  Stored <- MCStored
  Host = host
  Worker = worker
  Embedded = embedded
  NoText = noText
  Missing = missing
  Gone = gone
  TeamIds <- MCTeamIds
  Dossiers <- MCDossiers
  NoTeam <- MCNoTeam
  MaxDepth = 2
  MaxPrompts = 3
  MaxFaults = 2
INVARIANTS
  CacheIsDatabase
  
  AgentHasPrompt
  
  ToolsOfEnabledServers
  WrittenIsRead
  
  SettingsSurvive
  MembersAsConfigured
PROPERTY
  CallsEnd
CHECK_DEADLOCK FALSE
