SPECIFICATION Spec
CONSTANTS
  a = a
  b = b
  da = da
  log = log
  d = d
  root = root
  u1 = u1
  u2 = u2
  s1 = s1
  Indexer = Indexer
  None = None
  Files = {a, b, da, log}
  Dir = d
  Root = root
  ParentOf <- MCParentOf
  NameOf <- MCNameOf
  GitIgnored = {}
  Unwatched = {log}
  Disks <- MCDisks
  Callers = {u1}
  Sessions = {s1}
  Budget = 3
INVARIANTS
  
  
  EveryChangeIsHeard
CHECK_DEADLOCK FALSE
