CONSTANTS
  r = r
  a = a
  b = b
  Nodes = {r, a, b}
  Registry = r
  Machine <- MCMachine
  Statuses <- MCStatuses
  Ports = {1, 2}
  Beats = {1}
  Followers = {a}
  Syncs = {1, 2}
  MaxFaults = 2
  Nothing = Nothing
SPECIFICATION Spec
INVARIANT RoutesFollowPeers
PROPERTY PeersConverge
