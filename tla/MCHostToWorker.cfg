CONSTANTS
  c1 = c1
  c2 = c2
  host = host
  worker = worker
  NoCommand = NoCommand
  Commands = {c1, c2}
  Nodes = {host, worker}
  LocalNode = host
  WorkerNode = worker
  NodeOf <- MCNodeOf
  Envelopes <- MCEnvelopes
  MaxAttempts = 2
  MaxRestarts = 1
SPECIFICATION FairHostToWorkerSpec
INVARIANTS
  DeliveredWasExecuted
  HostAndWorkerAgree
PROPERTIES
  SuccessIsNotRepeated
  DispatchEnds
CHECK_DEADLOCK FALSE
