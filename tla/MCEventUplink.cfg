CONSTANTS
  h1 = h1
  h2 = h2
  None = None
  Handlers = {h1, h2}
  MaxEvents = 2
  MaxOthers = 1
  Capacity = 2
SPECIFICATION FairSpec
INVARIANTS
  OneForwarder
  OrderKeptUnlessAborted
  AcceptedOnceInWindow
PROPERTIES
  CloseEnds
CHECK_DEADLOCK FALSE
