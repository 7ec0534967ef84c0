CONSTANTS
  Connections = {"caller", "visitor"}
  Locals = {"host"}
  None = None
  Capacity = 1
  MaxConnections = 1
  MaxCalls <- MCCalls
  MaxStarts = 1
SPECIFICATION FairSpec
PROPERTIES
  StopReturns
CHECK_DEADLOCK FALSE
