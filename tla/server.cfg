CONSTANTS
  Connections = {"caller", "visitor"}
  Locals = {"host"}
  None = None
  Capacity = 1
  MaxConnections = 1
  MaxCalls <- MCCalls
  MaxStarts = 1
SPECIFICATION FairSpec
INVARIANTS
  TypeOK
  AnswersInOrder
  RefusalsAreTrue
  AcceptedIsServed
  StoppedMeansJoined
PROPERTIES
  WorkersAreAnswered
  LocalsAreAnswered
  WorkersAreReleased
  ToldReducerEnds
CHECK_DEADLOCK FALSE
