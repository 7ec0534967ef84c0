CONSTANTS
  HeaderSize = 2
  TrailerSize = 1
  MaxPayload = 2
  MaxFrame = 6
  FirstBuffer = 2
  Room = 3
  MaxFrames = 3
  MaxConnections = 2
SPECIFICATION FairSpec
INVARIANTS
  TypeOK
  DeliveredAsSent
  NothingIsSkipped
  BoundIsSlack
  ClosedMeansComplete
PROPERTIES
  SentIsReceived
CHECK_DEADLOCK FALSE
