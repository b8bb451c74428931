SPECIFICATION FairSpec
CONSTANTS
  a = a
  uuid = uuid
  Ids <- OneId
  GeneratedIds <- NoUuids
  BlankId = BlankId
  NoId = NoId
  Protocol = "graphql-transport-ws"
  ClientFrames <- TransportWsQueryFrames
  MaxFrames = 3
  MaxData = 0
  MaxKeepAlives = 1
  Verdicts = {"principal", "none", "throws"}
  QueryEnds = {"completes", "flowFails", "setupFails"}
  CheckAuthorization = TRUE
  KeepAlive = TRUE
INVARIANTS
  AcknowledgedOnceAndFirst
PROPERTIES
  InitDeadline
CHECK_DEADLOCK FALSE
