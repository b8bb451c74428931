SPECIFICATION FairSpec
CONSTANTS
  a = a
  uuid = uuid
  Ids <- MCIds
  GeneratedIds <- Uuids
  BlankId = BlankId
  NoId = NoId
  Protocol = "graphql-ws"
  ClientFrames <- ApolloFrames
  MaxFrames = 2
  MaxData = 0
  MaxKeepAlives = 1
  Verdicts = {"principal", "none"}
  QueryEnds = {"completes", "flowFails", "executionFails"}
  CheckAuthorization = TRUE
  KeepAlive = TRUE
INVARIANTS
  TypeOK
  OneFrameInFlight
PROPERTIES
  DemandReturns
  QueriesAnswered
  NothingOutlivesSocket
CHECK_DEADLOCK FALSE
