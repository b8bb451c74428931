SPECIFICATION Spec
CONSTANTS
  a = a
  uuid = uuid
  Ids <- OneId
  GeneratedIds <- NoUuids
  BlankId = BlankId
  NoId = NoId
  Protocol = "graphql-ws"
  ClientFrames <- QueryFrames
  MaxFrames = 1
  MaxData = 1
  MaxKeepAlives = 1
  Verdicts = {"principal"}
  QueryEnds = {"flowFails"}
  CheckAuthorization = FALSE
  KeepAlive = FALSE
INVARIANT NoCompleteAfterError
CHECK_DEADLOCK FALSE
