SPECIFICATION Spec
CONSTANTS
  a = a
  uuid = uuid
  Ids <- OneId
  GeneratedIds <- NoUuids
  BlankId = BlankId
  NoId = NoId
  Protocol = "graphql-ws"
  ClientFrames <- QueryFrames
  MaxFrames = 3
  MaxData = 1
  MaxKeepAlives = 1
  Verdicts = {"principal"}
  QueryEnds = {"completes", "flowFails", "cancels", "setupFails"}
  CheckAuthorization = FALSE
  KeepAlive = FALSE
INVARIANTS
  OnlySuspendedSenders
  FramesInOrder
  NoOrphanQuery
  RepliesEnd
PROPERTIES
  RemovalIsAnnounced
  ImplementsLifecycle
CHECK_DEADLOCK FALSE
