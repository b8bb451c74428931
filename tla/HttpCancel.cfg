SPECIFICATION FairSpec
CONSTANTS
  Requests = {r1, r2}
  Batches = {r2}
  SelfCancelling = {r1}
  Threads = {th}
  Ids = {x}
  Cancellations = {d}
  NoRequest = NoRequest
  NoId = NoId
  MaxFetchers = 1
  CheckAuthorization = TRUE
INVARIANTS
  TypeOK
  RequestsKeepIds
  RegisteredRuns
  ExecutingRegistered
  CancelContained
PROPERTY CancelledEnd
CHECK_DEADLOCK FALSE
