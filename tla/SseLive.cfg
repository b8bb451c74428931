SPECIFICATION FairSpec
CONSTANTS
  t1 = t1
  t2 = t2
  a = a
  b = b
  c1 = c1
  c2 = c2
  p1 = p1
  p2 = p2
  p3 = p3
  Tokens = {t1}
  OperationIds = {a}
  Connections = {c1, c2}
  Posts = {p1, p2}
  NoConnection = NoConnection
  NoPost = NoPost
  NoMap = NoMap
  NoToken = NoToken
  NoId = NoId
  QueryEnds = {}
  CheckAuthorization = TRUE
PROPERTIES
  StreamsEnd
  CancelledEnd
CHECK_DEADLOCK FALSE
