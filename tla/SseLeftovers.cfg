SPECIFICATION Spec
CONSTANTS
  t1 = t1
  t2 = t2
  a = a
  b = b
  c1 = c1
  c2 = c2
  p1 = p1
  p2 = p2
  p3 = p3
  Tokens = {t1}
  OperationIds = {a}
  Connections = {c1}
  Posts = {p1}
  NoConnection = NoConnection
  NoPost = NoPost
  NoMap = NoMap
  NoToken = NoToken
  NoId = NoId
  QueryEnds = {"completes"}
  CheckAuthorization = TRUE
INVARIANT NoLeftovers
CHECK_DEADLOCK FALSE
