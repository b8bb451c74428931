SPECIFICATION Spec
CONSTANTS
  t1 = t1
  t2 = t2
  a = a
  b = b
  c1 = c1
  c2 = c2
  p1 = p1
  p2 = p2
  p3 = p3
  Tokens = {t1, t2}
  OperationIds = {a, b}
  Connections = {c1, c2}
  Posts = {p1, p2}
  NoConnection = NoConnection
  NoPost = NoPost
  NoMap = NoMap
  NoToken = NoToken
  NoId = NoId
  QueryEnds = {"completes", "fails", "fatal"}
  CheckAuthorization = TRUE
SYMMETRY Symmetric
INVARIANTS
  TypeOK
  OneStreamPerToken
  OperationsReachable
  OperationsHaveStream
  OperationsAuthorized
PROPERTIES
  ImplementsStreamLifecycle
CHECK_DEADLOCK FALSE
