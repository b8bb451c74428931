SPECIFICATION Spec
CONSTANTS
  u = u
  v = v
  c = c
  d = d
  Upgrades <- MCUpgrades
  Credentials <- MCCredentials
  NoCredential = NoCredential
  CheckAuthorization = TRUE
  MaxMessages <- MCMaxMessages
  MaxChanges = 2
SYMMETRY Symmetry
INVARIANTS
  TypeOK
  MappedOnce
  QueriesAuthorized
  OwnCredentials
  InitCredentialsFirst
  RefusalsJustified
CHECK_DEADLOCK FALSE
