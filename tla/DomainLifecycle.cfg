SPECIFICATION Spec
CONSTANTS
  w1 = w1  w2 = w2  u1 = u1  u2 = u2
  Worker = {w1, w2}
  User = {u1, u2}
  Name <- MCName
  Suffix <- MCSuffix
  Local <- MCLocal
  Internal <- MCInternal
  ReservedLabel <- MCReservedLabel
  RegisterLPS = TRUE
  Limit <- MCLimit
  Registered <- MCRegistered
  Operator = operator
  Nobody = nobody
  NoClaim = noclaim
  MaxRequests = 4
INVARIANTS TypeOK Exclusive LimitOvershoot Agreement CatalogAgrees
PROPERTIES RegistryKept
