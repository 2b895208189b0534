SPECIFICATION SyncSpec
CONSTANTS
  w1 = w1
  w2 = w2
  a = a
  aaaa = aaaa
  cname = cname
  r1 = r1
  r2 = r2
  Worker = {w1, w2}
  Item = {a, cname}
  Exclusive = {cname}
  Record = {r1, r2}
  Keep = Keep
  Payloads <- AllPayloads
  MaxRequests = 3
SYMMETRY Symmetry
INVARIANTS
  SyncTypeOK
  DnsAgrees
  OnePublisher
PROPERTIES
  AppliedExactly
  SyncRepairs
CHECK_DEADLOCK FALSE
