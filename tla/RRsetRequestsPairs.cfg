SPECIFICATION SyncFairSpec
CONSTANTS
  w1 = w1
  w2 = w2
  a = a
  aaaa = aaaa
  cname = cname
  r1 = r1
  r2 = r2
  Worker = {w1, w2}
  Item = {a, aaaa}
  Exclusive = {}
  Record = {r1}
  Keep = Keep
  Payloads <- FullPayloads
  MaxRequests = 2
INVARIANT DnsAgrees
PROPERTY RequestsEnd
CHECK_DEADLOCK FALSE
