SPECIFICATION Spec
CONSTANTS
  w1 = w1
  w2 = w2
  a = a
  r1 = r1
  r2 = r2
  Worker = {w1, w2}
  Item = {a}
  Exclusive = {}
  Record = {r1, r2}
  Keep = Keep
  Payloads <- AllPayloads
  MaxRequests = 2
SYMMETRY Symmetry
INVARIANT PublishedOnlyIfAccepted
CHECK_DEADLOCK FALSE
