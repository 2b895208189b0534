SPECIFICATION FairSpec
CONSTANTS
  Domain = {d1}
  Item = {ns, a}
  Content = {nsd}
  Empty = Empty
  Absent = Absent
  NoZone = NoZone
  NSItem = ns
  DefaultNS = nsd
  ns = ns
  a = a
  nsd = nsd
  d1 = d1
  UsePCH = TRUE
  CallerDiscipline = TRUE
INVARIANTS
  TypeOK
  AssertionsHold
  DomainsTracked
  ChangesTracked
  ZonesAgree
  RecordsAgree
  RequestsAccepted
PROPERTIES
  ChangesServed
