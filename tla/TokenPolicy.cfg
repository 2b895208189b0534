CONSTANTS
  w1 = w1
  w2 = w2
  d1 = d1
  sub = sub
  A = A
  Null = Null
  Worker = {w1, w2}
  Domain = {d1}
  Subname = {sub}
  Type = {A}
  Pattern <- MCPattern
  Id = {1, 2, 3, 4}
SYMMETRY WorkerSymmetry
SPECIFICATION Spec
INVARIANTS TypeOK DocumentedPriority SafeDeletion DefaultKept AutoRestrictive
PROPERTY AutoPolicyScope
