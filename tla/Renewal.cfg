SPECIFICATION Spec
CONSTANTS
  d1 = d1  d2 = d2  u1 = u1  u2 = u2
  Domain = {d1}
  User = {u1, u2}
  FreshDays = 4
  NotifyDays = 3
  WarnDays = 1
  InitialOwner <- MCInitialOwner
INVARIANTS TypeOK NothingLeftBehind
PROPERTIES NotDeletedEarly Expires
