SPECIFICATION Spec
CONSTANTS
  x = x  sx = sx  y = y
  n1 = n1  n2 = n2
  h1 = h1  h2 = h2
  Worker = {w1}
  Name = {x, sx, y}
  Below <- MCBelow
  Ownable <- MCOwnable
  Net = {n1, n2}
  Host = {h1, h2}
  Blank = blank
  Queries <- MCQueries
  Writes <- MCWrites
INVARIANT TypeOK
PROPERTIES DocumentedEffect NoFalseConflict
