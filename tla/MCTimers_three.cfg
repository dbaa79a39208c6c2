SPECIFICATION Spec
CONSTANTS
  base = base
  c1 = c1
  c2 = c2
  c3 = c3
  Trees = {base}
  Base = base
  Nodes = {c1, c2, c3}
  RBNIL = RBNIL
  NULL = NULL
  TIMEOUT = 2
  MaxTime = 5
SYMMETRY ConnSymmetry
INVARIANT TimersOfConnections
