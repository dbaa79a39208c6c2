SPECIFICATION Spec
CONSTANTS
  base = base
  c1 = c1
  c2 = c2
  Trees = {base}
  Base = base
  Nodes = {c1, c2}
  RBNIL = RBNIL
  NULL = NULL
  TIMEOUT = 2
  MaxTime = 5
INVARIANT TimersOfConnections
PROPERTIES NeverEarly NoneLeftDue
