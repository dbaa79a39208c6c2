SPECIFICATION Spec
CONSTANTS
  t1 = t1
  n1 = n1
  n2 = n2
  n3 = n3
  n4 = n4
  n5 = n5
  n6 = n6
  Trees = {t1}
  Nodes = {n1, n2, n3, n4, n5, n6}
  Triggers = {1, 2, 3}
  RBNIL = RBNIL
  NULL = NULL
SYMMETRY NodeSymmetry
INVARIANTS TypeOK HoldsInOrder Balanced SearchesFind FixupsEnd
