SPECIFICATION Spec
CONSTANTS
  w1 = w1
  w2 = w2
  Workers = {w1, w2}
  None = None
  Values <- ShortAndLong
  Ones = 99
  BucketParams = {3, 4}
  MaxId = 3
  Faults = {"pwrite"}
  KillPoints = {"created", "sized", "meta", "up"}
SYMMETRY WorkerSymmetry
INVARIANTS PasteInv PastesReadBack
PROPERTY StoreSpec
CHECK_DEADLOCK FALSE
