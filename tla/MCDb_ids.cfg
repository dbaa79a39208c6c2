SPECIFICATION FairSpec
CONSTANTS
  w1 = w1
  w2 = w2
  Workers = {w1, w2}
  None = None
  Values <- ShortAndLong
  Ones = 99
  BucketParams = {1, 2}
  MaxId = 2
  Faults = {"malloc", "pread", "pwrite", "short"}
  KillPoints = {"created", "sized", "meta", "up"}
INVARIANTS TypeOK BasicInv
PROPERTIES IdsNeverReused CallsReturn
CHECK_DEADLOCK FALSE
