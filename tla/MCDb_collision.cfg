SPECIFICATION Spec
CONSTANTS
  w1 = w1
  w2 = w2
  Workers = {w1, w2}
  None = None
  Values <- ShortAndLong
  Ones = 99
  BucketParams = {1, 2}
  MaxId = 3
  Faults = {}
  KillPoints = {}
INVARIANT LinkedPastesReadBack
