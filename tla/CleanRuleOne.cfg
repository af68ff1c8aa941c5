SPECIFICATION Spec
CONSTANTS
  w1 = w1
  w2 = w2
  NoWorker = NoWorker
  Workers = {w1, w2}
  MaxVersion = 3
  Keep = 1
  Rules = 1
  Ttl = 4
  Timeout = 3
  Ops = {"upload", "clean"}
  RedisMayFail = FALSE
INVARIANTS
  OnlyOldRemoved
CHECK_DEADLOCK FALSE
