SPECIFICATION FairSpec
CONSTANTS
  w1 = w1
  w2 = w2
  NoWorker = NoWorker
  Workers = {w1, w2}
  MaxVersion = 2
  Keep = 1
  Rules = 3
  Ttl = 4
  Timeout = 3
  Ops = {"upload", "delete", "clean"}
  RedisMayFail = FALSE
INVARIANTS
  LockOutlivesCleaning
PROPERTIES
  LockExpires
CHECK_DEADLOCK FALSE
