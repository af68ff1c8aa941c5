SPECIFICATION Spec
CONSTANTS
  w1 = w1
  w2 = w2
  NoWorker = NoWorker
  Workers = {w1, w2}
  MaxVersion = 3
  Keep = 1
  Rules = 3
  Ttl = 2
  Timeout = 1
  Ops = {"upload", "rollback", "delete_version", "remove_old", "clean"}
  RedisMayFail = TRUE
SYMMETRY Symmetry
INVARIANTS
  TypeOK
  RetentionRespected
PROPERTIES
  CurrentSurvivesCleaning
CHECK_DEADLOCK FALSE
