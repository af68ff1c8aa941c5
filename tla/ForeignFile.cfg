SPECIFICATION Spec
CONSTANTS
  w1 = w1
  w2 = w2
  a = a
  b = b
  c = c
  NoContent = NoContent
  Unknown = Unknown
  Workers = {w1, w2}
  Contents = {a, b, c}
  MaxStamp = 3
  Period = 0
  Ops = {"upload", "rollback", "delete", "remove_old", "upload_by_url"}
  StatMayFail = FALSE
SYMMETRY Symmetry
INVARIANTS
  TypeOK
  NoContentLost
  QuietMatchesExpected
  VersionsWereCurrent
  TempsAccountedFor
PROPERTIES
  ImplementsVersionedFile
VIEW Looked
CONSTRAINT TwoStamps
CHECK_DEADLOCK FALSE
