SPECIFICATION Spec
CONSTANTS
  w1 = w1
  a = a
  b = b
  c = c
  NoContent = NoContent
  Unknown = Unknown
  Workers = {w1}
  Contents = {a, b, c}
  MaxStamp = 3
  Period = 1
  Ops = {"upload"}
  StatMayFail = TRUE
SYMMETRY Symmetry
INVARIANTS
  NoContentLost
CHECK_DEADLOCK FALSE
