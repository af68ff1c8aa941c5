SPECIFICATION Spec
CONSTANTS
  w1 = w1
  w2 = w2
  m1 = m1
  NoHash = NoHash
  Workers = {w1, w2}
  Messages = {m1}
  MaxPosts = 2
  Ops = {"transit", "resend"}
  Faults = {}
SYMMETRY Symmetry
PROPERTIES
  ResendRecorded
CHECK_DEADLOCK FALSE
