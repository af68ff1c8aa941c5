SPECIFICATION Spec
CONSTANTS
  w1 = w1
  w2 = w2
  w3 = w3
  m1 = m1
  NoHash = NoHash
  Workers = {w1, w2, w3}
  Messages = {m1}
  MaxPosts = 2
  Ops = {"transit", "send", "resend", "invalidate"}
  Faults = {"no_answer", "crash", "redis", "expiry"}
SYMMETRY Symmetry
INVARIANTS
  TypeOK
  OkMeansStarted
  SentIsRecorded
  StartedOnce
  EntriesComplete
PROPERTIES
  ImplementsMessageLog
CHECK_DEADLOCK FALSE
