SPECIFICATION Spec
CONSTANTS
  w1 = w1
  w2 = w2
  i1 = i1
  i2 = i2
  i3 = i3
  s1 = s1
  NoSummary = NoSummary
  NoIssue = NoIssue
  Workers = {w1, w2}
  Issues = {i1, i2, i3}
  Old = {i1}
  Summaries = {s1}
  Mentions = {s1}
  Weights <- Sizes
  Links <- MostLinks
  Limit = 2
  Half = 2
  MaxSecond = 1
  MaxRequests = 2
  MaxFaults = 3
CONSTRAINT OneAtATime
CHECK_DEADLOCK FALSE
SYMMETRY Symmetry
INVARIANTS
  TypeOK
  StoriesUnique
  FilesAccounted
  OwnFilesOnly
PROPERTIES
  NotesKept
