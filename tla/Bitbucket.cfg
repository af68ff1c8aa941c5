SPECIFICATION Spec
CONSTANTS
  w1 = w1
  w2 = w2
  r1 = r1
  f1 = f1
  f2 = f2
  b1 = b1
  b2 = b2
  NoBody = NoBody
  NoRepo = NoRepo
  Workers = {w1, w2}
  Repos = {r1}
  Files = {f1, f2}
  Bodies = {b1, b2}
  MaxCommits = 4
  Kinds = {"create", "upload", "form", "remove", "copy"}
SYMMETRY Symmetry
INVARIANTS
  TypeOK
  AnswersAreTrue
PROPERTIES
  OnlyAsAsked
