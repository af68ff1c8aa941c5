SPECIFICATION Spec
CONSTANTS
  w1 = w1
  w2 = w2
  p = p
  pCopy = pCopy
  r = r
  rCopy = rCopy
  f = f
  Marker = Marker
  NoRepo = NoRepo
  NoProject = NoProject
  StatMayFail = TRUE
  Workers = {w1, w2}
  Projects = {p, pCopy}
  Repos = {r}
  Files = {f}
  ProjectPrefix <- PrefixesOfProjects
  RepoPrefix <- PrefixesOfRepos
  Modes = {"plain", "hcpno", "native", "hcp"}
  Ops = {"create", "upload", "delete", "remove", "copy"}
SYMMETRY Symmetry
INVARIANTS
  TypeOK
  RemovedIsGone
  StoredIsThere
PROPERTIES
  FilesKept
