SPECIFICATION Spec
CONSTANTS
  w1 = w1
  p = p
  pCopy = pCopy
  r = r
  rCopy = rCopy
  f = f
  Marker = Marker
  NoRepo = NoRepo
  NoProject = NoProject
  StatMayFail = FALSE
  Workers = {w1}
  Projects = {p}
  Repos = {r, rCopy}
  Files = {f}
  ProjectPrefix <- PrefixesOfProjects
  RepoPrefix <- PrefixesOfRepos
  Modes = {"native"}
  Ops = {"create", "upload", "delete", "remove", "copy"}
PROPERTY
  RemovalStaysInside
