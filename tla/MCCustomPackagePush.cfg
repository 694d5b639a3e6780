SPECIFICATION Spec
CONSTANTS
  d1 = d1
  d2 = d2
  mirror = mirror
  dir1 = dir1
  dir2 = dir2
  up = up
  p1 = p1
  p2 = p2
  f1 = f1
  f2 = f2
  Repos = {d1}
  Dirs = {dir1}
  Urls = {}
  Follows = {}
  Files = {f1, f2}
  Packages = {p1}
  Readme = readme
  NoRepo = NoRepo
  NoClone = NoClone
  NoPackage = NoPackage
  SourceOf <- McSourceOf
  Sources <- McSources
  Origin <- McOrigin
  InValues <- McInValues
  PushFails = TRUE
  MaxEdits = 1
  MaxFaults = 1
  MaxOutside = 0
  MaxCrashes = 0
PROPERTY Converges
