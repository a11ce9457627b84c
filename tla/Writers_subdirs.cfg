\* The default generator with a pattern for sub-directories.
CONSTANTS
  Workers = {w1, w2}
  NoWorker = NoWorker
  f1 = f1
  f2 = f2
  f3 = f3
  Files = {f1, f2, f3}
  NoFile = NoFile
  d1 = d1
  d2 = d2
  d3 = d3
  Dates = {d1, d2, d3}
  s1 = s1
  s2 = s2
  SubDirs = {s1, s2}
  SubDir <- MCSubDir
  Contents <- MCContents
  Faults = {"read", "broken", "mkdir", "write"}
SPECIFICATION Spec
INVARIANTS EachRecordWhereDated
