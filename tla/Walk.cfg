\* Four file systems, with and without --recursive and --follow-symlinks.
CONSTANTS
  d = d
  s = s
  f = f
  g = g
  l = l
  m = m
  a = a
  r = r
  Nodes = {d, s, f, g, l, m, a, r}
  Missing = Missing
  Worlds <- MCWorlds
  Faults = {"stat", "cancel"}
SPECIFICATION FairSpec
CHECK_DEADLOCK FALSE
INVARIANTS GivenOnce WalkComplete
PROPERTIES WalkEnds
