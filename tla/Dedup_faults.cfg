SPECIFICATION DedupSpec
CONSTANTS
  w1 = w1
  w2 = w2
  f1 = f1
  f2 = f2
  r1 = r1
  r2 = r2
  r3 = r3
  r4 = r4
  r5 = r5
  a = a
  b = b
  NoFile = NoFile
  NoRecord = NoRecord
  NoDigest = NoDigest
  Workers = {w1, w2}
  Files = {f1, f2}
  Keys = {f1, f2}
  Key <- OwnKey
  Records = {r1, r2, r3, r4, r5}
  Digests = {a, b}
  Contents <- MCContents
  Digest <- MCDigest
  Size <- MCSize
  RefSize <- MCRefSize
  MinimumSizeGain = 1
  KeepIndex = TRUE
  MayReset = TRUE
  MaxRuns = 2
  Faults = {"index", "hook", "skip", "read", "validation", "revisit", "write", "crash"}
SYMMETRY Symmetry
INVARIANTS
  EveryRecordWritten
  RevisitsMatch
  ReportedMeansHandled
  NoRework
  HooksPaired
PROPERTY ImplementsPreposterous
CHECK_DEADLOCK FALSE
