SPECIFICATION DedupSpec
CONSTANTS
  w1 = w1
  w2 = w2
  f1 = f1
  f2 = f2
  r1 = r1
  r2 = r2
  r3 = r3
  r4 = r4
  r5 = r5
  a = a
  b = b
  NoFile = NoFile
  NoRecord = NoRecord
  NoDigest = NoDigest
  Workers = {w1, w2}
  Files = {f1, f2}
  Keys = {f1, f2}
  Key <- OwnKey
  Records = {r1, r2, r3, r4, r5}
  Digests = {a, b}
  Contents <- MCContents
  Digest <- MCDigest
  Size <- MCSize
  RefSize <- MCRefSize
  MinimumSizeGain = 1
  KeepIndex = TRUE
  MayReset = FALSE
  MaxRuns = 3
  Faults = {"hook", "read", "validation"}
SYMMETRY Symmetry
INVARIANTS
  PayloadKept
  Deduplicated
  FailedIsRetried
CHECK_DEADLOCK FALSE
