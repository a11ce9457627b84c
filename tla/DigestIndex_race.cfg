SPECIFICATION Spec
CONSTANTS
  c1 = c1
  c2 = c2
  c3 = c3
  k1 = k1
  k2 = k2
  r1 = r1
  r2 = r2
  NoRef = NoRef
  NoTxn = NoTxn
  Callers = {c1, c2, c3}
  Keys = {k1, k2}
  Refs = {r1, r2}
  MaxConflictRetries = 3
  MaxRuns = 2
  Faults = {"io", "crash"}
SYMMETRY Symmetry
INVARIANTS
  ConflictOnce
PROPERTIES
  ImplementsTestAndSet
CHECK_DEADLOCK FALSE
