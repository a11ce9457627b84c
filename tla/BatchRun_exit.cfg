\* The exit status of a run that ended early.
CONSTANTS
  Workers = {w1, w2}
  Main = main
  NumFiles = 3
  ContinueOnError = FALSE
  Faults = {"walk", "disk", "signal"}
SPECIFICATION Spec
SYMMETRY Symmetry
CHECK_DEADLOCK FALSE
INVARIANTS ErrorMeansFailure
