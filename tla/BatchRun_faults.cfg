\* Every fault at once, pools of none, one and two workers.  A signal may leave Run
\* hanging in Submit (see EndsUnlessSignalled), so the run may stop: no deadlock check.
CONSTANTS
  Workers = {w1, w2}
  Main = main
  NumFiles = 4
  ContinueOnError = FALSE
  Faults = {"walk", "disk", "file", "signal"}
SPECIFICATION FairSpec
CHECK_DEADLOCK FALSE
INVARIANTS TypeOK OnePlace NothingUsedAfterClose ExitCountsEverything CompleteUnlessAborted PromptCancel BoundedInFlight
PROPERTIES ImplementsBatch DeterministicOrder EndsUnlessSignalled ResultsAreCounted
