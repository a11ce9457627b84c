\* Every fault, with seven combinations of options.
CONSTANTS
  w1 = w1
  w2 = w2
  Workers = {w1, w2}
  Main = Main
  Contents <- MCContents
  Options <- MCOptions
  PoolSize = 2
  Faults = {"stat", "dial", "list", "reader", "stdout", "signal"}
SPECIFICATION FairSpec
CHECK_DEADLOCK FALSE
INVARIANTS ListingComplete LinesWhole FailureNoticed ConnectionsReturned
PROPERTIES EndsUnlessDrained
