SPECIFICATION Spec
CONSTANTS
  f1 = f1
  f2 = f2
  None = None
  NoView = NoView
  Blank = Blank
  Contents <- MCContents
  recordBatchSize = 2
  Filters <- MCFilters
  Types <- MCTypes
  FileFilters <- MCFileFilters
  MaxLoads = 2
  MaxCommands = 2
INVARIANTS DrawnIsList RecordsComplete PanelShowsSelection FocusExists
CHECK_DEADLOCK FALSE
