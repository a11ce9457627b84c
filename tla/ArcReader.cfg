SPECIFICATION Spec
CONSTANTS
  MaxUnits = 4
  MaxMembers = 3
  Inputs <- MCInputs
INVARIANTS ReadInPlace
CHECK_DEADLOCK FALSE
