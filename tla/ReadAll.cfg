SPECIFICATION Spec
CONSTANTS
  DataGroups <- MCDataGroups
  Chips <- MCChips
  MaxFaults = 1
INVARIANTS
  RightFile
  AllAccounted
  FullRead
PROPERTY
  Terminates
CHECK_DEADLOCK FALSE
