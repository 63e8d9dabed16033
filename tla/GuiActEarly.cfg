SPECIFICATION Spec
CONSTANTS
  MaxReads = 1
  MaxActions = 1
  Bounds <- ReadAndAction
INVARIANT
  OneThreadPerChannel
CHECK_DEADLOCK FALSE
