SPECIFICATION Spec
CONSTANTS
  Ga = Ga
  Select = Select
  Read = Read
  Ops <- MCOps
  CaOp = Ga
  SkipsUnwrap = {Select}
  Unpadded = {}
  SscMod = 16
  Start <- MCStart
  MaxExchanges = 4
  MaxFaults = 2
INVARIANT
  InStep
CHECK_DEADLOCK FALSE
