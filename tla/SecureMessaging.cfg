SPECIFICATION Spec
CONSTANTS
  Ga = Ga
  Select = Select
  Read = Read
  Ops <- MCOps
  CaOp = Ga
  SkipsUnwrap = {}
  Unpadded = {3}
  SscMod = 16
  Start <- MCStart
  MaxExchanges = 4
  MaxFaults = 2
INVARIANTS
  TypeOK
  AnswersTheCommand
  CountersNotReused
  ExecutedOnce
  InStep
  SyncedCommandVerifies
PROPERTIES
  OutOfStepIsFinal
  ChannelSpec
CHECK_DEADLOCK FALSE
