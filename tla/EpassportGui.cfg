SPECIFICATION Spec
CONSTANTS
  MaxReads = 2
  MaxActions = 3
  Bounds <- Scenarios
INVARIANTS
  ChannelOfOneThread
  FlagsMatchChip
  TraceOfOneSession
  ReportOfLiveSession
  NoConnectionLeft
  OneRead
  NoStageLeftRunning
PROPERTY
  ReadyAgain
CHECK_DEADLOCK FALSE
