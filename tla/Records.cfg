SPECIFICATION Spec
CONSTANTS
  m1 = m1
  m2 = m2
  m3 = m3
  Bounds <- Scenarios
  Mrz <- Zones
  Garbled = garbled
  Cap = 2
INVARIANTS
  ReadinessEarned
  SecurityBacked
  OutcomeKept
  HistoryKept
CHECK_DEADLOCK FALSE
