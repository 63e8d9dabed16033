SPECIFICATION Spec
CONSTANTS
  Groups <- MCGroups
  Documents <- MCDocuments
  MaxFaults = 1
  MaxRefusals = 1
INVARIANTS
  VerdictTrue
  VerdictsAgree
  GateReported
