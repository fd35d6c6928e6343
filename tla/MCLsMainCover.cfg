CONSTANTS
  Circuit <- Redundant
  Blind <- NoneBlind
  PIs <- MCPIs
  Faults <- MCFaults
  FaultList <- MCFaultList
  Detects <- MCDetects
  Traced <- MCTraced
  SatTests <- MCSatTests
  MaxSteps = 1
  NoFault = NoFault
SPECIFICATION Spec
INVARIANTS
  CoverIsReal
