CONSTANTS
  Circuit <- Shared
  Blind <- SomeBlind
  PIs <- MCPIs
  Faults <- MCFaults
  FaultList <- MCFaultList
  Detects <- MCDetects
  Traced <- MCTraced
  SatTests <- MCSatTests
  MaxSteps = 4
  NoFault = NoFault
SPECIFICATION Spec
INVARIANTS
  NeverAborts
  NothingForgotten
  SearchKeepsTarget
  ClaimsHold
PROPERTIES
  KeepsPromise
  Terminates
