CONSTANTS
  Circuit <- Masking
  Cones <- MaskingCones
  Luts <- MCLuts
  Fanin <- MCFanin
  POs <- MCPOs
  ValueTable <- MCValueTable
  FaultTable <- MCFaultTable
  Targets <- MCTargets
  Samples = 1
  MaxSteps = 2
  Inner <- MCInner
  FaninOrder <- MCFaninOrder
  AvgDist <- MCAvgDist
  Scale = 6
  DetectedSets <- MCFlags
  VsatInc = 2
  VsatMax = 2
  FwInc = 2
  FwMax = 4
  UpInc = 2
  UpMax = 2
  Focus = 9
SPECIFICATION WSpec
INVARIANTS
  CheckVsat
