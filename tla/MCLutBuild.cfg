CONSTANTS
  Circuit <- Tree
  GateIds <- MCGateIds
  Fanins <- MCFanins
  PIs <- MCPIs
  POs <- MCPOs
  HeadList <- MCHeadList
  MaxInputs = 3
SPECIFICATION Spec
INVARIANTS
  LutsPartitionGates
  ConesAreClosed
  InputOrder
PROPERTIES
  GetsLinked
