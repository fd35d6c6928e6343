------------------------------ MODULE MCLsMain -------------------------------
(***************************************************************************)
(* LsMain on small netlists: what the vectors detect and what the          *)
(* simulator marks is computed from the gates, and the oracle returns any  *)
(* vector that detects its fault, or "unsat" for the faults in Blind.      *)
(***************************************************************************)
EXTENDS LsMain, TLC

CONSTANTS
  Circuit,   \* the netlist
  Blind      \* faults the oracle answers "unsat" for although they are testable

Gate == INSTANCE Circuits

Redundant == Gate!Redundant
Shared    == Gate!Shared

NoneBlind  == {}
\* Stem b stuck at 0 and the first output stuck at 1 of Shared.
SomeBlind  == {[gate |-> 2, stuck_at |-> 0], [gate |-> 19, stuck_at |-> 1]}

\* The tables of the circuit: f @@ <<>> is f with every value computed once.
DetectsTable ==
  [v \in Gate!Vectors(Circuit) |->
     {f \in Gate!AllFaults(Circuit) : Gate!CheckFault(Circuit, v, f)}] @@ <<>>
TracedTable ==
  [v \in Gate!Vectors(Circuit) |-> Gate!Simulate(Circuit, v)] @@ <<>>
FaultListTable == Gate!MakeFaultList(Circuit)
SatTestsTable ==
  [f \in Gate!ListedFaults(Circuit) |->
     {v \in Gate!Vectors(Circuit) :
        f \notin Blind /\ Gate!CheckFault(Circuit, v, f)}] @@ <<>>
FaultTable == Gate!AllFaults(Circuit)
InputTable == Gate!Inputs(Circuit)

MCPIs       == InputTable
MCFaults    == FaultTable
MCFaultList == FaultListTable
MCDetects   == DetectsTable
MCTraced    == TracedTable
MCSatTests  == SatTestsTable
==============================================================================
