----------------------------- MODULE MCLutBuild ------------------------------
(***************************************************************************)
(* LutBuild on the small netlists.                                         *)
(***************************************************************************)
EXTENDS LutBuild

CONSTANT Circuit   \* the netlist

Gate == INSTANCE Circuits

Tree      == Gate!Tree
Consensus == Gate!Consensus

MCGateIds  == Gate!Gates(Circuit)
MCFanins   == [g \in Gate!Gates(Circuit) |-> Gate!FaninSet(Circuit, g)]
MCPIs      == Gate!Inputs(Circuit)
MCPOs      == Circuit.pos
MCHeadList ==
  SelectSeq([g \in 1 .. Len(Circuit.type) |-> g],
            LAMBDA g : \/ Cardinality(Gate!Fanouts(Circuit, g)) # 1
                       \/ g \in Gate!Inputs(Circuit))
==============================================================================
