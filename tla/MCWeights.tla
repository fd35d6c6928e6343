----------------------------- MODULE MCWeights -------------------------------
(***************************************************************************)
(* The search on a netlist cut into LUTs: the tables come from the gates.  *)
(* The flags leave two faults undetected, those of two branches inside     *)
(* LUTs.                                                                   *)
(***************************************************************************)
EXTENDS Weights, TLC

CONSTANTS
  Circuit,  \* the netlist
  Cones     \* the inner gates of each LUT, by root

Gate  == INSTANCE Circuits
Table == INSTANCE LutTables

Masking == Gate!Masking

\* The cut of Masking for any OPT(lut) >= 2: the inner gates of each LUT, by root.
MaskingCones ==
  (1 :> {1}) @@ (2 :> {2}) @@ (7 :> {3, 5, 7}) @@ (10 :> {4, 8, 10})
    @@ (11 :> {6, 9, 11})

\* f @@ <<>> is f with every value computed once.
MCLuts       == DOMAIN Cones
FaninTable    == [l \in DOMAIN Cones |-> Table!LutFanins(Circuit, Cones[l])] @@ <<>>
ValueTables == [l \in DOMAIN Cones |->
                   Table!ConeValueTable(Circuit, l, Cones[l]) @@ <<>>] @@ <<>>
FaultTables == [l \in DOMAIN Cones |->
                   [g \in DOMAIN Table!ConeFaultTable(Circuit, l, Cones[l]) |->
                      Table!ConeFaultTable(Circuit, l, Cones[l])[g] @@ <<>>] @@ <<>>] @@ <<>>
MCPOs        == DOMAIN Cones \cap Circuit.pos
MCInner      == Cones

\* The vectors of a testable fault and of an untestable one.
TargetTable ==
  {{v \in Gate!Vectors(Circuit) : Gate!CheckFault(Circuit, v, f)} :
     f \in {[gate |-> 10, stuck_at |-> 0], [gate |-> 8, stuck_at |-> 0]}}

\* The pointers of the fanins in descending order.
FaninOrderTable ==
  [l \in Luts |-> LET S == Fanin[l] IN
     CHOOSE q \in [1 .. Cardinality(S) -> S] :
       \A i, j \in 1 .. Cardinality(S) : i < j => q[i] > q[j]]

\* The distances of Masking; an output has none, and it is not asked for.
MCAvgDist == <<3, 3, 3, 1, 3, 1, 2, 1, 1, 1, 1>>

MCTargets    == TargetTable
MCFaninOrder == FaninOrderTable
MCFanin      == FaninTable
MCValueTable == ValueTables
MCFaultTable == FaultTables

MCFlags == {(1 .. 11) \X Bits \ {<<3, 0>>, <<8, 1>>}}

------------------------------------------------------------------------------
\* What Simulator::verify asserts when every LUT is satisfied: the values and the
\* detected faults the LUT tables give for every gate are those the gate-level
\* simulator computes for the same vector.
VerifyHolds ==
  (pc = "idle" /\ Unsat(s) = {}) =>
    LET val == Gate!Values(Circuit, Vector(s), {})
        fd  == Gate!FaultDetected(Circuit, val)
    IN  \A l \in Luts :
          LET seen == 1 - s.value[l] \in s.info[l].fd
              in   == s.input_var[l]
          IN  /\ s.value[l] = val[l]
              /\ \A g \in Cones[l] :
                   (IF seen THEN FaultTable[l][g][<<in, s.value[l]>>].fd ELSE {}) = fd[g]
==============================================================================
