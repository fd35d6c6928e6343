------------------------------- MODULE Netlist -------------------------------
(***************************************************************************)
(* The gate level of the tool: what a netlist computes, which vectors      *)
(* really detect a stuck-at fault (check_fault), which faults the fast     *)
(* simulator believes a vector detects (Simulator::simulate), and the      *)
(* collapsed list of faults ls_main works through.                         *)
(*                                                                         *)
(* A circuit is a record [type, fanins, pos] as it stands after            *)
(* insert_lines_for_stem and init_topo_index: a gate is its id             *)
(* (1 .. n, topologically sorted), type[g] is Gate::type,                  *)
(* fanins[g] the sequence Gate::fanins, and pos the set of gates with      *)
(* isPO. A fault is a record [gate, stuck_at].                             *)
(***************************************************************************)
EXTENDS Integers, Sequences, FiniteSets

Bits == {0, 1}

Bit(p) == IF p THEN 1 ELSE 0

Gates(c) == 1 .. Len(c.type)

Inputs(c) == {g \in Gates(c) : c.type[g] = "INPUT"}

FaninSet(c, g) == {c.fanins[g][i] : i \in DOMAIN c.fanins[g]}

Fanouts(c, g) == {h \in Gates(c) : g \in FaninSet(c, h)}

\* Gate::is_stem: insert_lines_for_stem gave the gate LINE branches.
IsStem(c, g) == \E h \in Fanouts(c, g) : c.type[h] = "LINE"

AllFaults(c) == {[gate |-> g, stuck_at |-> x] : g \in Gates(c), x \in Bits}

Vectors(c) == [Inputs(c) -> Bits]

------------------------------------------------------------------------------
\* Gate::cal_value for a gate of type t whose fanins have the values ins.
CalValue(t, ins) ==
  LET ones == {i \in DOMAIN ins : ins[i] = 1} IN
  CASE t = "NOT"             -> 1 - ins[1]
    [] t \in {"BUF", "LINE"} -> ins[1]
    [] t = "AND"             -> Bit(ones = DOMAIN ins)
    [] t = "NAND"            -> Bit(ones # DOMAIN ins)
    [] t = "OR"              -> Bit(ones # {})
    [] t = "NOR"             -> Bit(ones = {})
    [] t = "XOR"             -> Cardinality(ones) % 2
    [] t = "XNOR"            -> 1 - (Cardinality(ones) % 2)

\* The value gate g computes when its fanins have the values val.
Computed(c, val, g) ==
  CalValue(c.type[g], [i \in DOMAIN c.fanins[g] |-> val[c.fanins[g][i]]])

\* All gate values under input vector v, computed in the order of the ids, with
\* the gates of the faults in fs forced: {} is right_circuit, {f} wrong_circuit.
Values(c, v, fs) ==
  LET Value(val, g) ==
        IF \E f \in fs : f.gate = g THEN (CHOOSE f \in fs : f.gate = g).stuck_at
        ELSE IF c.type[g] = "INPUT" THEN v[g]
        ELSE Computed(c, val, g)
      upTo[g \in Gates(c) \cup {0}] ==
        IF g = 0 THEN <<>>
        ELSE LET val == upTo[g - 1] IN Append(val, Value(val, g))
  IN  upTo[Len(c.type)]

\* check_fault: some primary output of the faulty circuit differs.
CheckFault(c, v, f) ==
  \E o \in c.pos : Values(c, v, {})[o] # Values(c, v, {f})[o]

------------------------------------------------------------------------------
\* Gate::is_detected: h is consistent, and flipping its fanin g shows at h.
IsDetected(c, val, h, g) ==
  /\ Computed(c, val, h) = val[h]
  /\ Computed(c, [val EXCEPT ![g] = 1 - @], h) # val[h]

\* Gate::cal_fault_detected for every gate, outputs first: the polarities the
\* critical-path trace marks. A primary output is always observed; any other
\* gate is when one fanout alone carries the change on.
FaultDetected(c, val) ==
  LET n == Len(c.type)
      Observed(fd, g) ==
        \/ g \in c.pos
        \/ \E h \in Fanouts(c, g) :
             fd[h - g] # {} /\ IsDetected(c, val, h, g)
      from[g \in 1 .. n + 1] ==          \* the marks of g, g + 1, ..., n
        IF g = n + 1 THEN <<>>
        ELSE LET fd == from[g + 1]
             IN  <<IF Observed(fd, g) THEN {1 - val[g]} ELSE {}>> \o fd
  IN  from[1]

\* Simulator::simulate: the faults marked in simulator->gates for vector v.
Simulate(c, v) ==
  LET fd == FaultDetected(c, Values(c, v, {})) IN
  {f \in AllFaults(c) : f.stuck_at \in fd[f.gate]}

------------------------------------------------------------------------------
\* The polarities of gate g that ls_main puts on its list. Faults in front of
\* an inverter or buffer, and the controlling polarity in front of an AND or
\* OR, are left to the equivalent fault behind that gate.
ListedPolarities(c, g) ==
  IF IsStem(c, g) \/ g \in c.pos
  THEN Bits
  ELSE LET out == CHOOSE h \in Fanouts(c, g) : TRUE IN
       CASE c.type[out] \in {"BUF", "NOT"}  -> {}
         [] c.type[out] \in {"XOR", "XNOR"} -> Bits
         [] c.type[out] \in {"AND", "NAND"} -> {1}
         [] c.type[out] \in {"OR", "NOR"}   -> {0}

ListedFaults(c) ==
  {f \in AllFaults(c) : f.stuck_at \in ListedPolarities(c, f.gate)}

\* t_faults: the list in the order of the gates, stuck-at-0 before stuck-at-1.
MakeFaultList(c) ==
  SelectSeq([k \in 1 .. 2 * Len(c.type) |->
               [gate |-> (k + 1) \div 2, stuck_at |-> (k + 1) % 2]],
            LAMBDA f : f \in ListedFaults(c))
==============================================================================
