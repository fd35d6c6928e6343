------------------------------ MODULE LutTables ------------------------------
(***************************************************************************)
(* LUT::init_lookup_table: what a group of gates computes and which faults *)
(* inside it, and at its fanins, show at its root. A LUT is named by its   *)
(* root gate; cone is the set of its inner gates, root included, and its   *)
(* fanins are the gates outside that feed it.                              *)
(***************************************************************************)
EXTENDS Integers, Sequences, FiniteSets, Netlist
LOCAL INSTANCE FiniteSetsExt

LutFanins(c, cone) == UNION {FaninSet(c, g) : g \in cone} \ cone

\* The values of the LUT's gates when its fanins have the values in, by id. A
\* primary input has whatever value it had; nobody reads its value_table.
ConeValues(c, cone, in) ==
  LET val[g \in cone \cup DOMAIN in] ==
        IF g \in DOMAIN in THEN in[g]
        ELSE IF c.type[g] = "INPUT" THEN 1
        ELSE CalValue(c.type[g], [i \in DOMAIN c.fanins[g] |-> val[c.fanins[g][i]]])
  IN  [g \in cone \cup DOMAIN in |-> val[g]]

\* value_table: the root's value for every input.
ConeValueTable(c, root, cone) ==
  [in \in [LutFanins(c, cone) -> Bits] |-> ConeValues(c, cone, in)[root]]

\* Mutant: every inner fanout of a gate reacts to it.
AllReacting(c, cone, val, g) == cone \cap Fanouts(c, g)

\* The inner gates that show a change of g, by is_detected.
Reacting(c, cone, val, g) ==
  {h \in cone \cap Fanouts(c, g) : IsDetected(c, val, h, g)}

\* One column of fault_table: the entries of the inner gates and fanins for
\* inputs in while the root is held at x. Walking from the root to the fanins,
\* a gate takes fd and fpl over from the gates that react to it alone. fpl
\* counts reacting gates, fd asks that the change reaches the root.
ConeFaultInfo(c, root, cone, in, x) ==
  LET val == [ConeValues(c, cone, in) EXCEPT ![root] = x]
      from(g) == Reacting(c, cone, val, g)
      shown[g \in DOMAIN val] ==         \* fd[!value] of g
        g = root \/ \E h \in from(g) : shown[h]
      len[g \in DOMAIN val] ==           \* fpl[!value] of g
        IF g = root \/ from(g) = {} THEN 0
        ELSE 1 + Max({len[h] : h \in from(g)})
  IN  [g \in DOMAIN val |->
         [fd  |-> IF shown[g] THEN {1 - val[g]} ELSE {},
          fpl |-> [y \in Bits |-> IF y = 1 - val[g] THEN len[g] ELSE 0]]]

\* fault_table, by gate, fanin values and root value.
ConeFaultTable(c, root, cone) ==
  [g \in cone \cup LutFanins(c, cone) |->
     [in \in [LutFanins(c, cone) -> Bits], x \in Bits |->
        ConeFaultInfo(c, root, cone, in, x)[g]]]
==============================================================================
