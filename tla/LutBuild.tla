------------------------------ MODULE LutBuild ------------------------------
(***************************************************************************)
(* Cutting a netlist into LUTs: Circuit::build_lut_circuit and the         *)
(* constructor LUT::LUT. A LUT grows from its root by taking in leaves     *)
(* with a single fanout, picked at random, as long as the number of its    *)
(* fanins stays within OPT(lut). The leaves that remain and are no heads   *)
(* of their own get a LUT later.                                           *)
(*                                                                         *)
(* The netlist is one that insert_lines_for_stem, init_topo_index and      *)
(* init_avg_dist have let through: gates are named by their topological    *)
(* index, every connection of a stem runs through a line of its own, and a *)
(* gate has fanouts unless it is a primary output, which has none.         *)
(***************************************************************************)
EXTENDS Integers, Sequences, FiniteSets, Functions

CONSTANTS
  GateIds,    \* the gates, named by Gate::id
  Fanins,     \* Fanins[g]: the gates that g reads
  PIs,        \* the primary inputs
  POs,        \* the primary outputs
  HeadList,   \* the gates queued first, in the order of the ids
  MaxInputs   \* OPT(lut)

Fanouts(g) == {h \in GateIds : g \in Fanins[h]}

Branching(g) == Cardinality(Fanouts(g)) >= 2

\* The gates that get a LUT in any case.
Heads == {g \in GateIds : \/ Branching(g)
                          \/ g \in PIs
                          \/ g \in POs /\ Fanouts(g) = {}}

ASSUME NetlistAssumption ==
  /\ IsFiniteSet(GateIds) /\ GateIds = 1 .. Cardinality(GateIds)
  /\ Fanins \in [GateIds -> SUBSET GateIds]
  /\ \A g \in GateIds : \A f \in Fanins[g] : f < g
  /\ PIs = {g \in GateIds : Fanins[g] = {}}
  /\ POs = {g \in GateIds : Fanouts(g) = {}}

ASSUME QueueAssumption ==
  /\ HeadList \in Seq(GateIds) /\ HeadList # <<>>
  /\ Range(HeadList) = Heads
  /\ \A i, j \in DOMAIN HeadList : i < j => HeadList[i] < HeadList[j]

ASSUME LimitAssumption == MaxInputs \in Nat

VARIABLES
  pc,       \* pop: between two LUTs; grow: in the constructor; linked; abort
  queue,    \* q: the gates whose LUT is still to be built
  done,     \* the gates that were ever queued
  root,     \* the gate whose LUT is being built (the first to be, before any)
  inner,    \* its inner_gates so far
  leaves,   \* its fanins so far
  luts      \* the LUTs built, in order

vars == <<pc, queue, done, root, inner, leaves, luts>>

Lut == [gate : GateIds, inner_gates : SUBSET GateIds, fanins : SUBSET GateIds]

\* The sequences that list S once, for a set walked in the order of pointers.
Orders(S) == {o \in [1 .. Cardinality(S) -> S] : Range(o) = S}

Init ==
  /\ pc = "pop"
  /\ queue = HeadList
  /\ done = Heads
  /\ root = HeadList[1]
  /\ inner = {}
  /\ leaves = {}
  /\ luts = <<>>

\* Mutant: the queue is used as a stack.
PopLast ==
  /\ pc = "pop"
  /\ queue # <<>>
  /\ root' = queue[Len(queue)]
  /\ queue' = SubSeq(queue, 1, Len(queue) - 1)
  /\ inner' = {root'}
  /\ leaves' = Fanins[root']
  /\ pc' = "grow"
  /\ UNCHANGED <<done, luts>>

\* The next gate, and the LUT that consists of it alone.
PopGate ==
  /\ pc = "pop"
  /\ queue # <<>>
  /\ root' = Head(queue)
  /\ queue' = Tail(queue)
  /\ inner' = {root'}
  /\ leaves' = Fanins[root']
  /\ pc' = "grow"
  /\ UNCHANGED <<done, luts>>

\* The number of fanins the LUT would have with leaf g taken in.
Widened(g) == Cardinality(leaves) - 1 + Cardinality(Fanins[g] \ leaves)

\* Mutant: a primary input is taken in.
CandidatesInput == {g \in leaves : ~Branching(g) /\ Widened(g) <= MaxInputs}

Candidates == {g \in leaves : /\ ~Branching(g)
                              /\ g \notin PIs
                              /\ Widened(g) <= MaxInputs}

\* Mutants: the gate taken in stays a leaf; its fanins are forgotten.
AbsorbKeepsLeaf(g) ==
  /\ pc = "grow"
  /\ g \in Candidates
  /\ inner' = inner \cup {g}
  /\ leaves' = leaves \cup Fanins[g]
  /\ UNCHANGED <<pc, queue, done, root, luts>>
AbsorbForgetsFanins(g) ==
  /\ pc = "grow"
  /\ g \in Candidates
  /\ inner' = inner \cup {g}
  /\ leaves' = leaves \ {g}
  /\ UNCHANGED <<pc, queue, done, root, luts>>

\* One round of the constructor's loop, for the random candidate g.
Absorb(g) ==
  /\ pc = "grow"
  /\ g \in Candidates
  /\ inner' = inner \cup {g}
  /\ leaves' = (leaves \ {g}) \cup Fanins[g]
  /\ UNCHANGED <<pc, queue, done, root, luts>>

\* The leaves that nobody has queued yet.
NewHeads == {g \in leaves : /\ ~Branching(g)
                            /\ g \notin PIs
                            /\ g \notin done}

\* No candidate is left: the LUT is finished and its leaves are queued.
FinishLut ==
  /\ pc = "grow"
  /\ Candidates = {}
  /\ luts' = Append(luts, [gate |-> root, inner_gates |-> inner, fanins |-> leaves])
  /\ \E o \in Orders(NewHeads) : queue' = queue \o o
  /\ done' = done \cup NewHeads
  /\ pc' = "pop"
  /\ UNCHANGED <<root, inner, leaves>>

\* The LUTs are connected, with the assertion that every fanin is a LUT.
Link ==
  /\ pc = "pop"
  /\ queue = <<>>
  /\ pc' = IF \A i \in DOMAIN luts : \A g \in luts[i].fanins :
                \E j \in DOMAIN luts : luts[j].gate = g
           THEN "linked" ELSE "abort"
  /\ UNCHANGED <<queue, done, root, inner, leaves, luts>>

Linked == pc = "linked" /\ UNCHANGED vars

Next ==
  \/ PopGate
  \/ \E g \in GateIds : Absorb(g)
  \/ FinishLut
  \/ Link
  \/ Linked

\* One thread.
Spec == Init /\ [][Next]_vars /\ WF_vars(Next)

------------------------------------------------------------------------------
\* Type invariant of the builder. A gate is queued once only.
TypeOK ==
  /\ pc \in {"pop", "grow", "linked", "abort"}
  /\ queue \in Seq(GateIds) /\ IsInjective(queue)
  /\ done \subseteq GateIds
  /\ root \in GateIds
  /\ inner \subseteq GateIds
  /\ leaves \subseteq GateIds
  /\ luts \in Seq(Lut)

\* Every fanin of a LUT has a LUT of its own when the LUTs are connected
\* (assert(gate2LUT.count(in) > 0)).
FaninsAreLuts == pc # "abort"

\* A gate is in one LUT at most: parent_lut and id_in_lut are its place in
\* the fault tables, and ls_main counts it once.
LutsAreDisjoint ==
  \A i, j \in DOMAIN luts :
    i # j => luts[i].inner_gates \cap luts[j].inner_gates = {}

\* In the end every gate is in a LUT (assert(num_gates == C->gates.size())).
LutsCoverGates ==
  pc = "linked" => UNION {luts[i].inner_gates : i \in DOMAIN luts} = GateIds

\* What a LUT hides is read by nobody else: a gate inside it other than its
\* root has all its fanouts inside. A flip of the root's value, which stands for
\* the whole LUT, could otherwise leave a reader elsewhere behind.
InnerIsPrivate ==
  \A i \in DOMAIN luts : \A g \in luts[i].inner_gates \ {luts[i].gate} :
    g \notin PIs /\ Fanouts(g) \subseteq luts[i].inner_gates

\* The LUTs partition the netlist, and only their roots are read from outside.
LutsPartitionGates == LutsAreDisjoint /\ LutsCoverGates /\ InnerIsPrivate

\* The fanins of a LUT are exactly what its gates read from outside, and lie
\* below its root, which is the last of its gates; init_lookup_table evaluates
\* the gates in that order (assert(inner_gates.back() == gate)), and ls_gen_sol
\* the LUTs.
ConesAreClosed ==
  \A i \in DOMAIN luts :
    LET lut == luts[i] IN
    /\ lut.fanins = (UNION {Fanins[g] : g \in lut.inner_gates}) \ lut.inner_gates
    /\ \A g \in lut.inner_gates \ {lut.gate} : g < lut.gate
    /\ \A f \in lut.fanins : f < lut.gate

\* The LUTs of the primary inputs come in the order of the inputs, which is the
\* order in which ls_main writes the oracle's vector into them.
InputOrder ==
  \A i, j \in DOMAIN luts :
    i < j /\ {luts[i].gate, luts[j].gate} \subseteq PIs
      => luts[i].gate < luts[j].gate

\* The construction comes to an end with connected LUTs.
GetsLinked == <>(pc = "linked")
==============================================================================
