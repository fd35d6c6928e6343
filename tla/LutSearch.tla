------------------------------ MODULE LutSearch ------------------------------
(***************************************************************************)
(* The state the local search keeps per LUT and how it is kept up to date. *)
(* Every LUT has a value of its own; the search flips one LUT at a time,   *)
(* so a LUT may disagree with its fanins (vsat is then false). Next to the *)
(* value a LUT caches its input index, vsat, the faults of its root that   *)
(* reach an output (fd, fpl) and uptag, the mark that fd and fpl are out   *)
(* of date. ls_flip updates the caches around the flipped LUT only, and    *)
(* LUTCircuit::check says what must hold of them.                          *)
(*                                                                         *)
(* A LUT is named by its root gate; input_var is the assignment of the     *)
(* fanins, which the code packs into an integer. The record s holds the    *)
(* fields of all LUTs. Scores and weights are left out: which of the       *)
(* sampled LUTs has the best positive score is left open.                  *)
(***************************************************************************)
EXTENDS Integers, FiniteSets, FiniteSetsExt

CONSTANTS
  Luts,        \* the LUTs, numbered in topological order
  Fanin,       \* Fanin[l]: the LUTs that LUT l reads
  POs,         \* the LUTs whose root is a primary output
  ValueTable,  \* ValueTable[l][in]: the output of l for fanin values in
  FaultTable,  \* FaultTable[l][r][<<in, x>>]: what l, having value x, shows of its fanin r
  Targets,     \* for each possible target, the vectors that detect it
  Samples,     \* OPT(t): how many LUTs ls_pick scores
  MaxSteps     \* OPT(max_step_coeff) * luts.size()

Bits == {0, 1}
PIs  == {l \in Luts : Fanin[l] = {}}
Vectors == [PIs -> Bits]

Fanouts(l) == {m \in Luts : l \in Fanin[m]}

\* Mutant: the LUTs beside l, which share a fanout with it, are left out.
RegionBelow(l) == Fanin[l] \ {l}

\* LUT::reigon: the LUTs whose fault info a flip of l may change.
Region(l) == (Fanin[l] \cup UNION {Fanin[m] : m \in Fanouts(l)}) \ {l}

FaultInfo == [fd : SUBSET Bits, fpl : [Bits -> Nat]]

ASSUME GraphAssumption ==
  /\ IsFiniteSet(Luts) /\ Luts \subseteq Nat
  /\ Fanin \in [Luts -> SUBSET Luts]
  /\ \A l \in Luts : \A r \in Fanin[l] : r < l
  /\ POs \subseteq Luts

ASSUME TableAssumption ==
  \A l \in Luts \ PIs : \A in \in [Fanin[l] -> Bits] :
    /\ ValueTable[l][in] \in Bits
    /\ \A r \in Fanin[l], x \in Bits : FaultTable[l][r][<<in, x>>] \in FaultInfo

ASSUME TargetAssumption == Targets \subseteq SUBSET Vectors

ASSUME BoundAssumption == Samples \in Nat /\ MaxSteps \in Nat

VARIABLES
  s,        \* the LUT fields: value, input_var, vsat, uptag, info (fd, fpl), CC
  pc,       \* idle | sat | search: where ls_main is with the current target
  good,     \* the vectors that detect the target
  best_sol, \* ls_gen_sol: a vector it may return
  step      \* ls_gen_sol: the loop counter

vars == <<s, pc, good, best_sol, step>>

------------------------------------------------------------------------------
\* LUT::cal_value in state t.
CalValue(t, l) == IF l \in PIs THEN t.value[l] ELSE ValueTable[l][t.input_var[l]]

\* Whether a change of fanout m's own value reaches an output.
Observed(t, info, m) == 1 - t.value[m] \in info[m].fd

\* What fanout m shows of l in state t.
Shown(t, m, l) == FaultTable[m][l][<<t.input_var[m], t.value[m]>>]

\* The length of the path of l's fault x through m, whose own is own.
Fpl(row, own, x) == row.fpl[x] + (IF x \in row.fd THEN own ELSE 0)

\* LUT::cal_fault_info in state t, reading the fd and fpl of the fanouts from info.
CalFaultInfo(t, info, l) ==
  LET open == {m \in Fanouts(l) : t.vsat[m]}
  IN  IF l \in POs
      THEN [fd  |-> {1 - t.value[l]}, fpl |-> [x \in Bits |-> 0]]
      ELSE [fd  |-> UNION {IF Observed(t, info, m) THEN Shown(t, m, l).fd ELSE {} : m \in open},
            fpl |-> [x \in Bits |->
              Max({0} \cup {Fpl(Shown(t, m, l), info[m].fpl[1 - t.value[m]], x) : m \in open})]]

\* Every input index read off the values, as ls_main, ls_random_sol and
\* ls_gen_sol do after they have set values.
InputsOf(value) == [l \in Luts |-> [r \in Fanin[l] |-> value[r]]]

\* cal_fault_info for every LUT in the order rtopo_luts, fanouts first.
AllFaultInfo(t) ==
  LET info[l \in Luts] == CalFaultInfo(t, info, l) IN info

\* LUT::flip_value: the value, and its bit in the input index of each fanout.
FlipValue(t, l) ==
  [t EXCEPT !.value[l] = 1 - @,
            !.input_var = [m \in Luts |->
               IF l \in Fanin[m] THEN [t.input_var[m] EXCEPT ![l] = 1 - @]
                                 ELSE t.input_var[m]]]

\* vsat after that: toggled for l itself, evaluated anew for its fanouts.
FlipVsat(t, l) ==
  [t EXCEPT !.vsat = [m \in Luts |->
     IF l \in Fanin[m] THEN CalValue(t, m) = t.value[m]
     ELSE IF m = l /\ l \notin PIs THEN ~t.vsat[m]
     ELSE t.vsat[m]]]

FlipInfo(t, l) == [t EXCEPT !.info[l] = CalFaultInfo(t, t.info, l)]

\* Which LUTs may be picked again, and which are out of date.
MarkRegion(t, l) ==
  LET Outdated(r) == CalFaultInfo(t, t.info, r) # t.info[r]
  IN  [t EXCEPT !.uptag = [m \in Luts |->
                   m # l /\ (t.uptag[m] \/ (m \in Region(l) /\ Outdated(m)))],
                !.CC = [m \in Luts |->
                   m # l /\ (t.CC[m] \/ m \in Fanouts(l) \cup Region(l))]]

\* LUTCircuit::ls_flip.
LsFlip(t, l) == MarkRegion(FlipInfo(FlipVsat(FlipValue(t, l), l), l), l)

\* Mutant: vsat of the fanouts is evaluated before the trial flip is taken back.
CalScoresEarly(t, S) ==
  [t EXCEPT !.vsat = [m \in Luts |->
     \/ Fanin[m] \cap S = {} /\ t.vsat[m]
     \/ \E l \in Fanin[m] \cap S : CalValue(FlipValue(t, l), m) = t.value[m]]]

\* What LUT::cal_score leaves behind when the LUTs in S are scored: it takes
\* its trial flip back and evaluates vsat of the fanouts again.
CalScores(t, S) ==
  [t EXCEPT !.vsat = [m \in Luts |->
     IF Fanin[m] \cap S # {} THEN CalValue(t, m) = t.value[m] ELSE t.vsat[m]]]

\* vsat, and then fd and fpl, evaluated for every LUT.
WithVsat(t) == [t EXCEPT !.vsat = [l \in Luts |-> t.value[l] = CalValue(t, l)]]
WithInfo(t) == [t EXCEPT !.info = AllFaultInfo(t)]

\* LUTCircuit::ls_random_sol with the random values val.
RandomSol(val) ==
  LET fresh == [value     |-> val,
                input_var |-> InputsOf(val),
                vsat      |-> [l \in Luts |-> TRUE],
                uptag     |-> [l \in Luts |-> FALSE],
                info      |-> <<>>,
                CC        |-> [l \in Luts |-> TRUE]]
  IN  CalScores(WithInfo(WithVsat(fresh)), Luts)

\* The vector of the oracle written into the primary inputs by ls_main: the
\* input indexes follow, vsat, fd, fpl and uptag keep their old values.
SatSeed(t, v) ==
  LET val == [l \in Luts |-> IF l \in PIs THEN v[l] ELSE t.value[l]]
  IN  [t EXCEPT !.value = val, !.input_var = InputsOf(val)]

\* The values of all LUTs, computed from the primary inputs in topological order.
Evaluate(v) ==
  LET val[l \in Luts] ==
        IF l \in PIs THEN v[l] ELSE ValueTable[l][[r \in Fanin[l] |-> val[r]]]
  IN  val

Satisfied(t, val) ==
  [t EXCEPT !.value = val, !.input_var = InputsOf(val), !.vsat = [l \in Luts |-> TRUE]]

\* Mutant: the fault info is not recomputed at the end of the search.
SettleValuesOnly(t, v) == Satisfied(t, Evaluate(v))

\* The end of ls_gen_sol: all LUTs satisfied under v, and the fault info
\* recomputed from the outputs. uptag stays.
Settle(t, v) == WithInfo(Satisfied(t, Evaluate(v)))

Vector(t) == [p \in PIs |-> t.value[p]]

Unsat(t) == {l \in Luts : ~t.vsat[l]}

\* The LUTs ls_pick may return after scoring those in S, and, when it returns
\* none, any LUT.
Pickable(t, S) ==
  S \cup (IF Unsat(t) # {} THEN Unsat(t) \cup UNION {Fanin[l] : l \in Unsat(t)}
                           ELSE Luts)

------------------------------------------------------------------------------
\* The first ls_random_sol: it gives every field its first defined value.
Init ==
  /\ \E val \in [Luts -> Bits] : s = RandomSol(val)
  /\ good \in Targets
  /\ pc = "sat"
  /\ best_sol = Vector(s)
  /\ step = 0

\* A new target: ls_random_sol.
Start ==
  /\ pc = "idle"
  /\ \E val \in [Luts -> Bits] : s' = RandomSol(val)
  /\ good' \in Targets
  /\ pc' = "sat"
  /\ UNCHANGED <<best_sol, step>>

\* sat_atpg says "unsat": on to the next target.
Unsatisfiable ==
  /\ pc = "sat"
  /\ good = {}
  /\ pc' = "idle"
  /\ UNCHANGED <<s, good, best_sol, step>>

\* sat_atpg returns a vector.
Seed ==
  /\ pc = "sat"
  /\ \E v \in good : s' = SatSeed(s, v) /\ best_sol' = v
  /\ step' = 0
  /\ pc' = "search"
  /\ UNCHANGED good

\* The condition of that loop.
Searching == pc = "search" /\ step < MaxSteps

\* Taking the flip of pick back, which led to u.
Unflip(u, pick) == [LsFlip(u, pick) EXCEPT !.CC[pick] = FALSE]

\* The flip of pick leads to u; that of a primary input is undone when the target
\* is lost.
FlipTo(u, pick) ==
  /\ s' = IF pick \in PIs /\ Vector(u) \notin good THEN Unflip(u, pick) ELSE u
  /\ best_sol' \in IF pick \in PIs /\ Vector(u) \in good
                   THEN {best_sol, Vector(u)} ELSE {best_sol}
  /\ step' = step + 1
  /\ UNCHANGED <<pc, good>>

\* One turn of ls_gen_sol: ls_pick scores the LUTs in S, and pick is flipped.
Turn(S, pick) ==
  /\ Searching
  /\ S \subseteq {l \in Luts : s.CC[l]}
  /\ pick \in Pickable(CalScores(s, S), S)
  /\ FlipTo(LsFlip(CalScores(s, S), pick), pick)

Finish ==
  /\ pc = "search"
  /\ step >= MaxSteps
  /\ s' = Settle(s, best_sol)
  /\ pc' = "idle"
  /\ UNCHANGED <<good, best_sol, step>>

SampleSets == {S \in SUBSET Luts : Cardinality(S) <= Samples}

Next ==
  \/ Start
  \/ Unsatisfiable
  \/ Seed
  \/ \E S \in SampleSets, pick \in Luts : Turn(S, pick)
  \/ Finish

Spec == Init /\ [][Next]_vars

------------------------------------------------------------------------------
\* The input indexes are those the values of the fanins spell.
InputsCoherent(t) == t.input_var = InputsOf(t.value)

LutFields ==
  [value     : [Luts -> Bits],
   input_var : [Luts -> UNION {[Fanin[l] -> Bits] : l \in Luts}],
   vsat      : [Luts -> BOOLEAN],
   uptag     : [Luts -> BOOLEAN],
   info      : [Luts -> FaultInfo],
   CC        : [Luts -> BOOLEAN]]

\* Type invariant. The input index that flip_value patches bit by bit is right at
\* all times.
TypeOK ==
  /\ s \in LutFields
  /\ InputsCoherent(s)
  /\ pc \in {"idle", "sat", "search"}
  /\ good \in SUBSET Vectors
  /\ best_sol \in Vectors
  /\ step \in 0 .. MaxSteps

\* The other two coherence conditions.
StaleVsat(t) == {l \in Luts : t.vsat[l] # (t.value[l] = CalValue(t, l))}

InfoCoherent(t) ==
  \A l \in Luts : ~t.uptag[l] => t.info[l] = CalFaultInfo(t, t.info, l)

Coherent(t) == InputsCoherent(t) /\ StaleVsat(t) = {} /\ InfoCoherent(t)

\* Between targets, and when a target has just been randomised, all caches are
\* right and the assertions of LUTCircuit::check hold.
RestsCoherent == pc # "search" => Coherent(s)

\* A turn of the search keeps right caches right: the LUTs in reigon are all
\* that a flip can put out of date, whether or not the flip is undone.
FlipKeepsCoherence == [][pc = "search" /\ Coherent(s) => Coherent(s')]_vars

\* In a state that is not coherent a turn may repair vsat of a LUT, and never
\* makes a right one wrong.
StaleVsatShrinks == [][pc = "search" => StaleVsat(s') \subseteq StaleVsat(s)]_vars

\* The first assertion of LUTCircuit::check, at every turn of the search.
CheckVsat == \A l \in Luts : s.vsat[l] = (s.value[l] = CalValue(s, l))
==============================================================================
