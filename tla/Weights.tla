------------------------------- MODULE Weights -------------------------------
(***************************************************************************)
(* What guides the search: the score cal_score gives a LUT on trial, the   *)
(* weights and costs the score is made of, and ls_update, which changes    *)
(* them when none of the scored LUTs promises to gain. LutSearch leaves    *)
(* the choice of the next LUT open; here ls_pick is followed to the end.   *)
(*                                                                         *)
(* avg_dist divides some of the weights and the code adds up doubles. All  *)
(* sums here are multiplied by Scale, a multiple of every avg_dist.        *)
(***************************************************************************)
EXTENDS LutSearch, SequencesExt

CONSTANTS
  Inner,            \* Inner[l]: the gates inside LUT l
  FaninOrder,       \* FaninOrder[l]: LUT::fanins of l as a sequence
  AvgDist, Scale,   \* Gate::avg_dist
  DetectedSets,     \* the flags fault_detected that ls_main may have come to
  VsatInc, VsatMax, FwInc, FwMax, UpInc, UpMax,    \* OPT(...)
  Focus             \* 100000, the weight of the fault put in focus

InnerGates == UNION {Inner[l] : l \in Luts}

Faults == InnerGates \X Bits

ASSUME InnerAssumption ==
  /\ \A l \in Luts : IsFiniteSet(Inner[l])
  /\ \A l \in Luts : \A g \in Inner[l], in \in [Fanin[l] -> Bits], x \in Bits :
       FaultTable[l][g][<<in, x>>] \in FaultInfo
  /\ \A l \in Luts :
       Range(FaninOrder[l]) = Fanin[l] /\ Len(FaninOrder[l]) = Cardinality(Fanin[l])
  /\ Scale \in Nat
  /\ \A g \in InnerGates \ POs : AvgDist[g] \in Nat \ {0} /\ Scale % AvgDist[g] = 0

ASSUME OptionAssumption ==
  /\ {VsatInc, FwInc, UpInc, VsatMax, FwMax, UpMax} \subseteq Nat
  /\ Focus \in Nat /\ Focus > FwMax

\* A fault is left to focus on.
ASSUME FlagsAssumption == \A d \in DetectedSets : d \subseteq Faults /\ Faults \ d # {}

VARIABLES
  w,       \* vunat_cost and up_cost of the LUTs, fault_detected_weight and
           \* fault_propagated_weight of the gates
  flags    \* fault_detected

wvars == <<vars, w, flags>>

Bit(b) == IF b THEN 1 ELSE 0

Undetected(d) == [g \in InnerGates |-> [x \in Bits |-> Bit(<<g, x>> \notin d)]]

\* The weights ls_random_sol starts from.
FreshWeights(d) ==
  {[vunat |-> [l \in Luts |-> IF l \in PIs THEN VsatInc * 100 ELSE 1],
    up    |-> [l \in Luts |-> 1],
    fd    |-> [Undetected(d) EXCEPT ![f[1]][f[2]] = Focus],
    fp    |-> Undetected(d)] : f \in Faults \ d}

------------------------------------------------------------------------------
\* What fault p of gate g weighs; row says what the gate's LUT shows of it.
Weight(g, p, row, x, info) ==
  w.fd[g][p] *
    (Scale * Bit(p \in row.fd /\ 1 - x \in info.fd)
     + IF g \in POs THEN 0 ELSE Fpl(row, info.fpl[1 - x], p) * (Scale \div AvgDist[g]))

\* What the faults inside LUT l weigh if its fanins have the values in, it has
\* value x, and info is its own fault info.
Worth(l, in, x, info) ==
  SumFunction([f \in Inner[l] \X Bits |->
                 Weight(f[1], f[2], FaultTable[l][f[1]][<<in, x>>], x, info)])

WorthIn(t, l) == Worth(l, t.input_var[l], t.value[l], t.info[l])

\* The sum LUTCircuit::check prints for the state t.
Objective(t) ==
  SumFunction([l \in Luts |-> WorthIn(t, l)])
  - Scale * (SumFunction([l \in Unsat(t) |-> w.vunat[l]])
             + SumFunction([l \in {m \in Luts : t.uptag[m]} |-> w.up[l]]))

\* Mutant: the rows of the fanouts are taken for the value before the flip only.
ShownByOwn(u, t, l) == {l}

\* The LUTs whose faults are weighed anew when l is flipped.
ShownBy(u, t, l) == {l} \cup Fanouts(l)

\* What l and its fanouts cost as far as they are not satisfied.
Unsatisfied(t, l) ==
  SumFunction([m \in {k \in Fanouts(l) \cup ({l} \ PIs) : ~t.vsat[k]} |-> w.vunat[m]])

\* The LUTs in reigon a flip of l that leads from t to u would put out of date.
Outdated(u, t, l) ==
  {r \in Region(l) : ~t.uptag[r] /\ CalFaultInfo(u, u.info, r) # u.info[r]}

Gain(u, t, l) ==
  SumFunction([m \in ShownBy(u, t, l) |-> WorthIn(u, m) - WorthIn(t, m)])
  - Scale * (Unsatisfied(u, l) - Unsatisfied(t, l)
             + SumFunction([r \in Outdated(u, t, l) |-> w.up[r]])
             - Bit(t.uptag[l]) * w.up[l])

\* LUT::cal_score: l is flipped, its fanouts' vsat and its own fault info follow;
\* of the LUTs in reigon it is only counted which would have to be updated.
Score(t, l) == Gain(FlipInfo(FlipVsat(FlipValue(t, l), l), l), t, l)

Better(score, best) == score > 0 /\ score > best

\* Scoring l, which also evaluates vsat of its fanouts.
Scored(acc, l, score) ==
  [t     |-> CalScores(acc.t, {l}),
   score |-> IF Better(score, acc.score) THEN score ELSE acc.score,
   pick  |-> IF Better(score, acc.score) THEN {l} ELSE acc.pick]

\* The samples of ls_pick, in order: those that may be picked are scored, and the
\* first of the best is kept.
Sampled(t, q) ==
  FoldLeft(LAMBDA acc, l : IF acc.t.CC[l] THEN Scored(acc, l, Score(acc.t, l)) ELSE acc,
           [t |-> t, score |-> 0, pick |-> {}], q)

------------------------------------------------------------------------------
\* The row of fault_table that ls_update looks at. The table is laid out by
\* input_var << 1 | value, and it is indexed by input_var: bit j of the inputs is
\* taken for bit j - 1, the first one for the value and 0 for the last.
UpdateRow(t, l) ==
  LET n == Len(FaninOrder[l])
      Value(j) == IF j <= n THEN t.input_var[l][FaninOrder[l][j]] ELSE 0
      in == [r \in Fanin[l] |->
               Value(1 + CHOOSE j \in 1 .. n : FaninOrder[l][j] = r)]
  IN  [in |-> in, value |-> Value(1)]

\* The polarities that row shows of gate g, which lies in LUT l.
RowShows(t, l, g) ==
  LET row == UpdateRow(t, l) IN FaultTable[l][g][<<row.in, row.value>>].fd

Lower(c, inc) == IF c - inc >= 1 THEN c - inc ELSE c

RaiseTo(c, inc, max) == IF c + inc > max THEN max ELSE c + inc

LutOf(g) == CHOOSE l \in Luts : g \in Inner[l]

\* ls_update with probability sp: what is in order becomes cheaper. The bound of
\* the propagated weight of polarity 1 is tested with +.
Lowered(t) ==
  LET Shows(g, x) == x \in RowShows(t, LutOf(g), g) IN
  [vunat |-> [l \in Luts |-> IF t.vsat[l] THEN Lower(w.vunat[l], VsatInc) ELSE w.vunat[l]],
   up    |-> [l \in Luts |-> IF t.uptag[l] THEN w.up[l] ELSE Lower(w.up[l], UpInc)],
   fd    |-> [g \in InnerGates |-> [x \in Bits |->
                IF Shows(g, x) THEN Lower(w.fd[g][x], FwInc) ELSE w.fd[g][x]]],
   fp    |-> [g \in InnerGates |->
                [w.fp[g] EXCEPT
                   ![0] = IF Shows(g, 0) THEN Lower(@, FwInc) ELSE @,
                   ![1] = IF Shows(g, 1) /\ @ + FwInc >= 1 THEN @ - FwInc ELSE @]]]

\* Mutant: the weights of detected faults are raised too.
MayRaiseAny(c, tested) == c + FwInc <= FwMax

\* The condition for raising weight c; tested is the weight asked to be positive.
MayRaise(c, tested) == tested > 0 /\ c + FwInc <= FwMax

\* ls_update otherwise: what is out of order becomes dearer. For the propagated
\* weight of polarity 1 that of polarity 0 is tested.
Raised(t) ==
  LET Hidden(g, x) == x \notin RowShows(t, LutOf(g), g) IN
  [vunat |-> [l \in Luts |->
                IF t.vsat[l] THEN w.vunat[l] ELSE RaiseTo(w.vunat[l], VsatInc, VsatMax)],
   up    |-> [l \in Luts |->
                IF t.uptag[l] THEN RaiseTo(w.up[l], UpInc, UpMax) ELSE w.up[l]],
   fd    |-> [g \in InnerGates |-> [x \in Bits |->
                IF Hidden(g, x) /\ MayRaise(w.fd[g][x], w.fd[g][x])
                THEN w.fd[g][x] + FwInc ELSE w.fd[g][x]]],
   fp    |-> [g \in InnerGates |-> [x \in Bits |->
                IF Hidden(g, x) /\ MayRaise(w.fp[g][x], w.fp[g][0])
                THEN w.fp[g][x] + FwInc ELSE w.fp[g][x]]]]

\* The LUTs ls_pick and the random fallback may return after ls_update.
AnyPick(t) ==
  IF Unsat(t) = {} THEN Luts
  ELSE Unsat(t) \cup UNION {Fanin[l] : l \in Unsat(t)}

------------------------------------------------------------------------------
WInit ==
  /\ Init
  /\ flags \in DetectedSets
  /\ w \in FreshWeights(flags)

WStart ==
  /\ Start
  /\ flags' \in {d \in DetectedSets : flags \subseteq d}
  /\ w' \in FreshWeights(flags')

WUnsatisfiable == Unsatisfiable /\ UNCHANGED <<w, flags>>

WSeed == Seed /\ UNCHANGED <<w, flags>>

\* A turn that follows the best score.
ScoredTurn(q) ==
  /\ pc = "search"
  /\ \E l \in Sampled(s, q).pick : Turn({m \in Range(q) : s.CC[m]}, l)
  /\ UNCHANGED <<w, flags>>

\* A turn in which no sample gains: ls_update, and a LUT that is not satisfied,
\* or one in front of it, or any if all are satisfied.
UpdatingTurn(q) ==
  /\ pc = "search"
  /\ Sampled(s, q).pick = {}
  /\ LET S == {m \in Range(q) : s.CC[m]}
         t == CalScores(s, S)
     IN  /\ \E l \in AnyPick(t) : Turn(S, l)
         /\ w' \in {Lowered(t), Raised(t)}
  /\ UNCHANGED flags

WFinish == Finish /\ UNCHANGED <<w, flags>>

WNext ==
  \/ WStart
  \/ WUnsatisfiable
  \/ WSeed
  \/ \E q \in [1 .. Samples -> Luts] : ScoredTurn(q) \/ UpdatingTurn(q)
  \/ WFinish

WSpec == WInit /\ [][WNext]_wvars

------------------------------------------------------------------------------
\* What a cost with that limit may come to: it stays positive unless the limit is 0.
CostRange(max) == IF max = 0 THEN 0 .. 1 ELSE 1 .. max

\* The bounds of the propagated weights, which start at 0 or 1.
HighestFp == IF FwMax = 0 THEN 1 ELSE FwMax
LowestFp  == IF FwInc = 0 THEN 0 ELSE 1 - 2 * FwInc

\* Type invariant: the costs and weights stay between their bounds, whatever
\* ls_update does. An input, which is always satisfied, can only become cheaper,
\* and the focused weight is above FwMax. The score is drawn to undetected
\* faults only, and to each of them: the weight of a flagged one stays 0, that
\* of another one positive. The propagated weight of polarity 1, which no score
\* reads, may leave 0 and has a lower bound below it.
WTypeOK ==
  /\ TypeOK
  /\ flags \in DetectedSets
  /\ \A l \in Luts :
       /\ w.vunat[l] \in CostRange(IF l \in PIs THEN VsatInc * 100 ELSE VsatMax)
       /\ w.up[l] \in CostRange(UpMax)
  /\ \A g \in InnerGates :
       /\ \A x \in Bits : w.fd[g][x] \in IF <<g, x>> \in flags THEN {0} ELSE 1 .. Focus
       /\ w.fp[g][0] \in 0 .. HighestFp
       /\ w.fp[g][1] \in LowestFp .. HighestFp

\* The score of a LUT is what the sum of LUTCircuit::check gains if that LUT is
\* flipped, although cal_score looks at the neighbours only: the assertion
\* (t2 - t1) - pick->score < 1e-6 that ls_gen_sol holds as a comment. It holds
\* also after a seed, when the caches may be wrong (CheckVsat).
ScoreIsGain ==
  pc = "search" =>
    LET now == Objective(s)
    IN  \A l \in Luts : Score(s, l) = Objective(LsFlip(s, l)) - now
==============================================================================
