---------------------------- MODULE LsMainProofs -----------------------------
(***************************************************************************)
(* Proofs about LsMain for every circuit, list of faults, simulator and    *)
(* sound oracle: the invariants that its runs check on small netlists.     *)
(***************************************************************************)
EXTENDS LsMain, InductionFacts, FiniteSetTheorems, SequenceTheorems, TLAPS

\* The score of a vector is a number: simulate never yields the initial -1.
LEMMA ScoreIsNat ==
  ASSUME NEW v \in Vectors
  PROVE  Score(v) \in Nat
<1>1. Traced[v] \in SUBSET Faults
  BY SimulationAssumption
<1>2. IsFiniteSet(Traced[v] \ fault_detected)
  BY <1>1, FaultListAssumption, FS_Subset
<1> QED BY <1>2, FS_CardinalityType DEF Score

------------------------------------------------------------------------------
\* The faults a pattern sets flags of are in the index space of the flags.
LEMMA HitsAreFaults ==
  ASSUME TypeOK, pc = "record"
  PROVE  Hits \in SUBSET Faults
<1>1. target \in Faults
  BY FaultListAssumption, RangeOfSeq DEF TypeOK, Listed
<1>2. Traced[vec] \in SUBSET Faults
  BY SimulationAssumption DEF TypeOK
<1> QED BY <1>1, <1>2 DEF Marked, Hits

\* The claims are the listed ones among the faults whose flags are set.
LEMMA ClaimsAreListedHits == NewClaims = Hits \cap Listed
BY DEF NewClaims, Hits

LEMMA TypeInit == Init => TypeOK
<1> SUFFICES ASSUME Init PROVE TypeOK
  OBVIOUS
<1>1. FaultList \in Seq(Listed)
  BY FaultListAssumption, SeqOfRange DEF Listed
<1>2. Cardinality(Faults) \in Nat
  BY FaultListAssumption, FS_CardinalityType
<1>3. patterns \in Seq([input_vector : Vectors, detected_faults : SUBSET Listed])
  BY EmptySeq DEF Init
<1> QED BY <1>1, <1>2, <1>3, SearchAssumption DEF Init, TypeOK, Vectors

LEMMA TypeNext == TypeOK /\ [Next]_vars => TypeOK'
<1> SUFFICES ASSUME TypeOK, [Next]_vars PROVE TypeOK'
  OBVIOUS
<1>1. CASE PopDetected
  <2>1. Tail(faults) \in Seq(Listed)
    BY <1>1, HeadTailProperties DEF TypeOK, PopDetected
  <2> QED BY <1>1, <2>1 DEF TypeOK, PopDetected, solution, counters
<1>2. CASE PopTarget
  <2>1. Tail(faults) \in Seq(Listed) /\ Head(faults) \in Listed
    BY <1>2, HeadTailProperties DEF TypeOK, PopTarget
  <2> QED BY <1>2, <2>1 DEF TypeOK, PopTarget, solution, counters
<1>3. CASE SatUnsat
  BY <1>3 DEF TypeOK, SatUnsat, solution, counters
<1>4. CASE SatSat
  <2>1. target \in Listed /\ SatTests[target] \in SUBSET Vectors
    BY <1>4, OracleAssumption DEF TypeOK, SatSat
  <2>2. PICK v \in SatTests[target] :
          vec' = v /\ best_sol' = v /\ best_score' = Score(v)
    BY <1>4 DEF SatSat
  <2>3. v \in Vectors /\ Score(v) \in Int
    BY <2>1, <2>2, ScoreIsNat
  <2> QED BY <1>4, <2>1, <2>2, <2>3, SearchAssumption DEF TypeOK, SatSat, counters
<1>5. CASE FlipInner
  BY <1>5, SearchAssumption DEF TypeOK, FlipInner, Searching, counters
<1>6. ASSUME NEW p \in PIs, FlipPI(p)
      PROVE  TypeOK'
  <2>1. Flip(vec, p) \in Vectors
    BY DEF TypeOK, Vectors, Flip
  <2>2. Score(Flip(vec, p)) \in Int
    BY <2>1, ScoreIsNat
  <2>3. vec' \in Vectors /\ best_sol' \in Vectors /\ best_score' \in Int
    BY <1>6, <2>1, <2>2 DEF TypeOK, FlipPI
  <2>4. step' \in 0 .. MaxSteps
    BY <1>6, SearchAssumption DEF TypeOK, FlipPI, Searching
  <2> QED BY <1>6, <2>3, <2>4 DEF TypeOK, FlipPI, counters
<1>7. CASE GenSolEnd
  BY <1>7 DEF TypeOK, GenSolEnd, solution, counters
<1>8. CASE Record
  <2>1. Hits \in SUBSET Faults
    BY <1>8, HitsAreFaults DEF TypeOK, Record
  <2>2. Cardinality(Hits) \in Nat
    BY <2>1, FaultListAssumption, FS_Subset, FS_CardinalityType
  <2>3. CASE target \in Detects[vec] /\ target \notin fault_detected /\ Hits # {}
    <3>1. patterns' \in Seq([input_vector : Vectors, detected_faults : SUBSET Listed])
      <4>1. [input_vector |-> vec, detected_faults |-> Hits \cap Listed]
              \in [input_vector : Vectors, detected_faults : SUBSET Listed]
        BY DEF TypeOK
      <4>2. patterns \in Seq([input_vector : Vectors, detected_faults : SUBSET Listed])
        BY DEF TypeOK
      <4>3. patterns' = Append(patterns, [input_vector    |-> vec,
                                          detected_faults |-> Hits \cap Listed])
        BY <1>8, <2>3, ClaimsAreListedHits DEF Record
      <4> HIDE DEF Hits
      <4> QED BY <4>1, <4>2, <4>3, AppendProperties
    <3>2. fault_detected' \in SUBSET Faults /\ num_detected_fault' \in Int
          /\ num_undetected_fault' \in Int /\ pc' = "pop"
      BY <1>8, <2>1, <2>2, <2>3 DEF TypeOK, Record
    <3> QED BY <1>8, <3>1, <3>2 DEF TypeOK, Record, solution
  <2>4. CASE ~(target \in Detects[vec] /\ target \notin fault_detected /\ Hits # {})
    BY <1>8, <2>4 DEF TypeOK, Record, solution, counters
  <2> QED BY <2>3, <2>4
<1>9. CASE FinalCheck
  <2>1. Claimed \in SUBSET Listed
    <3>1. ASSUME NEW i \in DOMAIN patterns
          PROVE  Claims(patterns[i]) \in SUBSET Listed
      <4>1. patterns[i] \in [input_vector : Vectors, detected_faults : SUBSET Listed]
        BY ElementOfSeq, LenProperties DEF TypeOK
      <4> QED BY <4>1 DEF Claims
    <3> QED BY <3>1 DEF Claimed
  <2>2. covered' \in SUBSET Listed /\ pc' \in {"done", "abort"}
    BY <1>9, <2>1 DEF TypeOK, FinalCheck
  <2> QED BY <1>9, <2>2 DEF TypeOK, FinalCheck, solution, counters
<1>10. CASE Terminated \/ UNCHANGED vars
  BY <1>10 DEF TypeOK, Terminated, vars
<1> QED BY <1>1, <1>2, <1>3, <1>4, <1>5, <1>6, <1>7, <1>8, <1>9, <1>10 DEF Next

\* The variables of ls_main keep their types.
THEOREM TypeCorrect == Spec => []TypeOK
BY TypeInit, TypeNext, PTL DEF Spec

------------------------------------------------------------------------------
\* A fault being worked on is not detected yet. SearchKeepsTarget says so only
\* from the oracle's answer on; the answer itself has to find it so.
TargetOpen == InFlight \cap fault_detected = {}

\* The properties of LsMain lean on each other: the claims are disjoint because
\* they agree with the flags, Record passes its assertions because the search
\* keeps the target, GenSolEnd because the best score is a score. Together
\* with TargetOpen they are inductive.
IInv ==
  /\ TypeOK
  /\ NeverAborts
  /\ ClaimsHold
  /\ NothingForgotten
  /\ SearchKeepsTarget
  /\ BestSolIsBest
  /\ TargetOpen

LEMMA ListedAreFaults == Listed \subseteq Faults
BY FaultListAssumption, RangeOfSeq DEF Listed

\* All the invariant says of claims, flags and queue stays true when a step
\* leaves them and the target in flight as they are.
LEMMA BookkeepingKept ==
  ASSUME ClaimsHold, NothingForgotten, TargetOpen,
         UNCHANGED <<patterns, fault_detected, faults, unsat, InFlight>>
  PROVE  ClaimsHold' /\ NothingForgotten' /\ TargetOpen'
<1>1. ClaimsHold'
  BY DEF ClaimsHold, Claims
<1>2. Undecided' = Undecided /\ Claimed' = Claimed
  BY DEF Undecided, Claimed, Claims
<1>3. NothingForgotten'
  BY <1>2 DEF NothingForgotten
<1> QED BY <1>1, <1>3 DEF TargetOpen

LEMMA IInvInit == Init => IInv
<1> SUFFICES ASSUME Init PROVE IInv
  OBVIOUS
<1>1. TypeOK
  BY TypeInit
<1>2. InFlight = {} /\ pc = "pop" /\ fault_detected = {} /\ unsat = {}
      /\ faults = FaultList /\ patterns = <<>>
  BY DEF Init, InFlight
<1>3. Claimed = {} /\ ClaimsHold
  <2>1. DOMAIN patterns = {}
    BY <1>2
  <2> QED BY <2>1 DEF Claimed, ClaimsHold
<1>4. Undecided = Listed
  BY <1>2 DEF Undecided, Listed
<1>5. NothingForgotten
  BY <1>2, <1>3, <1>4, FaultListAssumption DEF NothingForgotten
<1> QED BY <1>1, <1>2, <1>3, <1>5 DEF IInv, NeverAborts, SearchKeepsTarget,
           BestSolIsBest, Testing, TargetOpen

\* Taking the front fault off the queue.
LEMMA IInvPop ==
  ASSUME IInv, PopDetected \/ PopTarget, TypeOK'
  PROVE  IInv'
<1>0. faults \in Seq(Listed) /\ faults # <<>> /\ pc = "pop"
      /\ faults' = Tail(faults)
      /\ UNCHANGED <<fault_detected, patterns, unsat>>
  BY DEF IInv, TypeOK, PopDetected, PopTarget
<1>1. /\ Head(faults) \in Listed
      /\ Range(faults) = Range(faults') \cup {Head(faults)}
      /\ Head(faults) \notin Range(faults')
      /\ \A i, j \in DOMAIN faults' : faults'[i] = faults'[j] => i = j
  <2>1. \A i, j \in DOMAIN faults : faults[i] = faults[j] => i = j
    BY DEF IInv, NothingForgotten
  <2> QED BY <1>0, <2>1, PopQueue
<1>2. InFlight = {}
  BY <1>0 DEF InFlight
<1>3. ClaimsHold' /\ Claimed' = Claimed
  BY <1>0 DEF IInv, ClaimsHold, Claimed, Claims
<1>4. /\ pc' \in {"pop", "sat"}
      /\ InFlight' \cap fault_detected' = {}
      /\ InFlight' \subseteq {Head(faults)}
      /\ (Range(faults') \cup InFlight') \ fault_detected'
            = Range(faults) \ fault_detected
  <2>1. CASE PopDetected
    BY <1>0, <1>1, <2>1 DEF PopDetected, InFlight
  <2>2. CASE PopTarget
    <3>1. Faults \ fault_detected # {}
      BY <1>1, <2>2, ListedAreFaults DEF PopTarget
    <3>2. pc' = "sat" /\ target' = Head(faults)
          /\ Head(faults) \notin fault_detected /\ fault_detected' = fault_detected
      BY <1>0, <2>2, <3>1 DEF PopTarget
    <3>3. InFlight' = {Head(faults)}
      BY <3>2 DEF InFlight
    <3> QED BY <1>1, <3>2, <3>3
  <2> QED BY <2>1, <2>2
<1>5. Undecided' = Undecided
  BY <1>2, <1>4 DEF Undecided
<1>6. \A i \in DOMAIN faults' : faults'[i] \notin InFlight'
  BY <1>1, <1>4 DEF Range
<1>7. NothingForgotten'
  BY <1>0, <1>1, <1>3, <1>5, <1>6 DEF IInv, NothingForgotten
<1> QED BY <1>3, <1>4, <1>7 DEF IInv, NeverAborts, SearchKeepsTarget,
           BestSolIsBest, Testing, TargetOpen

\* The oracle gives the target up: it moves from the undecided to unsat.
LEMMA IInvSatUnsat ==
  ASSUME IInv, SatUnsat, TypeOK'
  PROVE  IInv'
<1>1. pc = "sat" /\ pc' = "pop" /\ unsat' = unsat \cup {target}
      /\ UNCHANGED <<faults, fault_detected, target, patterns>>
  BY DEF SatUnsat
<1>2. InFlight = {target} /\ InFlight' = {}
  BY <1>1 DEF InFlight
<1>3. target \in Listed /\ target \notin fault_detected /\ target \notin Range(faults)
  BY <1>1, <1>2 DEF IInv, TypeOK, TargetOpen, NothingForgotten, Range
<1>4. Claimed' = Claimed /\ ClaimsHold'
  BY <1>1 DEF IInv, ClaimsHold, Claimed, Claims
<1>5. Undecided' = Undecided \ {target} /\ target \in Undecided
  BY <1>1, <1>2, <1>3 DEF Undecided
<1>6. NothingForgotten'
  BY <1>1, <1>2, <1>3, <1>4, <1>5 DEF IInv, NothingForgotten
<1> QED BY <1>1, <1>2, <1>4, <1>6 DEF IInv, NeverAborts, SearchKeepsTarget,
           BestSolIsBest, Testing, TargetOpen

\* The oracle's vector detects the target because the oracle is sound.
LEMMA IInvSatSat ==
  ASSUME IInv, SatSat, TypeOK'
  PROVE  IInv'
<1>1. pc = "sat" /\ pc' = "search"
      /\ UNCHANGED <<faults, fault_detected, target, patterns, unsat>>
  BY DEF SatSat
<1>2. InFlight = {target} /\ InFlight' = InFlight
  BY <1>1 DEF InFlight
<1>3. target \in Listed /\ target \notin fault_detected
  BY <1>1, <1>2 DEF IInv, TypeOK, TargetOpen
<1>4. PICK v \in SatTests[target] : vec' = v /\ best_sol' = v /\ best_score' = Score(v)
  BY DEF SatSat
<1>5. v \in Vectors /\ target \in Detects[v]
  BY <1>3, <1>4, OracleAssumption
<1>6. Score(v) \in Nat /\ Score(v)' = Score(v)
  BY <1>1, <1>5, ScoreIsNat DEF Score
<1>7. SearchKeepsTarget'
  BY <1>1, <1>3, <1>4, <1>5 DEF SearchKeepsTarget
<1>8. BestSolIsBest'
  BY <1>1, <1>4, <1>6 DEF BestSolIsBest, Score
<1> QED BY <1>1, <1>2, <1>7, <1>8, BookkeepingKept DEF IInv, NeverAborts

\* A turn of the search: no flip is kept that loses the target.
LEMMA IInvFlip ==
  ASSUME IInv, FlipInner \/ \E p \in PIs : FlipPI(p), TypeOK'
  PROVE  IInv'
<1>1. pc = "search" /\ UNCHANGED <<pc, faults, fault_detected, target, patterns, unsat>>
  BY DEF FlipInner, FlipPI, Searching
<1>2. InFlight' = InFlight
  BY <1>1 DEF InFlight
<1>3. /\ target \notin fault_detected
      /\ target \in Detects[vec]
      /\ target \in Detects[best_sol]
      /\ best_score = Score(best_sol)
      /\ best_score >= Score(vec)
      /\ best_score \in Int
  BY <1>1 DEF IInv, SearchKeepsTarget, BestSolIsBest, Testing, TypeOK
<1> DEFINE Kept == /\ target \in Detects[vec']
                   /\ target \in Detects[best_sol']
                   /\ best_score' = Score(best_sol')
                   /\ best_score' >= Score(vec')
<1>4. Kept
  <2>1. CASE FlipInner
    BY <1>3, <2>1 DEF FlipInner
  <2>2. ASSUME NEW p \in PIs, FlipPI(p)
        PROVE  Kept
    <3>1. Score(Flip(vec, p)) \in Nat
      <4>1. Flip(vec, p) \in Vectors
        BY DEF IInv, TypeOK, Vectors, Flip
      <4> QED BY <4>1, ScoreIsNat
    <3> HIDE DEF Flip, Score
    <3>2. CASE target \in Detects[Flip(vec, p)] /\ Score(Flip(vec, p)) > best_score
      BY <1>3, <2>2, <3>1, <3>2 DEF FlipPI, Accepts
    <3>3. CASE target \in Detects[Flip(vec, p)] /\ ~(Score(Flip(vec, p)) > best_score)
      BY <1>3, <2>2, <3>1, <3>3 DEF FlipPI, Accepts
    <3>4. CASE target \notin Detects[Flip(vec, p)]
      BY <1>3, <2>2, <3>4 DEF FlipPI, Accepts
    <3> QED BY <3>2, <3>3, <3>4
  <2> QED BY <2>1, <2>2
<1>5. SearchKeepsTarget'
  BY <1>1, <1>3, <1>4 DEF SearchKeepsTarget
<1>6. BestSolIsBest'
  BY <1>1, <1>4 DEF BestSolIsBest, Score
<1> QED BY <1>1, <1>2, <1>5, <1>6, BookkeepingKept DEF IInv, NeverAborts

\* The search ends with a solution: the score it started with is not -1.
LEMMA IInvGenSolEnd ==
  ASSUME IInv, GenSolEnd, TypeOK'
  PROVE  IInv'
<1>1. pc = "search" /\ vec' = best_sol
      /\ UNCHANGED <<faults, fault_detected, target, best_sol, best_score, patterns, unsat>>
  BY DEF GenSolEnd, solution
<1>2. /\ target \notin fault_detected
      /\ target \in Detects[best_sol]
      /\ best_score = Score(best_sol)
      /\ best_sol \in Vectors
  BY <1>1 DEF IInv, SearchKeepsTarget, BestSolIsBest, Testing, TypeOK
<1>3. best_score \in Nat
  BY <1>2, ScoreIsNat
<1>4. pc' = "record"
  BY <1>3 DEF GenSolEnd
<1>5. InFlight' = InFlight
  BY <1>1, <1>4 DEF InFlight
<1>6. SearchKeepsTarget'
  BY <1>1, <1>2 DEF SearchKeepsTarget
<1>7. BestSolIsBest'
  BY <1>1, <1>2, <1>3 DEF BestSolIsBest, Score
<1> QED BY <1>1, <1>4, <1>5, <1>6, <1>7, BookkeepingKept DEF IInv, NeverAborts

\* What Record adds: the three assertions pass, and the new flags on the listed
\* faults are exactly the new claims.
LEMMA RecordAdds ==
  ASSUME IInv, Record
  PROVE  /\ pc = "record" /\ pc' = "pop"
         /\ target \in Hits
         /\ Hits \cap fault_detected = {}
         /\ Hits \cap Listed \subseteq Detects[vec]
         /\ fault_detected' = fault_detected \cup Hits
         /\ num_detected_fault' = num_detected_fault + Cardinality(Hits)
         /\ num_undetected_fault' = num_undetected_fault - Cardinality(Hits)
         /\ patterns' = Append(patterns, [input_vector    |-> vec,
                                          detected_faults |-> Hits \cap Listed])
         /\ UNCHANGED <<faults, target, unsat>>
         /\ Claimed' = Claimed \cup (Hits \cap Listed)
         /\ ClaimsHold'
<1>1. pc = "record" /\ target \in Detects[vec] /\ target \notin fault_detected
  BY DEF IInv, Record, SearchKeepsTarget, Testing
<1>2. target \in Hits
  BY <1>1 DEF Hits, Marked
<1>3. Hits \cap fault_detected = {} /\ Hits \cap Listed \subseteq Detects[vec]
  BY DEF Hits
<1>4. /\ pc' = "pop"
      /\ fault_detected' = fault_detected \cup Hits
      /\ num_detected_fault' = num_detected_fault + Cardinality(Hits)
      /\ num_undetected_fault' = num_undetected_fault - Cardinality(Hits)
      /\ patterns' = Append(patterns, [input_vector    |-> vec,
                                       detected_faults |-> Hits \cap Listed])
      /\ UNCHANGED <<faults, target, unsat>>
  BY <1>1, <1>2, ClaimsAreListedHits DEF Record
<1> DEFINE p   == [input_vector |-> vec, detected_faults |-> Hits \cap Listed]
           new == Len(patterns) + 1
<1>5. /\ DOMAIN patterns' = DOMAIN patterns \cup {new}
      /\ new \notin DOMAIN patterns
      /\ \A i \in DOMAIN patterns : patterns'[i] = patterns[i]
      /\ patterns'[new] = p
  <2>1. patterns \in Seq([input_vector : Vectors, detected_faults : SUBSET Listed])
    BY DEF IInv, TypeOK
  <2>2. p \in [input_vector : Vectors, detected_faults : SUBSET Listed]
    BY DEF IInv, TypeOK
  <2>3. patterns' = Append(patterns, p)
    BY <1>4
  <2> HIDE DEF p
  <2> QED BY <2>1, <2>2, <2>3, AppendOne
<1>6. Claims(p) = Hits \cap Listed /\ p.input_vector = vec
  BY DEF Claims
<1> HIDE DEF p, new
<1>7. Claimed' = Claimed \cup (Hits \cap Listed)
  BY <1>5, <1>6 DEF Claimed, Claims
<1>8. ClaimsHold'
  <2>1. \A i \in DOMAIN patterns : Claims(patterns[i]) \cap Hits = {}
    <3>1. \A i \in DOMAIN patterns : Claims(patterns[i]) \subseteq Claimed
      BY DEF Claimed
    <3>2. Claimed \subseteq fault_detected
      BY DEF IInv, NothingForgotten
    <3> QED BY <1>3, <3>1, <3>2
  <2>2. ClaimsHold
    BY DEF IInv
  <2>3. ASSUME NEW i \in DOMAIN patterns'
        PROVE  Claims(patterns'[i]) \subseteq Listed \cap Detects[patterns'[i].input_vector]
    BY <1>3, <1>5, <1>6, <2>2, <2>3 DEF ClaimsHold
  <2>4. ASSUME NEW i \in DOMAIN patterns', NEW j \in DOMAIN patterns', i # j
        PROVE  Claims(patterns'[i]) \cap Claims(patterns'[j]) = {}
    BY <1>5, <1>6, <2>1, <2>2, <2>4 DEF ClaimsHold
  <2> QED BY <2>3, <2>4 DEF ClaimsHold, Claims
<1> QED BY <1>1, <1>2, <1>3, <1>4, <1>7, <1>8

LEMMA IInvRecord ==
  ASSUME IInv, Record, TypeOK'
  PROVE  IInv'
<1>1. InFlight = {target} /\ InFlight' = {}
  BY RecordAdds DEF InFlight
<1>2. Undecided' = Undecided \ Hits
  BY <1>1, RecordAdds DEF Undecided
<1>3. NothingForgotten'
  BY <1>1, <1>2, RecordAdds DEF IInv, NothingForgotten
<1> QED BY <1>1, <1>3, RecordAdds DEF IInv, NeverAborts, SearchKeepsTarget,
           BestSolIsBest, Testing, TargetOpen

LEMMA IInvFinalCheck ==
  ASSUME IInv, FinalCheck, TypeOK'
  PROVE  IInv'
<1>1. pc = "pop" /\ pc' = "done"
      /\ UNCHANGED <<faults, fault_detected, target, patterns, unsat>>
  BY DEF IInv, FinalCheck
<1>2. InFlight' = InFlight
  BY <1>1 DEF InFlight
<1> QED BY <1>1, <1>2, BookkeepingKept DEF IInv, NeverAborts, SearchKeepsTarget,
           BestSolIsBest, Testing

LEMMA IInvNext == IInv /\ [Next]_vars => IInv'
<1> SUFFICES ASSUME IInv, [Next]_vars PROVE IInv'
  OBVIOUS
<1>1. TypeOK'
  BY TypeNext DEF IInv
<1>2. CASE PopDetected \/ PopTarget
  BY <1>1, <1>2, IInvPop
<1>3. CASE SatUnsat
  BY <1>1, <1>3, IInvSatUnsat
<1>4. CASE SatSat
  BY <1>1, <1>4, IInvSatSat
<1>5. CASE FlipInner \/ \E p \in PIs : FlipPI(p)
  BY <1>1, <1>5, IInvFlip
<1>6. CASE GenSolEnd
  BY <1>1, <1>6, IInvGenSolEnd
<1>7. CASE Record
  BY <1>1, <1>7, IInvRecord
<1>8. CASE FinalCheck
  BY <1>1, <1>8, IInvFinalCheck
<1>9. CASE Terminated \/ UNCHANGED vars
  <2>1. UNCHANGED vars
    BY <1>9 DEF Terminated
  <2>2. InFlight' = InFlight
    BY <2>1 DEF InFlight, vars
  <2> QED BY <1>1, <2>1, <2>2, BookkeepingKept DEF IInv, NeverAborts,
             SearchKeepsTarget, BestSolIsBest, Testing, Score, vars
<1> QED BY <1>2, <1>3, <1>4, <1>5, <1>6, <1>7, <1>8, <1>9 DEF Next

LEMMA Inductive == Spec => []IInv
BY IInvInit, IInvNext, PTL DEF Spec

\* No assertion of ls_main, ls_gen_sol or final_check can fail, and
\* ls_random_sol never divides by the size of an empty list.
THEOREM NoAbort == Spec => []NeverAborts
<1>1. IInv => NeverAborts
  BY DEF IInv
<1> QED BY <1>1, Inductive, PTL

\* Every claim final_check reads is of a listed fault, real, and made once.
THEOREM ClaimsAreReal == Spec => []ClaimsHold
<1>1. IInv => ClaimsHold
  BY DEF IInv
<1> QED BY <1>1, Inductive, PTL

\* Popping by the detected flag loses no fault and decides none twice.
THEOREM NoFaultForgotten == Spec => []NothingForgotten
<1>1. IInv => NothingForgotten
  BY DEF IInv
<1> QED BY <1>1, Inductive, PTL

\* The local search never lets go of the target, nor of its best solution.
THEOREM SearchIsSafe == Spec => [](SearchKeepsTarget /\ BestSolIsBest)
<1>1. IInv => SearchKeepsTarget /\ BestSolIsBest
  BY DEF IInv
<1> QED BY <1>1, Inductive, PTL

LEMMA DisjointUnion ==
  ASSUME NEW S, NEW T, IsFiniteSet(S), IsFiniteSet(T), S \cap T = {}
  PROVE  Cardinality(S \cup T) = Cardinality(S) + Cardinality(T)
<1>1. Cardinality(S \cup T) = Cardinality(S) + Cardinality(T) - Cardinality(S \cap T)
  BY FS_Union
<1>2. Cardinality(S \cap T) = 0
  BY FS_EmptySet
<1>3. Cardinality(S) \in Nat /\ Cardinality(T) \in Nat
  BY FS_CardinalityType
<1> QED BY <1>1, <1>2, <1>3

\* The counters printed at the end are the numbers of set and unset flags.
THEOREM CountersCorrect == Spec => []CountersMatch
<1>1. Init => CountersMatch
  <2>1. Cardinality({}) = 0 /\ Faults \ {} = Faults
    BY FS_EmptySet
  <2> QED BY <2>1 DEF Init, CountersMatch
<1>2. IInv /\ CountersMatch /\ [Next]_vars => CountersMatch'
  <2> SUFFICES ASSUME IInv, CountersMatch, [Next]_vars PROVE CountersMatch'
    OBVIOUS
  <2>1. CASE Record
    <3>1. Hits \in SUBSET Faults /\ fault_detected \in SUBSET Faults
      BY <2>1, HitsAreFaults DEF IInv, TypeOK, Record
    <3>2. /\ IsFiniteSet(Hits) /\ IsFiniteSet(fault_detected)
          /\ IsFiniteSet(Faults \ fault_detected)
          /\ IsFiniteSet(Faults \ (fault_detected \cup Hits))
      BY <3>1, FaultListAssumption, FS_Subset
    <3>3. /\ Cardinality(Hits) \in Nat /\ Cardinality(fault_detected) \in Nat
          /\ Cardinality(Faults \ fault_detected) \in Nat
          /\ Cardinality(Faults \ (fault_detected \cup Hits)) \in Nat
      BY <3>2, FS_CardinalityType
    <3>4. Cardinality(fault_detected \cup Hits)
            = Cardinality(fault_detected) + Cardinality(Hits)
      <4>1. fault_detected \cap Hits = {}
        BY <2>1, RecordAdds
      <4> QED BY <3>2, <4>1, DisjointUnion
    <3>5. Cardinality(Faults \ fault_detected)
            = Cardinality(Faults \ (fault_detected \cup Hits)) + Cardinality(Hits)
      <4>1. /\ Faults \ fault_detected = (Faults \ (fault_detected \cup Hits)) \cup Hits
            /\ (Faults \ (fault_detected \cup Hits)) \cap Hits = {}
        BY <2>1, <3>1, RecordAdds
      <4> HIDE DEF Hits
      <4> QED BY <3>2, <4>1, DisjointUnion
    <3>6. /\ fault_detected' = fault_detected \cup Hits
          /\ num_detected_fault' = num_detected_fault + Cardinality(Hits)
          /\ num_undetected_fault' = num_undetected_fault - Cardinality(Hits)
      BY <2>1, RecordAdds
    <3> QED BY <3>3, <3>4, <3>5, <3>6 DEF CountersMatch
  <2>2. ASSUME ~Record
        PROVE  UNCHANGED <<counters, fault_detected>>
    BY <2>2 DEF Next, PopDetected, PopTarget, SatUnsat, SatSat, FlipInner, FlipPI,
       GenSolEnd, FinalCheck, Terminated, vars, counters
  <2> QED BY <2>1, <2>2 DEF CountersMatch, counters
<1> QED BY <1>1, <1>2, Inductive, PTL DEF Spec

------------------------------------------------------------------------------
\* The refinement. What the promise sees of a step is the undecided faults,
\* the patterns, the unsat faults and whether the report was made.
Seen == <<Undecided, patterns, unsat, pc = "done">>

LEMMA PromiseInit == Init => Promise!Init
<1> SUFFICES ASSUME Init PROVE Promise!Init
  OBVIOUS
<1>1. Undecided = Listed
  BY DEF Init, InFlight, Undecided, Listed
<1> QED BY <1>1 DEF Init, Promise!Init

\* Record adds a test: the target was undecided, and nothing it claims was
\* claimed before.
LEMMA RecordIsAddTest ==
  ASSUME IInv, Record
  PROVE  Promise!AddTest
<1> DEFINE D == Hits \cap Listed
<1>1. InFlight = {target} /\ InFlight' = {} /\ target \in Listed
  BY RecordAdds DEF InFlight, IInv, TypeOK
<1>2. Undecided' = Undecided \ Hits
  BY <1>1, RecordAdds DEF Undecided
<1>3. Undecided \subseteq Listed /\ target \in Undecided
  BY <1>1, RecordAdds DEF Undecided, IInv, NothingForgotten
<1>4. D \cap Claimed = {}
  BY RecordAdds DEF IInv, NothingForgotten
<1>5. D \subseteq (Undecided \cup unsat) \cap Detects[vec]
  BY <1>4, RecordAdds DEF IInv, NothingForgotten
<1>6. D \cap Undecided # {}
  BY <1>1, <1>3, RecordAdds
<1>7. Undecided' = Undecided \ D
  BY <1>2, <1>3
<1>8. /\ patterns' = Append(patterns, [input_vector |-> vec, detected_faults |-> D])
      /\ unsat' = unsat
      /\ (pc' = "done") = (pc = "done")
  BY RecordAdds
<1>9. vec \in Vectors
  BY DEF IInv, TypeOK
<1>10. Promise!Claimed = Claimed
  BY DEF Promise!Claimed, Claimed, Claims
<1> HIDE DEF D
<1> QED BY <1>4, <1>5, <1>6, <1>7, <1>8, <1>9, <1>10 DEF Promise!AddTest

\* An "unsat" answer gives up the target, which was undecided till then.
LEMMA SatUnsatIsGiveUp ==
  ASSUME IInv, SatUnsat
  PROVE  Promise!GiveUp
<1>1. pc = "sat" /\ pc' = "pop" /\ SatTests[target] = {} /\ unsat' = unsat \cup {target}
      /\ UNCHANGED <<faults, fault_detected, target, patterns>>
  BY DEF SatUnsat
<1>2. InFlight = {target} /\ InFlight' = {}
  BY <1>1 DEF InFlight
<1>3. target \in Listed /\ target \notin fault_detected /\ target \notin Range(faults)
  BY <1>1, <1>2 DEF IInv, TypeOK, TargetOpen, NothingForgotten, Range
<1>4. Undecided' = Undecided \ {target} /\ target \in Undecided
  BY <1>1, <1>2, <1>3 DEF Undecided
<1>5. target \in {f \in Listed : SatTests[f] = {}}
  BY <1>1, <1>3
<1> QED BY <1>1, <1>4, <1>5 DEF Promise!GiveUp

\* The report is made when nothing is undecided any more.
LEMMA FinalCheckIsReport ==
  ASSUME IInv, FinalCheck
  PROVE  Promise!Report
<1>1. pc = "pop" /\ pc' = "done" /\ faults = <<>>
      /\ UNCHANGED <<faults, fault_detected, target, patterns, unsat>>
  BY DEF IInv, FinalCheck
<1>2. InFlight = {} /\ InFlight' = {}
  BY <1>1 DEF InFlight
<1>3. Undecided = {} /\ Undecided' = {}
  BY <1>1, <1>2 DEF Undecided, Range
<1> QED BY <1>1, <1>3 DEF Promise!Report

\* Every other step is invisible.
LEMMA OthersAreInvisible ==
  ASSUME IInv, IInv', [Next]_vars, ~Record, ~SatUnsat, ~FinalCheck
  PROVE  UNCHANGED Seen
<1>1. CASE PopDetected \/ PopTarget
  <2>1. /\ pc = "pop" /\ pc' # "done"
        /\ UNCHANGED <<fault_detected, patterns, unsat>>
    BY <1>1 DEF PopDetected, PopTarget
  <2>2. Claimed' = Claimed
    BY <2>1 DEF Claimed, Claims
  <2>3. Undecided' = Undecided
    BY <2>1, <2>2 DEF IInv, NothingForgotten
  <2> QED BY <2>1, <2>3 DEF Seen
<1>2. CASE SatSat \/ FlipInner \/ (\E p \in PIs : FlipPI(p)) \/ GenSolEnd
  <2>1. /\ pc \in {"sat", "search"} /\ pc' \in {"search", "record", "abort"}
        /\ UNCHANGED <<faults, fault_detected, target, patterns, unsat>>
    BY <1>2 DEF SatSat, FlipInner, FlipPI, Searching, GenSolEnd
  <2>2. InFlight' = InFlight
    BY <2>1 DEF InFlight, IInv, NeverAborts
  <2>3. Undecided' = Undecided
    BY <2>1, <2>2 DEF Undecided
  <2> QED BY <2>1, <2>3 DEF Seen
<1>3. CASE Terminated \/ UNCHANGED vars
  BY <1>3 DEF Terminated, vars, Seen, Undecided, InFlight
<1> QED BY <1>1, <1>2, <1>3 DEF Next

\* ls_main implements the promise, as far as safety goes: it starts as the
\* promise does, and each step adds a test that is real and new, gives up a
\* fault the oracle refuses, makes the report, or changes nothing of these.
THEOREM Refinement == Spec => Promise!Init /\ [][Promise!Next]_(Promise!vars)
<1>1. IInv /\ IInv' /\ [Next]_vars => [Promise!Next]_(Promise!vars)
  <2> SUFFICES ASSUME IInv, IInv', [Next]_vars
               PROVE  [Promise!Next]_(Promise!vars)
    OBVIOUS
  <2>1. CASE Record
    BY <2>1, RecordIsAddTest DEF Promise!Next
  <2>2. CASE SatUnsat
    BY <2>2, SatUnsatIsGiveUp DEF Promise!Next
  <2>3. CASE FinalCheck
    BY <2>3, FinalCheckIsReport DEF Promise!Next
  <2>4. CASE ~Record /\ ~SatUnsat /\ ~FinalCheck
    BY <2>4, OthersAreInvisible DEF Seen, Promise!vars
  <2> QED BY <2>1, <2>2, <2>3, <2>4
<1> QED BY <1>1, PromiseInit, Inductive, PTL DEF Spec
==============================================================================
