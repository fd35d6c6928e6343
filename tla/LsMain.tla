------------------------------- MODULE LsMain --------------------------------
(***************************************************************************)
(* The main loop of the generator: LUTCircuit::ls_main with the control of *)
(* ls_gen_sol inlined and final_check at its end.                          *)
(*                                                                         *)
(* The loop takes the faults of the collapsed list one by one. Each target *)
(* costs one call of the SAT oracle; a vector it returns is improved by    *)
(* local search under the condition that it keeps detecting the target,    *)
(* and becomes a pattern. The fast simulator decides which further faults  *)
(* the pattern may claim, check_fault which of them it does claim.         *)
(*                                                                         *)
(* What the circuit computes is a parameter here (Detects, Traced,         *)
(* SatTests); the scores that guide ls_pick only choose which LUT is       *)
(* flipped, and any LUT may be: the choice is left open.                   *)
(***************************************************************************)
EXTENDS Integers, Sequences, FiniteSets, Functions

CONSTANTS
  PIs,        \* the primary inputs
  Faults,     \* the index space of fault_detected: every gate, both polarities
  FaultList,  \* t_faults: the collapsed list, in queue order
  Detects,    \* Detects[v]: the faults check_fault confirms for vector v
  Traced,     \* Traced[v]: the faults Simulator::simulate marks for vector v
  SatTests,   \* SatTests[f]: the vectors sat_atpg may return, {} for "unsat"
  MaxSteps,   \* OPT(max_step_coeff) * luts.size()
  NoFault     \* target before the first iteration

Listed  == Range(FaultList)
Vectors == [PIs -> {0, 1}]

\* The t_verify_set assertions: no fault is listed twice.
ASSUME FaultListAssumption ==
  /\ IsFiniteSet(Faults)
  /\ FaultList \in Seq(Faults)
  /\ \A i, j \in DOMAIN FaultList : FaultList[i] = FaultList[j] => i = j

ASSUME SimulationAssumption ==
  /\ Detects \in [Vectors -> SUBSET Faults]
  /\ Traced \in [Vectors -> SUBSET Faults]

\* The oracle is sound: a vector it returns detects the fault. It need not be
\* complete: nothing is assumed of a fault it answers "unsat" for.
ASSUME OracleAssumption ==
  /\ SatTests \in [Listed -> SUBSET Vectors]
  /\ \A f \in Listed : \A v \in SatTests[f] : f \in Detects[v]

ASSUME SearchAssumption == MaxSteps \in Nat /\ NoFault \notin Faults

VARIABLES
  pc,              \* where ls_main is
  faults,          \* the queue of faults still to be looked at
  fault_detected,  \* the faults whose fault_detected entry is 1
  target,          \* the fault f of this iteration
  vec,             \* the values of the primary inputs
  best_sol,        \* ls_gen_sol: the best vector so far ...
  best_score,      \* ... and its score
  step,            \* ls_gen_sol: the loop counter
  patterns,        \* the patterns so far
  unsat,           \* the faults reported "unsat!"
  num_detected_fault,
  num_undetected_fault,
  covered          \* final_check: detected_faults

vars == <<pc, faults, fault_detected, target, vec, best_sol, best_score, step,
          patterns, unsat, num_detected_fault, num_undetected_fault, covered>>

solution == <<best_sol, best_score, step>>
counters == <<num_detected_fault, num_undetected_fault>>

\* The condition of the loop of ls_gen_sol.
Searching == pc = "search" /\ step < MaxSteps

\* Simulator::simulate: the marked faults that are not detected yet.
Score(v) == Cardinality(Traced[v] \ fault_detected)

\* Mutant: a vector that scores higher is kept even if it loses the target.
AcceptsHigherScore(v) == target \in Detects[v] \/ Score(v) > best_score

\* The flip of a primary input is kept when check_fault confirms the target.
Accepts(v) == target \in Detects[v]

Flip(v, p) == [v EXCEPT ![p] = 1 - @]

Claims(p) == p.detected_faults

Claimed == UNION {Claims(patterns[i]) : i \in DOMAIN patterns}

Init ==
  /\ pc = "pop"
  /\ faults = FaultList
  /\ fault_detected = {}
  /\ target = NoFault
  /\ vec = [p \in PIs |-> 1]     \* left behind by init_lookup_table
  /\ best_sol = vec
  /\ best_score = -1
  /\ step = 0
  /\ patterns = <<>>
  /\ unsat = {}
  /\ num_detected_fault = 0
  /\ num_undetected_fault = Cardinality(Faults)
  /\ covered = {}

\* Mutant: the front fault leaves the queue whatever its flag says.
PopAny ==
  /\ pc = "pop"
  /\ faults # <<>>
  /\ faults' = Tail(faults)
  /\ UNCHANGED <<pc, fault_detected, target, vec, solution, patterns, unsat,
                 counters, covered>>

\* Faults another pattern already detects leave the queue unseen.
PopDetected ==
  /\ pc = "pop"
  /\ faults # <<>>
  /\ Head(faults) \in fault_detected
  /\ faults' = Tail(faults)
  /\ UNCHANGED <<pc, fault_detected, target, vec, solution, patterns, unsat,
                 counters, covered>>

\* ls_random_sol, then the front fault becomes the target. ls_random_sol takes
\* a random element of t_focus, the undetected faults: with none it divides by 0.
PopTarget ==
  /\ pc = "pop"
  /\ faults # <<>>
  /\ Head(faults) \notin fault_detected
  /\ target' = Head(faults)
  /\ faults' = Tail(faults)
  /\ vec' \in Vectors
  /\ pc' = IF Faults \ fault_detected # {} THEN "sat" ELSE "abort"
  /\ UNCHANGED <<fault_detected, solution, patterns, unsat, counters, covered>>

\* Mutant: a fault answered "unsat" is queued again for another try.
SatUnsatRetry ==
  /\ pc = "sat"
  /\ SatTests[target] = {}
  /\ faults' = Append(faults, target)
  /\ pc' = "pop"
  /\ UNCHANGED <<fault_detected, target, vec, solution, patterns, unsat,
                 counters, covered>>

\* sat_atpg returns 0: the fault is reported and never looked at again.
SatUnsat ==
  /\ pc = "sat"
  /\ SatTests[target] = {}
  /\ unsat' = unsat \cup {target}
  /\ pc' = "pop"
  /\ UNCHANGED <<faults, fault_detected, target, vec, solution, patterns,
                 counters, covered>>

\* sat_atpg returns a vector: it becomes the value of the primary inputs and
\* ls_gen_sol starts with it as its best solution.
SatSat ==
  /\ pc = "sat"
  /\ \E v \in SatTests[target] :
       /\ vec' = v
       /\ best_sol' = v
       /\ best_score' = Score(v)
  /\ step' = 0
  /\ pc' = "search"
  /\ UNCHANGED <<faults, fault_detected, target, patterns, unsat, counters, covered>>

\* One turn of the search on a LUT that is no primary input: no vector changes.
FlipInner ==
  /\ Searching
  /\ step' = step + 1
  /\ UNCHANGED <<pc, faults, fault_detected, target, vec, best_sol, best_score,
                 patterns, unsat, counters, covered>>

\* One turn on primary input p: the flip is undone when the target is lost,
\* and otherwise kept, and remembered when it scores higher.
FlipPI(p) ==
  LET w      == Flip(vec, p)
      kept   == Accepts(w)
      better == kept /\ Score(w) > best_score
  IN  /\ Searching
      /\ step' = step + 1
      /\ vec' = IF kept THEN w ELSE vec
      /\ best_sol' = IF better THEN w ELSE best_sol
      /\ best_score' = IF better THEN Score(w) ELSE best_score
      /\ UNCHANGED <<pc, faults, fault_detected, target, patterns, unsat,
                     counters, covered>>

\* The end of ls_gen_sol: the primary inputs take the best solution.
GenSolEnd ==
  /\ pc = "search"
  /\ step >= MaxSteps
  /\ vec' = best_sol
  /\ pc' = IF best_score # -1 THEN "record" ELSE "abort"
  /\ UNCHANGED <<faults, fault_detected, target, solution, patterns, unsat,
                 counters, covered>>

\* Mutant: the target is not forced.
MarkedByTrace == Traced[vec]

\* The faults marked in simulator->gates when the pattern is recorded: the
\* simulator's own, and the target, which is forced.
Marked == Traced[vec] \cup {target}

\* Of these, the ones the loop sets to 1 and leaves at 1: a listed fault is
\* put back to 0 when check_fault refutes it; the others are not checked.
Hits == {f \in Marked \ fault_detected : f \in Listed => f \in Detects[vec]}

\* Mutants: no check_fault; faults of earlier patterns are claimed again.
NewClaimsUnchecked == (Marked \ fault_detected) \cap Listed
NewClaimsAgain     == {f \in Marked \cap Listed : f \in Detects[vec]}

\* The faults pushed onto pattern.detected_faults.
NewClaims == {f \in (Marked \ fault_detected) \cap Listed : f \in Detects[vec]}

\* Recording the pattern, with the three assertions on the way.
Record ==
  /\ pc = "record"
  /\ IF /\ target \in Detects[vec]
        /\ target \notin fault_detected
        /\ Hits # {}
     THEN /\ fault_detected' = fault_detected \cup Hits
          /\ patterns' = Append(patterns, [input_vector    |-> vec,
                                           detected_faults |-> NewClaims])
          /\ num_detected_fault' = num_detected_fault + Cardinality(Hits)
          /\ num_undetected_fault' = num_undetected_fault - Cardinality(Hits)
          /\ pc' = "pop"
     ELSE /\ pc' = "abort"
          /\ UNCHANGED <<fault_detected, patterns, counters>>
  /\ UNCHANGED <<faults, target, vec, solution, unsat, covered>>

\* final_check: every claim is of a listed fault, made once, and real.
ClaimsHold ==
  \A i \in DOMAIN patterns :
    /\ Claims(patterns[i]) \subseteq Listed \cap Detects[patterns[i].input_vector]
    /\ \A j \in DOMAIN patterns :
         i # j => Claims(patterns[i]) \cap Claims(patterns[j]) = {}

FinalCheck ==
  /\ pc = "pop"
  /\ faults = <<>>
  /\ IF ClaimsHold
     THEN pc' = "done" /\ covered' = Claimed
     ELSE pc' = "abort" /\ covered' = covered
  /\ UNCHANGED <<faults, fault_detected, target, vec, solution, patterns,
                 unsat, counters>>

Terminated == pc = "done" /\ UNCHANGED vars

Next ==
  \/ PopDetected
  \/ PopTarget
  \/ SatUnsat
  \/ SatSat
  \/ FlipInner
  \/ \E p \in PIs : FlipPI(p)
  \/ GenSolEnd
  \/ Record
  \/ FinalCheck
  \/ Terminated

\* One thread runs the loop: it takes a step whenever it can.
Spec == Init /\ [][Next]_vars /\ WF_vars(Next)

------------------------------------------------------------------------------
\* The listed faults nobody decided: still queued, or the target in flight.
InFlight == IF pc \in {"sat", "search", "record"} THEN {target} ELSE {}

Undecided ==
  (Range(faults) \cup InFlight) \ fault_detected

Testing == pc \in {"search", "record"}

\* Type invariant of the variables of ls_main, ls_gen_sol and final_check.
TypeOK ==
  /\ pc \in {"pop", "sat", "search", "record", "done", "abort"}
  /\ faults \in Seq(Listed)
  /\ fault_detected \in SUBSET Faults
  /\ target \in Listed \cup {NoFault}
  /\ pc \in {"sat", "search", "record"} => target \in Listed
  /\ vec \in Vectors
  /\ best_sol \in Vectors
  /\ best_score \in Int
  /\ step \in 0 .. MaxSteps
  /\ patterns \in Seq([input_vector : Vectors, detected_faults : SUBSET Listed])
  /\ unsat \in SUBSET Listed
  /\ num_detected_fault \in Int
  /\ num_undetected_fault \in Int
  /\ covered \in SUBSET Listed

\* None of the assertions of ls_main, ls_gen_sol and final_check fails, and
\* ls_random_sol always finds an undetected fault to focus on.
NeverAborts == pc # "abort"

\* A fault waits in the queue once at most, and not while it is the target. A
\* listed fault is undecided, or was reported unsat, or is claimed by a
\* pattern; an undecided one is neither of the others, so that no fault is
\* lost by a pop and none costs a second call of the oracle. The detected
\* flags and the claims agree on the listed faults, which is what lets
\* ls_main pop a fault by its flag alone.
NothingForgotten ==
  /\ \A i, j \in DOMAIN faults : faults[i] = faults[j] => i = j
  /\ \A i \in DOMAIN faults : faults[i] \notin InFlight
  /\ Listed = Undecided \cup unsat \cup Claimed
  /\ Undecided \cap (unsat \cup Claimed) = {}
  /\ fault_detected \cap Listed = Claimed

\* While a target is being worked on, the primary inputs and the best solution
\* both detect it, through every flip and every undone flip.
SearchKeepsTarget ==
  Testing => /\ target \notin fault_detected
             /\ target \in Detects[vec]
             /\ target \in Detects[best_sol]

\* The best score is the score of the best solution, and no vector the search
\* accepted, the oracle's own included, scores higher.
BestSolIsBest ==
  Testing => /\ best_score = Score(best_sol)
             /\ best_score >= Score(vec)

\* The statistics add up although the loop of ls_main takes marks back.
CountersMatch ==
  /\ num_detected_fault = Cardinality(fault_detected)
  /\ num_undetected_fault = Cardinality(Faults \ fault_detected)

\* The loop comes to an end, whatever the search and the oracle do.
Terminates == <>(pc = "done")

\* What the line "Cover: ..." counts: by the end, every fault whose flag is set
\* is really detected by one of the patterns ("check if real detected").
CoverIsReal ==
  pc = "done" =>
    \A f \in fault_detected :
      \E i \in DOMAIN patterns : f \in Detects[patterns[i].input_vector]

\* ls_main implements the promise: a test is a recorded pattern.
Promise == INSTANCE AtpgPromise WITH
  Untestable <- {f \in Listed : SatTests[f] = {}},
  todo       <- Undecided,
  tests      <- patterns,
  given_up   <- unsat,
  finished   <- pc = "done"

\* The steps of ls_main are steps of the promise or change nothing it sees,
\* and the report is made.
KeepsPromise == Promise!Spec
==============================================================================
