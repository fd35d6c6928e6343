----------------------------- MODULE AtpgPromise -----------------------------
(***************************************************************************)
(* What a run of the generator promises, without saying how it searches:   *)
(* every listed fault is decided, either by a test that really detects it  *)
(* or by an "unsat" answer of the oracle, and a fault is claimed by at     *)
(* most one test.                                                          *)
(***************************************************************************)
EXTENDS FiniteSets, Sequences

CONSTANTS
  Listed,      \* the faults to decide
  Vectors,     \* the input vectors
  Detects,     \* Detects[v]: the faults that vector v detects
  Untestable   \* the listed faults the oracle answers "unsat" for

VARIABLES
  todo,        \* listed faults not decided yet
  tests,       \* the tests so far, each with the listed faults it claims
  given_up,    \* faults answered "unsat"
  finished     \* the result has been reported

vars == <<todo, tests, given_up, finished>>

Claimed == UNION {tests[i].detected_faults : i \in DOMAIN tests}

Init ==
  /\ todo = Listed
  /\ tests = <<>>
  /\ given_up = {}
  /\ finished = FALSE

\* A test claims at least one fault nobody decided, and only faults it detects.
AddTest ==
  \E v \in Vectors : \E D \in SUBSET ((todo \cup given_up) \cap Detects[v]) :
    /\ D \cap todo # {}
    /\ D \cap Claimed = {}
    /\ tests' = Append(tests, [input_vector |-> v, detected_faults |-> D])
    /\ todo' = todo \ D
    /\ UNCHANGED <<given_up, finished>>

GiveUp ==
  \E f \in todo \cap Untestable :
    /\ given_up' = given_up \cup {f}
    /\ todo' = todo \ {f}
    /\ UNCHANGED <<tests, finished>>

Report ==
  /\ todo = {}
  /\ ~finished
  /\ finished' = TRUE
  /\ UNCHANGED <<todo, tests, given_up>>

Next == AddTest \/ GiveUp \/ Report

Spec == Init /\ [][Next]_vars /\ WF_vars(Next)
==============================================================================
