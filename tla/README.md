# A verification project for atpg-ls

atpg-ls generates test patterns for combinational circuits. For every stuck-at
fault of a collapsed list it asks a SAT solver for one input vector that
detects the fault, improves the vector by local search so that it detects as
many other faults as possible without losing its own, and records it as a
pattern. This directory models that program in TLA+, the generator as well as
the parts of tg-pro and CaDiCaL it calls, checks the models with TLC and proves
part of what they say with TLAPS.

Paths below are relative to the repository; `ls.cpp` without a directory means
`src/ls.cpp`, `fault_cnf.cpp` means `tg-pro/src/fault_cnf.cpp`, `elim.cpp` means
`tg-pro/cadical06w/src/cadical06w/src/elim.cpp`.

## 1. Inventory

The program is a single thread. Its hard part is not concurrency but the
number of places that keep the same knowledge: flags, claims, counters and a
queue that must agree; caches patched in place by flips; two fault lists that
have to give the same fault the same name; four different evaluations of one
circuit (the LUT tables, the gate-level simulator, the two circuits of the
checker, the CNF of tg-pro); and, in the solver, clauses, watches, reasons,
queue and extension stack that a dozen techniques change one after the other.

| part | source | state | operations |
|---|---|---|---|
| generator loop | `ls.cpp` `ls_main`, `ls_gen_sol` | queue `faults`, `fault_detected`, `patterns`, counters, `best_sol`, `best_score` | take the next fault, call the oracle, search, record, final check |
| fault list | `ls.cpp` 192-253 | `t_faults`, `t_verify_set`, `mp` | collapse equivalent faults, refuse repetitions |
| check_fault, final_check | `checker.cpp` | `right_circuit`, `wrong_circuit` | evaluate with and without the fault |
| gate-level simulator | `simulator.cpp`, `gate.cpp` | gate values, `fault_detected`, `fault_propagated_len` | evaluate, trace critical paths, score |
| LUT caches | `lut.cpp`, `score.cpp`, `ls.cpp` 15-76, 477-590 | per LUT `value`, `input_var`, `vsat`, `uptag`, `fd`, `fpl`, `CC`; tables | build tables, random solution, seed, flip, score, pick |
| weights | `ls.cpp` `ls_update` | `vunat_cost`, `up_cost`, weights of gates | raise and lower after a local optimum |
| LUT construction | `lut.cpp` ctor, `circuit.cpp` `build_lut_circuit` | LUT graph | cut the netlist into LUTs |
| netlist preparation | `circuit.cpp` | gates, stems, lines, topological order, `avg_dist` | `insert_lines_for_stem`, `init_topo_index`, `init_avg_dist` |
| SAT bridge | `sat_atpg.cpp` | `fault_map`, solver | name a fault for tg-pro, solve, read the inputs back |
| tg-pro circuit graph, parser | `circuit_graph.cpp`, `iscas89_parser.cpp` | lines, gates, their expansions | add inputs, outputs, gates, flip-flops; look up lines |
| tg-pro fault manager | `fault_manager.cpp` | `m_faults` | enumerate and collapse faults |
| tg-pro CNF | `fault_cnf.cpp`, `circuit_to_cnf.cpp` | `m_context`, `m_circuit_cnf` | the formula of one fault |
| SAT wrapper | `sat/` | solver | options, clauses, answer, values |
| CaDiCaL, search | `internal.cpp`, `clause.cpp`, `watch.cpp`, `propagate.cpp`, `analyze.cpp`, `minimize.cpp`, `decide.cpp`, `backtrack.cpp`, `restart.cpp`, `reduce.cpp`, `collect.cpp` | clauses, watches, trail, control, queue, bump times, saved phases | propagate, learn, decide, restart, reduce, collect garbage |
| CaDiCaL, inprocessing | `probe.cpp`, `probagate.cpp`, `decompose.cpp`, `duplicated.cpp`, `transred.cpp`, `subsume.cpp`, `vivify.cpp`, `elim.cpp`, `extend.cpp`, `compact.cpp` | the same, flags `added`/`removed`, occurrence lists, extension stack, maps between internal and external variables | probe, substitute, deduplicate, reduce transitively, subsume, vivify, eliminate, compact, extend |
| parsers, options, logging | `parse.cpp`, `paras.cpp`, `cmdline.h` | netlist text, options | read files |

How they interact: `main` parses the netlist four times (the generator's
circuit, the simulator, the two circuits of the checker) and tg-pro a fifth
time; `ls_main` drives everything afterwards. The oracle answers by value: a new
solver is made for each fault, given the clauses of `FaultCnfMaker`, solved once
and read. `ls_gen_sol` flips LUTs, asks `check_fault` whether the target survives
and `Simulator::simulate` for the score. When a pattern is recorded the simulator
says which faults to look at and `check_fault` which ones to claim.

What makes each part correct:

- loop: no listed fault is lost or decided twice; a claim is real and made
  once; flags, claims and counters agree; no assertion fails; the loop ends.
- search: target and best solution survive every flip and every undone flip.
- LUT caches: an input index is what the fanins spell, `vsat` tells whether a
  LUT agrees with its fanins, `fd`/`fpl` are right unless `uptag` is set.
- weights: they keep to their bounds, and the score of a LUT is what the
  objective gains by its flip although only the neighbourhood is looked at.
- LUT tables: the same faults as the gate-level trace, for every inner gate.
- LUT construction: the LUTs partition the gates, every leaf has a LUT.
- fault list against `fault_map`: every listed fault has a name in tg-pro, and
  the name means the same fault there.
- tg-pro: the formula of a fault is satisfiable iff the fault is testable.
- solver: the answer is right, and a model of what is left after inprocessing
  extends to a model of what was added; the search makes progress.

The hazards, each at its line and with the properties that would catch it, are
listed in `PROJECT.json`.

## 2. Modules

| module | what it is |
|---|---|
| `Netlist` | Pure operators on a circuit `[type, fanins, pos]`: gate evaluation (`CalValue`), `CheckFault` (checker.cpp 11-35), `FaultDetected`/`Simulate` (gate.cpp 32-60, simulator.cpp 84-101), the collapsed list `MakeFaultList` (ls.cpp 192-242). No RECURSIVE operator. |
| `Circuits` | Small netlists, each in the form `insert_lines_for_stem` and `init_topo_index` leave. |
| `AtpgPromise` | What the generator promises: every fault is decided, by a real test or by an unsat answer, none is claimed twice, a report is made. |
| `LsMain` | The loop with the control of `ls_gen_sol` and `final_check`. Parameterised by what vectors detect, what the simulator marks and what the oracle may answer. |
| `LsMainProofs` | Theorems about `LsMain` for all values of these parameters. |
| `LutTables` | `init_lookup_table`: value table and fault table of a group of gates. |
| `LutSearch` | The fields of all LUTs through random solutions, seeds, scorings, flips, undone flips and the end of the search, with an open choice of the next LUT. |
| `Weights` | Extends `LutSearch`: the score, the weights it is made of, `ls_pick` to the end and `ls_update`. |
| `LutBuild` | `build_lut_circuit` and the constructor of `LUT`: a netlist is cut into LUTs, with every random choice of a candidate. |
| `LutBuildProofs` | Theorems about `LutBuild` for every netlist and every limit. |
| `WeightsProofs` | Theorems about `LutSearch` for every cut, all tables and targets; `Weights` implements `LutSearch`; theorems about weights and scores. |
| `PreparationProofs` | Theorems about `StemLines` and `TopoIndex` for every netlist. |
| `TgGraphProofs` | Lemmas about the circuit tg-pro reads, for every file, its statements in any order. |
| `FaultCnfProofs` | Theorems about that circuit and about the formulas and answers of `FaultCnf`, for every file, every fault and every order of the faults. |
| `FaultNamesProofs` | Theorems about the two fault lists of `FaultNames`, for every netlist. |
| `InductionFacts` | Induction over the naturals and over sets with a rank, recursive functions, finite sums, queues without repetitions: the lemmas the other proofs rest on. |
| `StemLines` | `parse_from_file`, as far as the gates and connections go, and `insert_lines_for_stem`, which walks two vectors while it changes them. |
| `TopoIndex` | Extends `StemLines`: then `init_topo_index` and `init_avg_dist`. |
| `TgGraph` | tg-pro's `CircuitGraph` and the statements of its parser, the expansion of wide gates into chains included. |
| `FaultManager` | Extends `TgGraph`: the collapsed list of tg-pro, line by line. |
| `FaultNames` | Extends `StemLines` and `FaultManager`: both fault lists of one netlist, and `fault_map` between them. |
| `FaultCnf` | Extends `FaultManager`: `sat_atpg` and `FaultCnfMaker`, from the file to the vector. |
| `SatClauses` | The solver's state, clauses, watches, the queue and garbage collection. |
| `SatSearch` | Propagation, backtracking, analysis with minimization, bumping, decisions, restarts. |
| `SatProbe` | Equivalent literals, duplicated binary clauses, failed literals with hyper binary resolution. |
| `SatSubsume` | Subsumption and strengthening in one go over the clauses; transitive reduction. |
| `SatVivify` | Vivification, and `subsume` as a whole. |
| `SatElim` | Bounded variable elimination, compaction, extension of a model. |
| `SatSolver` | The solver as a state machine: clauses added, then the turns of `Internal::search`, then the answer. |
| `MCLsMain`, `MCWeights`, `MCLutBuild`, `MCTopoIndex`, `MCFaultNames`, `MCFaultCnf`, `MCSatSolver` | Instances for TLC: circuits, cuts, oracle, netlists, files, formulas. |

How they compose. `TopoIndex` extends `StemLines` and runs it as its first
stage. Its end state is what `LutBuild` assumes of its constants
(`NetlistAssumption`: ids are topological, outputs and only outputs have no
fanouts), which is what `IdsAreTopological`, `StemsAreSplit` and
`GivesUpRightly` say. `LutSearch` starts from a cut as `LutBuild` makes it, and
`LsMain` from the fault list of `Netlist`; the search inside `LsMain` is an
abstraction of `LutSearch`, which is not yet shown as a refinement. `Weights`
runs `LutSearch` as part of it: each of its actions is an action of `LutSearch`
and more. `LsMain` takes the oracle as a parameter (`SatTests`, `OracleIsSound`);
`FaultNames` says that a target reaches tg-pro as the fault it is, `FaultCnf`
that a model of the formula is a test of it and that no model means no test,
and `SatSolver` that the solver's answers are right.

### LsMain and the code

| action | code |
|---|---|
| `PopDetected` | the inner while of `ls_main`, ls.cpp 261-268 |
| `PopTarget` | `ls_random_sol` and the pop, 272-276; the modulo of line 563 is an explicit way to abort |
| `SatUnsat`, `SatSat` | the answer of `sat_atpg`, 282-311, and the prologue of `ls_gen_sol`, 395-400 |
| `FlipInner`, `FlipPI(p)` | one turn of the search, 402-453, on an inner LUT or on an input |
| `GenSolEnd` | 455-459 |
| `Record` | simulate, the forced mark, the loop over all gates and its assertions, 315-364 |
| `FinalCheck` | `final_check`, checker.cpp 37-71, with its assertions |

An assertion that fails sets `pc` to `"abort"`; `NeverAborts` says that none
does. `fault_detected` is the set of (gate, polarity) pairs whose entry is 1.
The inner values of LUTs and all scores other than the one compared with
`best_score` are not part of this module: they only influence which LUT is
flipped, and here any may be. `Hits` sums up the loop that sets a flag, checks
the fault and takes the flag back (331-358): what is left set afterwards.

### LutSearch, Weights and the code

The record `s` holds the fields of all LUTs; `input_var` is the assignment of
the fanins instead of an integer with one bit per fanin. `CalFaultInfo`,
`LsFlip`, `CalScores`, `RandomSol`, `SatSeed` and `Settle` follow
`cal_fault_info`, `ls_flip`, `cal_score`, `ls_random_sol`, ls.cpp 295-311 and
the end of `ls_gen_sol`. The first state is the one after the first
`ls_random_sol`: before it the fields are uninitialised and not read.

| action | code |
|---|---|
| `WStart` | `ls_random_sol` for the next target, ls.cpp 272-276, with fresh weights and one fault in focus; the flags may have grown since |
| `WUnsatisfiable`, `WSeed` | the two answers of `sat_atpg`, 284-289 and 291-313 |
| `ScoredTurn(q)` | a turn of `ls_gen_sol`, 402-453, in which one of the sampled LUTs `q` has a positive score: the first of the best is flipped, or flipped and flipped back |
| `UpdatingTurn(q)` | a turn in which none has: `ls_update`, 80-161, then a random LUT |
| `WFinish` | the end of `ls_gen_sol`, 455-473 |

`Score` follows `cal_score`, `Objective` the sum `LUTCircuit::check` prints.
`avg_dist` divides some weights and the code adds doubles; the model multiplies
every sum by `Scale`, a multiple of all distances, and has no rounding.
`UpdateRow` is the row of `fault_table` at `input_var` itself, as `ls_update`
reads it, although the table is laid out by `input_var << 1 | value`.

### LutBuild and the code

| action | code |
|---|---|
| `Init` | the queue of heads, circuit.cpp 48-64; gates named by `id`, so the order of `gates` is the order of the numbers |
| `PopGate` | the pop, circuit.cpp 66-70, and the constructor's start, lut.cpp 85-95 |
| `Absorb(g)` | one round of the constructor's loop: the candidates are collected and one is taken at random |
| `FinishLut` | the last round and the queueing of the new heads, circuit.cpp 85-93, in the order of a set of pointers: any (`Orders`) |
| `Link` | the connections with their assertion, circuit.cpp 95-122 and 148-153 |

The option `lut` bounds what growth adds; a root keeps the fanins it has.

### StemLines, TopoIndex and the code

| action | code |
|---|---|
| `Skip`, `Enter`, `Leave`, `Finish` | the outer loop of `insert_lines_for_stem`, circuit.cpp 159-185; it stops at the first line |
| `Branch` | one turn of the inner loop, 195-221: `i--` and the erased element cancel out, so position `i` is visited again |
| `NumberInputs`, `Forward` | the forward half of `init_topo_index`, 294-316 |
| `NumberEnds`, `Backward` | the backward half, 319-347 |
| `StartDistances`, `StartOutput`, `Visit`, `EndOutput` | the walks of `init_avg_dist` from each output, 227-269 |
| `Average` | the averages with the exit and the two assertions, 271-286 |

A gate is its position in `gates`, fanins and fanouts are sequences with
repetitions, as in the code, because a gate may read another twice. A name is a
tuple (`<<g>>`, or `<<stem, reader>>` for a line), which keeps which names are
equal. The sort at the end of `init_topo_index` orders the vector by the ids; no
loop of `init_avg_dist` depends on the order but the last, which `Average` takes
into account.

### FaultNames, FaultCnf and the code

| action of FaultNames | code |
|---|---|
| `SplitStems` | the steps of `StemLines` |
| `ParseGraph` | tg-pro's parser on the same file |
| `AddLineFaults` | one line of `FaultManager::add_all_collapsed_faults` and what it calls |
| `NameFault` | one fault of `sat_atpg_init`, sat_atpg.cpp 77-118 |
| `ListGate` | the faults of one gate, ls.cpp 192-242, with the assertion against repetitions |
| `Ask` | the lookup in `sat_atpg` with its assertion, sat_atpg.cpp 21-31 |

| action of FaultCnf | code |
|---|---|
| `Ask` | `make_fault` up to the fanout cone and the choice of the circuit part, by the threshold ratio |
| `AddSensitization`, `AddFaultActivation`, `AddBoundaryScan`, `AddFaultPresentation` | the stages of the formula in the order in which `make_fault` calls them |
| `Solve` | the answer and the vector read back |

The file of `FaultCnf` is a sequence of statements in any order, read in `Init`
by `GraphOf`: a name may be read before it is driven. The formula is a set of
clauses; the answer of `Solve` is any model, or unsat if there is none. One
maker serves all faults of a file, in any order, as in the program, so that what
a fault leaves in `m_context` or `m_circuit_cnf` reaches the next.

### SatSolver and the code

| action | code |
|---|---|
| `AddClause` | `CadicalSolver::add_clause`, which ends in `add_original_lit` |
| `Solve` | `solve_prepared` to the start of `search`, the propagation of units included |
| `Propagating`, `Analyzing` | `propagate` and `analyze`, the first two branches of the loop of `search` (internal.cpp 156-175) |
| `Restarting`, `Reducing`, `Probing`, `Subsuming`, `Eliminating`, `Compacting`, `Deciding` | the further branches, in their order (`turn`), each the whole of the function called |
| `AnswerSat`, `AnswerUnsat` | the end of the loop, `External::extend` and the values read |
| `Answered` | the solver is dropped |

Each branch asks a limit on conflicts whether it is due. The limits depend on
averages and growing intervals; the model lets every branch that the other
conditions allow be due or not, up to `MaxReduces` and `MaxRestarts`. A limit on
the effort of a step (propagations in `probe`, checks in `transred`, `vivify`) is
a number of clauses or probes out of `Efforts`. The order of clauses, literals
in a clause, watches and probes is the code's: it decides what is found. Clauses
have numbers for addresses; garbage collection renames nothing but keeps the
order in which the arena is copied.

## 3. What the runs check

| run | cfg | instance and bounds | shows |
|---|---|---|---|
| main_loop | `MCLsMain.cfg` | Shared: reconvergent fanout, a redundant term, masking; two testable faults are answered unsat; any vector that detects the target may be answered; 4 turns per search | the loop passes its assertions, forgets and repeats nothing, keeps target and best solution, claims nothing false; it implements `AtpgPromise` (`todo <- Undecided`, `tests <- patterns`, `given_up <- unsat`) and ends |
| cover_counts_unchecked | `MCLsMainCover.cfg` | Redundant; 1 turn | finding: see below |
| search | `MCWeights.cfg` | Masking cut into 5 LUTs, a testable and an untestable target, all random solutions, 2 turns, 1 sampled LUT | the score is the gain, weights keep to their bounds, caches are right at rest, damage is not spread, LUT tables agree with the gate-level simulator |
| seed_leaves_vsat | `MCWeightsSeed.cfg` | the same | finding: see below |
| lut_cut | `MCLutBuild.cfg` | Tree: 23 gates, two outputs, OPT(lut) = 3; every random choice | the LUTs partition the gates, hide nothing that is read elsewhere, keep the order of inputs, have a LUT for each fanin; construction ends |
| preparation | `MCTopoIndex.cfg` | every netlist of two inputs and two gates with one or two fanins, every set of outputs | every branch gets one line and the circuit stays the same, at every step; both numberings are topological, the distances are those of shortest paths, the program gives up exactly if a gate reaches no output |
| fault_names | `MCFaultNames.cfg` | netlists of two inputs and two gates of each type, of three inputs, every set of outputs | no assertion fails, a target means the same fault on both sides, both lists agree, collapsing loses no test, the inputs are in the same order |
| output_input_names | `MCFaultNamesInput.cfg` | the netlists left out above | finding: see below |
| fault_formula | `MCFaultCnf.cfg` | two inputs, two gates, up to four fanins, one to four outputs; two files with a flip-flop turned round in every way; every collapsed fault; threshold ratio 60 | the graph says what the file says, also when gates are expanded; models are tests; no model, no test |
| output_stem_formula | `MCFaultCnfOutput.cfg` | the smaller of these | finding: see below |
| sat_search | `MCSatSearch.cfg` | 71 formulas of 2 to 8 variables and up to 26 clauses; 3 reductions, 1 restart | propagation misses nothing, reasons stay, the queue loses no variable, a learned clause is new |
| sat_inprocessing | `MCSatInprocessing.cfg` | 100 formulas of 5 to 8 variables | the answer and the model are right, each step keeps the models up to extension, redundant clauses are implied |

Why the bounds are enough. Each circuit has a feature that pulls the fast
simulation and the real detection apart: in Masking an OR hides a stem from
one path of a stem and an XOR makes the trace see too much; in Shared a redundant
term masks a stem for some vectors and listed faults are untestable or hard; in
Redundant half of the circuit has no influence. All vectors, all answers of the
oracle and all orders of flips are explored. Four turns per search on three
inputs reach every vector a search can reach from its seed, with turns left for
flips that are undone and for a best solution that is not the last one; the
queue order is the code's. `MaxSteps`
bounds turns per target, not the number of targets: every run goes through the
whole fault list. `Samples` = 1 scored LUT per turn is enough for every scored
LUT to be the one next flipped or one beside it. The increments and limits of the
weights are such that every bound is reached within two turns. Tree has leaves
of all kinds at once: inputs, stems, heads and gates that can be taken in, on
several levels, so that the constructor has choices to make and leaves gates
behind for later LUTs. The netlists of preparation include every way two gates
can read two inputs and one another: one gate twice, one stem by several, a stem
that is an output, a gate read by nobody. Those of fault_formula reach gates of
three and four inputs, which are expanded, lines read twice by one gate, outputs
that are inputs or stems, and circuit parts on both sides of the ratio.

Formulas for the solver come out of a generator seeded by a number; shapes and
seeds were chosen by the branches they reach: with binary clauses only for
probing and equivalent literals, dense ones over eight variables for conflicts on
several levels, minimization and reduction. In sat_search no clause is kept for
its size, so `reduce` has something to remove; a small occurrence limit leaves
the search something to do. Formulas of more than about 26 clauses exceed the
stack TLC has for the recursive functions.

Fairness. The program is one thread without blocking calls, so a step that is
possible is taken: `LsMain`, `AtpgPromise`, `LutBuild`, `StemLines`, `TopoIndex`
and `FaultCnf` state weak fairness of `Next` and nothing stronger. No fairness is
assumed of the random choices. `Weights`, `FaultNames` and `SatSolver` state none
and have no liveness property: a search is bounded by the number of turns, the
walks of `FaultNames` go over finite lists, and that the solver returns rests on
`LearnsNew`: the code has no bound on conflicts, and what makes them finite is
that no learned clause was there before. Deadlock is checked in all runs; final
states have an explicit stutter.

Every property of a passing run has a mutant of the model, defined beside the
original and commented as such (for example `NewClaimsUnchecked`, the record loop
without `check_fault`), under which TLC finds the property violated.

### Findings

1. `CoverIsReal` (run cover_counts_unchecked). The loop under the comment
   "check if real detected" (ls.cpp 330) checks only faults on the collapsed
   list. Marks of the approximate trace on other faults are kept unchecked and
   enter `num_detected_fault` and with it the printed "Cover". In Redundant the
   run ends with such a flag on a fault no pattern detects. The patterns and
   `final_check` are not affected.
2. `CheckVsat` (run seed_leaves_vsat). `ls_main` writes the oracle's vector into
   the inputs and rebuilds `input_var` (ls.cpp 295-311), but not `vsat`, `fd`,
   `fpl`. The first assertion of `LUTCircuit::check` (circuit.cpp 394; its calls
   in `ls_gen_sol` are commented out) does not hold in the turns that follow,
   and `cal_score` works on stale values. `StaleVsatShrinks` shows that the
   damage is never spread to another LUT, and `RestsCoherent` that it is gone by
   the end of the search.
3. `TargetsAreNamed` (run output_input_names). `sat_atpg_init` gives the branch
   fault of an input that is read once the name of the input (sat_atpg.cpp 91),
   also if the input is an output and the generator has put a line behind it.
   The target of that line has no entry, and the assertion of `sat_atpg` fails.
4. `UnsatMeansRedundant` (run output_stem_formula). For a stem whose line is an
   output the fault is asked to show at the outputs behind it only
   (fault_cnf.cpp 18-25). A fault that shows at its own output alone is answered
   unsat, and the generator drops it. `UnsatMeansUntestable` states what holds
   for all other faults.

Met on the way, harmless as the code is used:

- `fault_table[g][input_var]` in `ls_update` (ls.cpp 98, 138) is the row of
  another vector than the current one; only which weights move depends on it, and
  no property says which should.
- The lower bound of a propagated weight is tested with `+` (ls.cpp 108) and the
  polarity tested at its raise is 0 for both; the weight in question is not read
  by any score. `WTypeOK` gives the range it can reach.
- A gate that reads a stem twice gets two lines of one name (circuit.cpp 203).
- The help of the option `lut` speaks of the maximum of inputs (paras.h 11); a
  gate with more keeps them (lut.cpp 90).
- `decompose.cpp` 254 asks the number of all clauses where the size of the new
  clause is meant; the result decides on another round, of which there is one.
- `queue.bumped` is not renewed by `compact`. The next update only compares it
  with a time that is later.

## 4. What is proved

### The loop

`LsMainProofs` proves, for every set of inputs, every finite set of faults,
every list without repetitions, every `Detects` and `Traced` and every
`MaxSteps`:

- `TypeCorrect`: `Spec => []TypeOK`;
- `NoAbort`, `ClaimsAreReal`, `NoFaultForgotten`, `SearchIsSafe`: the safety
  invariants of the run main_loop and `ClaimsHold`;
- `CountersCorrect`: the counters are the cardinalities of the flags;
- `Refinement`: `Spec` implies the initial condition and the next-state relation
  of `AtpgPromise` under the refinement mapping.

The assumptions are the four named in `LsMain`: the fault list has no
repetition (the code asserts it), the simulation functions have their types,
the oracle is sound (a vector it returns detects the fault), and the target's
initial value is not a fault. TLC evaluates them for every circuit of the runs.
Nothing is assumed of the simulator: it may mark anything.

The argument. None of the properties is inductive alone, so they are proved
together as `IInv`, with one addition, `TargetOpen`: a fault in flight is not
flagged. `Record` passes its assertions because `SearchKeepsTarget` gives it a
vector that detects an unflagged target; `GenSolEnd` passes because the best
score is the score of a vector, hence a natural number and not -1; claims stay
disjoint because flags and claims agree on listed faults (a part of
`NothingForgotten`) and `Hits` avoids flags; `SatUnsat` moves a fault to `unsat`
and out of the undecided only because the queue does not hold it a second time.
There is one lemma per action or pair of actions, and `RecordAdds` collects
what the longest one does.

### The LUT cut

`LutBuildProofs` proves, for every netlist that meets `NetlistAssumption`, every
queue of heads in the order of the ids and every limit:

- `TypeCorrect`: the type invariant, with the queue free of repetitions;
- `NoFaninMissing`: the assertion that every fanin of a LUT is a LUT holds;
- `Disjoint`, `Cover`, and together `Partition`: the LUTs partition the gates;
- `Private`: the gates inside a LUT, its root aside, are read inside it only;
- `Closed`: the fanins of a LUT are what its gates read from outside, and all of
  it lies below its root.

The inductive invariant is `TypeOK`, `FaninsAreLuts` and four parts: `QueueInv`
(a gate that was ever queued waits in the queue, is the current root or has a
LUT; heads were queued), `FaninInv` (a leaf of a finished LUT was queued, so it
has or will get a LUT), `ConeInv` (the gates inside a cone have their only reader
inside, the leaves are what the cone reads from outside) and `DisjointInv`.
Disjointness is the interesting one. A leaf f that `Absorb`
takes in has one reader (`SoleReader`), which is in the cone being built. If f
were in a finished LUT it would be the root of that LUT, as that LUT does not
contain the reader (`FaninIsRoot`); so f was queued, and, being no head, it is a
fanin of some finished LUT (`FaninInv`), which then contains the reader, against
the disjointness so far. The same holds of a root that is popped. `ConeGrows`
shows that the cone with f taken in is a cone again. `Cover` takes the
greatest gate without a LUT (`GreatestGate`): it is no head, so it has one
reader, the reader has a LUT, and the gate is inside it or one of its fanins,
which have LUTs too.

`InputsInOrder` has an invariant of its own on top of it, `OrderInv`: the inputs
in the queue are ascending, those that have a LUT come before the one that is
getting its LUT, and both come before those in the queue.

### The LUT caches

`WeightsProofs` proves of `LutSearch`, for every finite graph of LUTs in which fanins are lower
(`GraphAssumption`), all tables of the right type (`TableAssumption`), all targets
and bounds:

- `TypeCorrect`: types, and the input indexes are what the fanins spell;
- `CachesRest`: `vsat`, `fd`, `fpl` are right whenever no search is running;
- `TurnsKeepCoherence`: a turn from right caches leads to right caches;
- `VsatIsOnlyRepaired`: after a seed that left `vsat` wrong (finding 2), no turn
  makes the `vsat` of another LUT wrong.

The inductive invariant is `TypeOK /\ RestsCoherent`: in the search the caches may
be wrong, so what carries the proof is that each handler restores them. The key
lemmas: `FlipVsatRight` (a flip touches the inputs and `vsat` of the LUT and its
readers, and these are right afterwards), `RegionCovers` (a LUT whose information
a flip can change is marked: `reigon` is large enough), `FlipKeepsInfo` and
`ScoringKeepsInfo` (what is not marked is right before and after), and
`SettleCoherent` (the end of `ls_gen_sol` repairs everything, from any state).
`Info` and `Evaluate` are recursive functions; `InfoDepends` says what a value
of theirs depends on.

### Scores and weights

Of `Weights` it proves, for all flags and for all increments and limits, 0 included,
as long as the focused weight is above `fw_max` (`OptionAssumption`):

- `ScoresGuideTheSearch`: `WSpec => Spec`: `ls_pick` with scores and `ls_update`
  is one way of doing what `LutSearch` leaves open, so its theorems hold
  (`SearchWithScores`);
- `WeightsBounded`: costs and weights keep to their bounds, and a cost stays positive
  unless its limit is 0 (`CostRange`);
- `ScoresAreGains`: `cal_score`, which looks at the neighbourhood of a LUT, is the
  gain of the sum that `LUTCircuit::check` prints.

The inductive invariant `WInv` needs that an input LUT is satisfied in every state
(`InputsSatisfied`), or `ls_update` would raise the cost of an input, which
`WTypeOK` says never happens. `ScoreOfFlip` takes the objective apart into the
terms of `vsat` (`VsatGain`), of the faults (`WorthGain`) and of the marks
(`MarksGain`), and shows that the terms left out by the score are the same before
and after the flip. It assumes no right caches: it holds with stale ones as well,
because score and objective read the same fields.

### Lines for stems

`PreparationProofs` proves, for every set of netlists that meets `NetlistAssumption`
(a gate reads gates above it, no output is listed twice):

- `FaninsMirrorFanouts`: fanins and fanouts tell the same story at each step, and
  the number of lines is bounded by that of the connections (`Mirrored`);
- `LinesAreTransparent`: at no step is the circuit changed (`SameCircuit`);
- `EveryBranchHasItsLine`: the result (`StemsAreSplit`).

The inductive invariant `IInv` has `Typed`, `LinesFollow` (the gates of the file
come first, a line stands between one stem and one reader or output),
`SameStory`, `SameCircuit`, `LengthsKept` (no connection is gained or lost),
`OutputsListed` and `Progress` (gates the walk has passed are split, the one it is
at has its old fanouts before the lines, those ahead are untouched). The code
erases the first fanout and appends a line, so `Progress` is what shows that the
inner loop, which ends at the first line it meets, has then seen every branch,
and that the outer loop, which ends at the first line, has seen every gate.
`LineMovesCounts` says what a line changes in all counts of both directions,
`LineIsTransparent` that a vector seen through the lines counts as before,
`ReadersHold` that the fanouts read from a file mirror its fanins. `GrowthBound`
assigns to each line the pin or the output it was made for, no two lines sharing
one.

### Topological numbers

`PreparationProofs` proves, for the same netlists:

- `WalksNumberEveryGate`: `TopoSpec => []IdsAreTopological`: both walks reach
  every gate, the numbers are 1, 2, ... without gap or repetition, a gate comes
  behind its fanins (backward: behind its fanouts), and input k has number k;
- `PreparationKeepsLines`: what is proved of the lines holds until the end.

Both walks are one algorithm run in two directions, so the proof is about
`Walks(n, pre, num, w, s, t)`: numbers below t are given out, the queue s holds the
last of them in order, `w[g]` counts the connections into g from gates that have
not left the queue, it is 0 just when g has a number, and a number is above those
of the gates g depends on. `TurnKeepsWalks` is one turn of the loop. It uses that
no gate is twice among the fanouts or fanins of one (`NothingTwice`): a
consequence of the lines, without which a counter could pass 1 in one turn.
`WalkStarts` needs that inputs are the gates without fanins (`InputsKept`).
`WalkEnds` shows that an empty queue means all have numbers: by induction on a rank
(`FileRank`: twice the place in the file, a line right behind its stem; turned
round for the walk back), and counting gives that the numbers are 1 to n. That
such a rank exists is where `SameCircuit` comes in: a fanin seen through its line
is a gate above in the file (`DriverAbove`).

### Distances

Of `init_avg_dist` the same module proves, for every netlist of fewer gates than
`Infinite`, the 0x3f3f3f3f that stands for no distance (with more, a gate may be
farther away than that, and the comparison in the loop would not see it):

- `DistancesAreShortest`: `TopoSpec => [](N < Infinite => CountedOnce)`: when a walk
  has ended, each gate with a path to the output has been counted once, with the
  length of a shortest path, and no other gate has been counted;
- `GoesOnIfAllReached`: `TopoSpec => [](N < Infinite => GivesUpRightly)`.

The inductive invariant `DInv` has, besides types and control, `WalkSpreads`
while a walk runs and `AllTallied` between walks. `Spreads` says that the gates
with a distance have the right one, that those which left the queue have passed
it on, that the queue repeats no gate and is in order of the distances, which
differ by one at most, and that every gate as near as the first of the queue has
been found. From this `SpreadFinds` shows that a gate found at a turn has its
final distance, so the loop, which would queue a gate again if it came closer,
never does. Other outputs start with 0 and not with `Infinite`, which does no harm
as nothing reads an output once the lines are in (`OutputsUnread`); without
`StemsAreSplit` a walk through an output that is also a stem would stop there.
That the shortest paths of `DistancesTo` go down to 0 in steps of one
(`ShortestMeasures`) needs that no path is longer than the number of gates, which
the numbering of the walk before gives. `MeanNotZero` is the assertion
`g->avg_dist > 0`: all summands of a gate that is no output are at least 1. The
sums are those of unbounded integers; in the code they are `int`.

### The circuit of tg-pro

`FaultCnfProofs`, on the lemmas of `TgGraphProofs`, proves, for every set of files that meets
`FileAssumption` (statements over any names, in any order; a name is driven once
and read, gates have a legal number of inputs, no cycle goes through gates alone)
and for every threshold ratio:

- `SpecFollowsFile`: what is parsed says what the file says (`GraphFollowsFile`):
  sources and destinations of the lines mirror the inputs of the gates, inputs
  stand in the order of their statements, an output is listed once;
- `SpecExpandsFaithfully`: values of the named lines fit the gates of the file iff
  they can be extended to the generated lines so that all expanded gates fit, and
  then in one way (`ExpansionIsFaithful`).

The parser is a fold over the statements, so the first is by induction over their
number: the lemmas of `TgGraphProofs` say what each statement keeps, also when
a name is read long before it is driven. The second goes over a rank of the lines
(`LineInduction`, a line lies above the inputs of the gate that drives it), and
along the chain of a wide gate: `LinksFit` says that link k carries what the last
k + 1 inputs make, `ChainMeans` that the last link is the gate.

### The formula of a fault

`FaultCnfProofs` proves, under the same assumptions, for every fault of the list
and whatever faults were asked for before:

- `SpecAnswersTests`: the vector read off any model of the formula is a test
  (`AnswersAreTests`), which is what `ls_main` asserts of it;
- `SpecGivesUpRightly`: without a model no vector is a test, except for the stem
  fault of an output with fanouts (`UnsatMeansUntestable`; finding 4 is that case);
- `SpecSensitizes`: before the presentation is added, the sensitization literals
  of a model tell which lines differ (`SensitizedIsDifferent`).

The inductive invariant `FormulaInv` says, for each stage, that the clauses the
solver has hold under an assignment iff what the parts made so far are to say is
true of it: T are the lines that have 1, D the lines whose sensitization literal
is true, and `Said(..., p, T, D)` is the meaning of the first p parts. The base
says that T fits the gates behind the outputs (`BaseSays`); sensitization that
each link of each gate of the cone has its output in D just when the inputs in D
turn it round (`GateTells`); activation that the fault's line is in D and has the
other value; the boundary scan that nothing enters D from outside; the
presentation that an output is in D. `FormulaInv` also needs that nothing is left
of an earlier fault: the context is fresh again when a fault is asked for, and the
formula of the whole circuit, kept between faults, is that of this circuit.

The clauses of one gate are `MakeClausesMean` and `GateSensitizationMeans`; that
literals are handed out once, beyond the lines, and kept (`GoodContext`,
`AllocateGood`), lets the clauses of a part be read with the literals of the next
(`PartGrows`). `GateTellsMeans` goes through a chain: the values turned round by D
fit the chain iff the gate gives its turned-round output from its turned-round
pins. The pins matter, as a gate may read the fault's line by the faulty branch
and by another input; `PinTells` shows that side literals, spec_lit and the
boundary scan together tell each pin right.

From there on it is about circuits. `DescribesFault`: an assignment that says all
that describes the good and the faulty values in the cone, by induction over the
ranks of the lines; so an output in D shows the fault (`FormulaDetects`).
`DetectedIsDescribed` is the converse: the good values and the lines that differ,
with the lines inside the chains (`FullValues`), say all parts. It needs the cone
to be closed (`WalkCloses`: as many steps as there are gates are enough), the
circuit part to contain the cone (`BaseCovers`: every gate the fault can reach
stands before some output inside) and an output inside the cone to show it, which
is what fails for the stem of an output with fanouts. A stem fault has a peculiar
case: if spec_lit is allocated and false, the other branches are taken not to
see the fault. `Effective` names it: the assignment then describes the good
circuit, and the theorems hold nevertheless, `SpecSensitizes` with the condition
the property states.

`Models` decides the variables one after the other; `ModelsAre` shows that its
results are the assignments under which all clauses hold, so "no model" is
"no assignment" (`NoModel`), and a vector read off a model may choose freely the
inputs the formula does not mention (`ModelVector`).

### The collapsed fault list

`FaultNamesProofs` proves, for every set of netlists that meets
`NetlistAssumption` and `TypedNetlists`, whatever the oracle is asked for:

- `CollapsingLosesNoFault`: when `ls_main` has listed its faults, every stuck-at
  fault of a gate, of a branch or of an output, listed or left out, is detected by
  exactly the vectors that detect some listed fault (`CollapsingIsExact`).
- `RightFaultIsAsked`: the entry of `fault_map` that `sat_atpg` finds for a target
  has the target's connections and its value (`SameFault`).
- `BothListsAgree`: `fault_map` has an entry for every listed fault and no other
  (`ListsAgree`), if no netlist has an input that is an output and is read once
  (`NoOutputReadOnce`). Without that assumption it is false: the run
  `output_input_names` shows such a netlist.
- `NamingNeverAborts`: under that assumption, and if no gate has one gate at two
  inputs (`EachReadOnce`), none of the assertions modelled here fails
  (`NeverAborts`). The netlists of the run fault_names meet both.

`Split` is what the preparation leaves, from the invariants of `StemLines`, with
`NamesKept`: a gate is called as in the file, a line after its stem and its reader.
`PinBranches` and `OutputBranches` tie the gates and lines to the connections of
the file, so `SitesOfGates`, `SitesOfBranches` and `SitesOfOutputs` say where in
the file a listed fault sits. The heart is `FaultMoves`: a value that decides the
output of the gate behind it (`Forces`) is the same fault as the decided value
behind that gate, at all outputs and for every vector. What `ls_main` leaves out in
front of a gate are such values (`ListedOrForces`), and behind the gate there is a
single wire, left out again or not, or a stem, whose faults are all listed. So
`WiresAreKnown` goes from the last gate to the first: gates have numbers above
those they read, and the induction is over the distance to the last.

A gate that reads a stem in two places has two lines of one name, and a fault of
only one of the pins need not be that of the other. No assumption excludes such
netlists: the two faults have one key, and the program ends at
`assert(t_verify_set.count(...) == 0)` before the search. `ListedReadOnce` turns
that around: once the search begins, no gate reads another twice. The inductive
invariant `NInv` carries what has been listed so far (`ListedBelow`) to that point.

On tg-pro's side `TgInv` follows `m_faults` and `fault_map` line by line and fault
by fault: the list is the faults of the lines walked so far, each once
(`LineFaultsAre`), the map has exactly the keys of the faults named so far, each
with a fault of that key. `ShapesAre` says of each of tg-pro's faults what it is
called and where it sits, `GateKeys` the same for those of `ls_main`, and
`BranchingMeans` that both programs mean the same gates by those with branches,
though one counts the destinations of a line and the other inserts lines.
`SameSite` and `SameNames` compare the two. When a question is answered the target
had been listed once, so no gate reads another twice, and one name means one
connection.

`OnceInv` carries `NamingNeverAborts`: what `ls_main` has listed so far has different
keys, each of a gate before the current one (`ListedOnce`). `NamesOnce` says that two
gates or lines with one name are the same, because a stem has one line to each
reader and one to the output; `TgOnce` says the same of tg-pro's names. Without
`EachReadOnce` both are false, and both programs end at an assertion: a gate that
reads a stem twice has two lines of one name.

### How the proofs are made

The inductive invariants were checked as invariants of the runs before they were
proved, except `FormulaInv`, which quantifies over all assignments and ranks; its
parts are the meanings of the clauses, and what follows from it was checked.
Theorems that take an operator as a parameter cannot be used with these
provers, so induction is stated over sets: `InductionOverNat` takes the set of
numbers for which the claim holds, `InductionOverSet` does so for a ranked set,
and `RankedRecursion` gives the solution of a recursive definition whose step is a
function of functions. Sums over finite sets (`SumFunctionOnSet`) are taken apart
one element at a time with `SumAddElement`, `SumUnion`, `SumChange`.

### What is only model-checked

- Liveness: termination of the loop, of the cut and of the preparation
  (`GetsPrepared`), the fairness part of the refinement; out of the prover's reach.
- `VerifyHolds`: that the tables of a cut agree with the gate-level trace depends
  on `LutTables` and `Netlist`, whose recursive functions go over the circuit.
- `InputsMatch` of `FaultNames`, which compares a filter of the generator's gates
  (`SelectSeq`, recursive) with tg-pro's inputs.
- The solver: its modules use RECURSIVE operators for loops without a bound known
  beforehand, which the provers do not take.

## 5. Not modelled

The tokens and messages of both parsers, options, logging, tg-pro's own command
line and tests; see `PROJECT.json` for each part and reason.
`Gate::cal_fault_info`, `LUT::fault_info`, `update_reigon` and the propagation
lengths of the gate-level simulator do not influence the program's answers. Of
the LUT constructor the sort of the inner gates and the numbering inside the LUT
are left out.

Of CaDiCaL: the averages and limits that decide when a step is due (a choice, see
above); rephasing, which the wrapper turns off (`cadical.cpp` of the wrapper, 94);
proofs, checkers, signals, statistics, memory; `elimclslim`, `subsumeocclim`,
`minimizedepth` and the garbage collection inside an elimination round, whose
limits lie far above formulas TLC can take; `Solver` functions the wrapper does
not call. Where the code stores two things in one place (`reason` and `parent` in
a union of `Var`) the model has one field as well.

## 6. Plan

Done: the loop, the cut into LUTs, the preparation of the netlist, the caches,
scores and weights, each with its proofs; names and collapsing; the formula; the
solver. What is left, in this order:

1. Proofs: the solver, with its loops written as recursive functions, or the
   answers (`AnswerIsRight`, `RedundantIsImplied`) proved of relations between sets
   of clauses.
2. `AtpgLs`: `LutSearch` and `LsMain` composed; `LutSearch` shown to implement
   the search of `LsMain` with `vec` read off the input LUTs, and the cuts of
   `MCWeights` made outputs of `LutBuild`.
3. `SatNext` split into what a proof can carry: clauses and models only, with the
   steps of inprocessing as relations between sets of clauses.
