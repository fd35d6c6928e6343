------------------------------ MODULE SatSolver -------------------------------
(***************************************************************************)
(* The SAT solver as tg-pro uses it (class CadicalSolver): a new solver, a *)
(* formula added clause by clause, one call of solve, the values read      *)
(* back. One action is one turn of the loop of Internal::search. Its       *)
(* limits, which count conflicts and propagations and grow with each use,  *)
(* are abstracted to a choice whenever the loop comes by, bounded by       *)
(* MaxReduces and MaxRestarts. CadicalSolver turns rephasing off.          *)
(***************************************************************************)
EXTENDS SatElim

CONSTANTS
  Formulas,     \* the formulas that may be solved, sequences of clauses
  MaxReduces,   \* bound: how often reduce may run, and with it the inprocessing
  MaxRestarts,  \* bound: how often restart may run
  Efforts       \* the clauses or probes a step of the inprocessing may try

VARIABLES
  formula,  \* the clauses of ProxyCnf, sequences of external literals
  s,        \* the solver
  phase,    \* "adding", then "search", then the answer "sat" or "unsat"
  added,    \* the clauses added so far
  turn,     \* the last step of the schedule since the last conflict
  restarted,\* there was a restart since the last conflict
  reduces,  \* how often reduce ran
  restarts  \* how often restart ran

vars == <<formula, s, phase, added, turn, restarted, reduces, restarts>>

------------------------------------------------------------------------------
\* The steps of the schedule in the order in which the loop asks for them.
Turns == <<"none", "reduce", "probe", "subsume", "elim", "decide">>

TurnNumber(t) == CHOOSE k \in DOMAIN Turns : Turns[k] = t

Ready == phase = "search" /\ ~s.unsat /\ s.conflict = NoReason /\ s.propagated = Len(s.trail)

\* satisfied
AllAssigned == Len(s.trail) = s.max_var

SatInit ==
  /\ formula \in Formulas
  /\ s = EmptySolver
  /\ phase = "adding" /\ added = 0
  /\ turn = "decide" /\ restarted = TRUE
  /\ reduces = 0 /\ restarts = 0

\* add_clause: the variables of a literal come to exist when it is added.
AddClause ==
  /\ phase = "adding" /\ added < Len(formula)
  /\ LET c == formula[added + 1]
         t == FoldLeft(LAMBDA u, l : InitVars(u, Var(l)), s, c)
     IN  s' = AddOriginal(t, [k \in DOMAIN c |-> Sign(c[k]) * t.e2i[Var(c[k])]])
  /\ added' = added + 1
  /\ UNCHANGED <<formula, phase, turn, restarted, reduces, restarts>>

\* solve, up to the search: there is no step of the schedule before a conflict.
Solve ==
  /\ phase = "adding" /\ added = Len(formula)
  /\ LET t == CASE s.unsat -> s
               [] ~s.unsat /\ s.clashing -> LearnEmpty(s)
               [] OTHER -> Settled(s)
     IN  s' = IF t.unsat THEN t ELSE GarbageCollection(t, {})
  /\ phase' = "search"
  /\ UNCHANGED <<formula, added, turn, restarted, reduces, restarts>>

AnswerUnsat ==
  /\ phase = "search" /\ s.unsat
  /\ phase' = "unsat"
  /\ UNCHANGED <<formula, s, added, turn, restarted, reduces, restarts>>

Propagating ==
  /\ phase = "search" /\ ~s.unsat /\ s.conflict = NoReason
  /\ s.propagated < Len(s.trail)
  /\ s' = Propagate(s)
  /\ UNCHANGED <<formula, phase, added, turn, restarted, reduces, restarts>>

Analyzing ==
  /\ phase = "search" /\ ~s.unsat /\ s.conflict # NoReason
  /\ s' = Analyze(s)
  /\ turn' = "none" /\ restarted' = FALSE
  /\ UNCHANGED <<formula, phase, added, reduces, restarts>>

AnswerSat ==
  /\ Ready /\ AllAssigned
  /\ s' = [s EXCEPT !.model = Extended(s)]
  /\ phase' = "sat"
  /\ UNCHANGED <<formula, added, turn, restarted, reduces, restarts>>

\* restarting: at most once for a conflict.
Restarting ==
  /\ Ready /\ ~AllAssigned
  /\ Level(s) >= 2 /\ ~restarted /\ restarts < MaxRestarts
  /\ s' = Restart(s)
  /\ restarted' = TRUE /\ restarts' = restarts + 1
  /\ UNCHANGED <<formula, phase, added, turn, reduces>>

\* A step of the schedule comes after those before it, and but for reduce only
\* after a reduce for the same conflict.
Scheduled(t) ==
  /\ Ready /\ ~AllAssigned
  /\ turn # "none" /\ TurnNumber(turn) < TurnNumber(t)
  /\ turn' = t
  /\ UNCHANGED <<formula, phase, added, restarted, reduces, restarts>>

Reducing ==
  /\ Ready /\ ~AllAssigned
  /\ turn = "none" /\ reduces < MaxReduces
  /\ s' = Reduce(s)
  /\ turn' = "reduce" /\ reduces' = reduces + 1
  /\ UNCHANGED <<formula, phase, added, restarted, restarts>>

Probing == Scheduled("probe") /\ \E n \in Efforts : s' = Probe(s, n)

Subsuming == Scheduled("subsume") /\ \E n, m \in Efforts : s' = Subsume(s, n, m)

Eliminating == Scheduled("elim") /\ \E n, m \in Efforts : s' = Elim(s, n, m)

\* compactifying: at the root after a conflict, if a variable can be dropped (at
\* least opts.compactmin are inactive in the code).
Compacting ==
  /\ Ready /\ ~AllAssigned
  /\ Level(s) = 0
  /\ turn # "decide" \/ restarts > 0
  /\ Cardinality(Left(s)) < s.max_var
  /\ s' = Compact(s)
  /\ UNCHANGED <<formula, phase, added, turn, restarted, reduces, restarts>>

Deciding ==
  /\ Ready /\ ~AllAssigned
  /\ s' = Decide(s)
  /\ turn' = "decide"
  /\ UNCHANGED <<formula, phase, added, restarted, reduces, restarts>>

Answered == phase \in {"sat", "unsat"} /\ UNCHANGED vars

SatNext ==
  \/ AddClause \/ Solve
  \/ AnswerUnsat \/ Propagating \/ Analyzing \/ AnswerSat
  \/ Restarting \/ Reducing \/ Probing \/ Subsuming \/ Eliminating
  \/ Compacting \/ Deciding
  \/ Answered

SatSpec == SatInit /\ [][SatNext]_vars

------------------------------------------------------------------------------
LiveClauses == {id \in ToSet(s.clauses) : Live(s, id)}

\* Propagation misses nothing (propagate and the watches, after whatever moved
\* them: backtracking, collection, inprocessing): before a decision every clause
\* is satisfied or has two unassigned literals.
NothingMissed ==
  Ready => \A id \in LiveClauses :
    \/ Satisfied(s, id)
    \/ Cardinality({l \in ToSet(LitsOf(s, id)) : Val(s, l) = 0}) >= 2

\* The clause that forced a literal is still there, one of its two watched literals
\* is that literal, and its others became false before: what analyze resolves with
\* and protect_reasons must keep.
ReasonsHold ==
  phase = "search" => \A k \in DOMAIN s.trail :
    LET l == s.trail[k]
        r == ReasonOf(s, l)
        c == LitsOf(s, r)
    IN  LevelOf(s, l) > 0 /\ r # NoReason =>
          /\ Contains(s.clauses, r)
          /\ l \in {c[1], c[2]}
          /\ \A o \in ToSet(c) \ {l} : Val(s, o) < 0 /\ TrailOf(s, o) < TrailOf(s, l)

\* next_decision_variable searches backwards from queue.unassigned only: no
\* unassigned variable is behind it, and the queue is sorted by the time of the
\* last bump, which backtrack compares.
QueueInOrder ==
  phase = "search" =>
    LET at(v) == SelectInSeq(s.queue, LAMBDA u : u = v)
    IN  /\ \A j, k \in DOMAIN s.queue : j < k => s.btab[s.queue[j]] < s.btab[s.queue[k]]
        /\ \A v \in Vars(s) : s.vals[v] = 0 => at(v) \in 1 .. at(s.unassigned)

------------------------------------------------------------------------------
Assignments(vs) == [vs -> {-1, 1}]

Makes(a, l) == Sign(l) * a[Var(l)] > 0

ExternalVars == UNION {{Var(l) : l \in ToSet(formula[k])} : k \in DOMAIN formula}

IsModel(a) == \A k \in DOMAIN formula : \E l \in ToSet(formula[k]) : Makes(a, l)

Satisfiable == \E a \in Assignments(ExternalVars) : IsModel(a)

\* The assignments of the internal variables that satisfy the irredundant clauses
\* and the units at the root.
Remaining ==
  {a \in Assignments(Vars(s)) :
     /\ \A l \in ToSet(s.trail) : LevelOf(s, l) = 0 => Makes(a, l)
     /\ \A id \in LiveClauses : ~s.db[id].redundant =>
          \E l \in ToSet(LitsOf(s, id)) : Makes(a, l)}

\* What solve answers is right: the values get_value reads satisfy every clause
\* that was added, and there are none if the answer is unsatisfiable.
AnswerIsRight ==
  /\ phase = "sat" => IsModel(s.model)
  /\ phase = "unsat" => ~Satisfiable

\* Before a decision after a conflict or a step of the schedule: the clauses and
\* the units do not change anywhere else.
Changed == Ready /\ turn # "decide"

\* Nothing that was removed is lost (elimination, substitution, subsumption, the
\* renumbering of compact): every assignment that satisfies what is left extends
\* to a model of the formula, and there is one if the formula has a model.
ModelsAreKept ==
  Changed =>
    /\ \A a \in Remaining : IsModel(Extended([s EXCEPT !.vals = a]))
    /\ Satisfiable => Remaining # {}

\* A redundant clause may be dropped at any time: it follows from the irredundant
\* ones (reduce drops it, subsume_clause and the other steps that remove an
\* irredundant clause for it must make it irredundant).
RedundantIsImplied ==
  Changed =>
    \A a \in Remaining, id \in LiveClauses :
      s.db[id].redundant => \E l \in ToSet(LitsOf(s, id)) : Makes(a, l)

\* Every conflict makes progress, which is why solve returns: the clause learned
\* has no literal that is decided at the root, and no clause at hand subsumes it.
\* A propagation that missed something before a decision would break this.
LearnsNew ==
  [][s.conflict # NoReason /\ Level(s) > 0 /\ ~s'.unsat =>
       LET learned == IF s'.next > s.next THEN ToSet(LitsOf(s', s.next))
                      ELSE {s'.trail[Len(s'.trail)]}
       IN  /\ \A l \in learned : Fixed(s, l) = 0
           /\ \A id \in LiveClauses : ~(ToSet(LitsOf(s, id)) \subseteq learned)]_vars
==============================================================================
