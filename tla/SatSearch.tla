------------------------------ MODULE SatSearch -------------------------------
(***************************************************************************)
(* The search of the SAT solver: propagation over the watches, conflict    *)
(* analysis with minimization, bumping, backtracking, decisions and        *)
(* restarts. All of it works on the solver record of SatClauses.           *)
(***************************************************************************)
EXTENDS SatClauses

------------------------------------------------------------------------------
Keep(acc, s, w) == [acc EXCEPT !.s = s, !.kept = Append(@, w)]

\* The places of the literals of clause c that can replace a false watch: from the
\* saved position (if the clause has one), then the others from the third on.
Replacements(s, c) ==
  LET n     == Len(c.lits)
      start == IF c.pos > 0 THEN c.pos ELSE 3
  IN  SelectSeq([k \in 1 .. n + 1 - start |-> start + k - 1]
                  \o [k \in 1 .. start - 3 |-> k + 2],
                LAMBDA k : Val(s, c.lits[k]) >= 0)

SavePos(s, id, k) == [s EXCEPT !.db[id].pos = IF @ > 0 THEN k ELSE @]

\* The first of the places found replaces l. If there is none and the other watch
\* is unassigned, acc.unit is the clause: the caller assigns its first literal.
Rewatch(l, acc, w, found) ==
  LET s    == acc.s
      id   == w.clause
      lits == LitsOf(s, id)
      k    == found[1]
  IN  CASE found = <<>> /\ Val(s, lits[1]) = 0 -> [Keep(acc, s, w) EXCEPT !.unit = id]
        [] found = <<>> /\ Val(s, lits[1]) < 0 ->
             [Keep(acc, [s EXCEPT !.conflict = id], w) EXCEPT !.stop = TRUE]
        [] OTHER ->
             IF Val(s, lits[k]) > 0
             THEN Keep(acc, SavePos(s, id, k), [w EXCEPT !.blit = lits[k]])
             ELSE [acc EXCEPT !.s =
                     WatchLiteral([SavePos(s, id, k) EXCEPT !.db[id].lits[2] = lits[k],
                                                            !.db[id].lits[k] = l],
                                  lits[k], l, id)]

VisitOrdered(l, acc, w) ==
  LET c == acc.s.db[w.clause]
  IN  IF Val(acc.s, c.lits[1]) > 0 THEN Keep(acc, acc.s, [w EXCEPT !.blit = c.lits[1]])
      ELSE Rewatch(l, acc, w, Replacements(acc.s, c))

\* A long clause watched by the false literal l: its two first literals become
\* the other watch and l.
VisitLong(l, acc, w) ==
  VisitOrdered(l, [acc EXCEPT !.s.db[w.clause].lits =
                     <<@[1] + @[2] - l, l>> \o SubSeq(@, 3, Len(@))], w)

Forcing(acc) ==
  IF acc.unit = NoReason THEN acc
  ELSE [acc EXCEPT !.unit = NoReason, !.s = Assign(@, LitsOf(@, acc.unit)[1], acc.unit)]

\* One watch w of the false literal l. acc holds the solver, the watches of l
\* kept so far and whether the loop was left: the rest of the list then stays.
VisitWatch(l, acc, w) ==
  LET s == acc.s
      b == Val(s, w.blit)
  IN  CASE acc.stop \/ b > 0 -> Keep(acc, s, w)
        [] ~acc.stop /\ b <= 0 /\ ~w.binary /\ s.conflict # NoReason ->
             [Keep(acc, s, w) EXCEPT !.stop = TRUE]
        [] OTHER ->
             CASE ~Live(s, w.clause) -> acc
               [] w.binary /\ b < 0 -> Keep(acc, [s EXCEPT !.conflict = w.clause], w)
               [] w.binary /\ b = 0 -> Keep(acc, Assign(s, w.blit, w.clause), w)
               [] ~w.binary /\ w.clause = s.ignore -> Keep(acc, s, w)
               [] OTHER -> Forcing(VisitLong(l, acc, w))

\* The first n watches of l are those kept. Those added meanwhile come after them.
KeepWatches(acc, l, n) ==
  [acc.s EXCEPT !.watches[l] = acc.kept \o SubSeq(@, n + 1, Len(@))]

\* The watches of l visited by Visit.
VisitedList(s, l, Visit(_, _, _)) ==
  KeepWatches(FoldLeft(LAMBDA a, w : Visit(l, a, w),
                       [s |-> s, kept |-> <<>>, stop |-> FALSE, unit |-> NoReason],
                       s.watches[l]),
              l, Len(s.watches[l]))

PropagateNext(s) ==
  VisitedList([s EXCEPT !.propagated = @ + 1], -s.trail[s.propagated + 1], VisitWatch)

\* propagate: afterwards s.conflict tells whether there was a conflict.
RECURSIVE Propagate(_)
Propagate(s) ==
  IF s.conflict # NoReason \/ s.propagated = Len(s.trail) THEN s
  ELSE Propagate(PropagateNext(s))

\* At the root a conflict means that the formula is unsatisfiable.
Concluded(s) == IF s.conflict = NoReason THEN s ELSE LearnEmpty(s)

Settled(s) == Concluded(Propagate(s))

------------------------------------------------------------------------------
UpdateUnassigned(s, v) == [s EXCEPT !.unassigned = v, !.bumped = s.btab[v]]

\* Mutant: the first of the variables vs is taken.
ReconsiderFirst(s, vs) ==
  LET first == CHOOSE v \in vs : \A u \in vs : s.btab[v] <= s.btab[u]
  IN  IF s.btab[first] > s.bumped THEN UpdateUnassigned(s, first) ELSE s

\* The place to look for a decision becomes the last of the variables vs, if that
\* is a later one.
Reconsider(s, vs) ==
  LET latest == CHOOSE v \in vs : \A u \in vs : s.btab[u] <= s.btab[v]
  IN  IF s.btab[latest] > s.bumped THEN UpdateUnassigned(s, latest) ELSE s

VarsFrom(s, size) == {Var(s.trail[k]) : k \in size + 1 .. Len(s.trail)}

Unassign(s, vs, size) ==
  [s EXCEPT !.vals = [v \in DOMAIN @ |-> IF v \in vs THEN 0 ELSE @[v]],
            !.trail = SubSeq(@, 1, size)]

\* Mutant: the first literal assigned after backtracking counts as propagated.
BacktrackPast(s, size, vs, target) ==
  Reconsider([Unassign(s, vs, size) EXCEPT !.propagated = Smaller(@, size + 1),
                                           !.control = SubSeq(@, 1, target)], vs)

BacktrackTo(s, size, vs, target) ==
  Reconsider([Unassign(s, vs, size) EXCEPT !.propagated = Smaller(@, size),
                                           !.control = SubSeq(@, 1, target)], vs)

\* backtrack
Backtrack(s, target) ==
  LET size == TrailOf(s, s.control[target + 1])
  IN  IF target = Level(s) THEN s ELSE BacktrackTo(s, size, VarsFrom(s, size), target)

------------------------------------------------------------------------------
AboveRoot(s, lits) == {l \in lits : LevelOf(s, l) > 0}

OthersOf(s, id, l) == AboveRoot(s, ToSet(LitsOf(s, id)) \ {l})

\* Mutant: a decision is not counted as open.
ForcedAtLevel(s, lits, level) ==
  {l \in lits : LevelOf(s, l) = level /\ ReasonOf(s, l) # NoReason}

AtLevel(s, lits, level) == {l \in lits : LevelOf(s, l) = level}

\* analyze, the first loop: the false literals lits are resolved with the reasons
\* of the latest of them until one is left on the current level. used are the
\* clauses and analyzed the literals met.
RECURSIVE FirstUip(_, _, _, _)
FirstUip(s, lits, used, analyzed) ==
  LET open   == AtLevel(s, lits, Level(s))
      latest == CHOOSE l \in open : \A k \in open : TrailOf(s, k) <= TrailOf(s, l)
      id     == ReasonOf(s, latest)
      more   == OthersOf(s, id, -latest)
  IN  IF Cardinality(open) = 1
      THEN [lits |-> lits, uip |-> latest, used |-> used, analyzed |-> analyzed]
      ELSE FirstUip(s, (lits \ {latest}) \cup more, used \cup {id}, analyzed \cup more)

\* minimize_literal for the true literal l: the literals of C already imply it.
\* The literals of C are tried in the order of the trail, so that those met in a
\* reason are kept or removed already. opts.minimizedepth is out of reach.
RECURSIVE Implied(_, _, _, _)
Implied(s, C, l, depth) ==
  LET peers == AtLevel(s, C, LevelOf(s, l))
  IN  \/ LevelOf(s, l) = 0
      \/ depth > 0 /\ -l \in C
      \/ /\ ReasonOf(s, l) # NoReason
         /\ LevelOf(s, l) < Level(s)
         /\ depth = 0 => Cardinality(peers) >= 2
         /\ \E k \in peers : TrailOf(s, k) < TrailOf(s, l)
         /\ \A k \in ToSet(LitsOf(s, ReasonOf(s, l))) \ {l} : Implied(s, C, -k, depth + 1)

Minimized(s, C) == {l \in C : ~Implied(s, C, -l, 0)}

\* bump_also_all_reason_literals
ReasonLits(s, C) ==
  UNION {OthersOf(s, ReasonOf(s, l), -l) : l \in {l \in C : ReasonOf(s, l) # NoReason}}

BumpVariable(s, v) ==
  LET t == [s EXCEPT !.queue = Append(SelectSeq(@, LAMBDA u : u # v), v),
                     !.btab[v] = s.stamp + 1, !.stamp = @ + 1]
  IN  CASE s.queue[Len(s.queue)] = v -> s
        [] OTHER -> IF s.vals[v] = 0 THEN UpdateUnassigned(t, v) ELSE t

BumpVariables(s, vs) ==
  FoldLeft(BumpVariable, s, SelectSeq(s.queue, LAMBDA v : v \in vs))

UseClauses(s, ids) ==
  [s EXCEPT !.db = [id \in DOMAIN @ |-> [@[id] EXCEPT !.used = @ \/ id \in ids]]]

\* The learned clause lits, the literals that became false last coming first: the
\* first one, the unique implication point, is assigned after backtracking.
Learn(s, lits, glue) ==
  IF Len(lits) = 1 THEN AssignUnit(Backtrack(s, 0), lits[1])
  ELSE Assign(Backtrack([NewWatchedClause(s, lits, TRUE, glue) EXCEPT !.db[s.next].used = TRUE],
                        LevelOf(s, lits[2])),
              lits[1], s.next)

LearnFrom(s, first, lits) ==
  Learn(BumpVariables(UseClauses(s, first.used),
                      {Var(l) : l \in first.analyzed \cup ReasonLits(s, lits)}),
        SortedSet(lits, LAMBDA k, l : TrailOf(s, k) > TrailOf(s, l)),
        Cardinality({LevelOf(s, l) : l \in first.lits}))

MinimizeAndLearn(s, first) == LearnFrom(s, first, Minimized(s, first.lits))

\* analyze
Analyze(s) ==
  LET C == OthersOf(s, s.conflict, 0)
  IN  IF Level(s) = 0 THEN LearnEmpty(s)
      ELSE [MinimizeAndLearn(s, FirstUip(s, C, {s.conflict}, C)) EXCEPT !.conflict = NoReason]

------------------------------------------------------------------------------
Place(s, v) == CHOOSE k \in DOMAIN s.queue : s.queue[k] = v

\* next_decision_variable: back from queue.unassigned, 0 if nothing is found.
NextDecision(s) ==
  LET free == {k \in 1 .. Place(s, s.unassigned) : s.vals[s.queue[k]] = 0}
  IN  IF free = {} THEN 0 ELSE s.queue[CHOOSE k \in free : \A j \in free : j <= k]

FindDecision(s) ==
  IF NextDecision(s) = s.unassigned THEN s ELSE UpdateUnassigned(s, NextDecision(s))

AssumeDecision(s, l) == AssignUnit([s EXCEPT !.control = Append(@, l)], l)

DecideUnassigned(s) == AssumeDecision(s, s.phases[s.unassigned] * s.unassigned)

Decide(s) == DecideUnassigned(FindDecision(s))

\* reuse_trail: the levels whose decisions would be taken again.
ReuseTrail(s) ==
  LET limit  == s.btab[s.unassigned]
      weaker == SelectInSeq(s.control, LAMBDA l : s.btab[Var(l)] <= limit)
  IN  IF weaker = 0 THEN Level(s) ELSE weaker - 1

BacktrackReusing(s) == Backtrack(s, ReuseTrail(s))

Restart(s) == BacktrackReusing(FindDecision(s))
==============================================================================
