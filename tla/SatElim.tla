------------------------------- MODULE SatElim -------------------------------
(***************************************************************************)
(* Bounded variable elimination, the removal of inactive variables         *)
(* (compact), and the extension of a model to the variables that are gone. *)
(* During a round of elimination e is a record of the solver e.s, the      *)
(* connected clauses e.occs, their counts e.noccs2 and the schedule.       *)
(***************************************************************************)
EXTENDS SatVivify

CONSTANTS
  ElimOccLim,      \* opts.elimocclim: more occurrences keep a variable
  ElimRoundsInit,  \* opts.elimroundsinit: rounds of the first elimination
  ElimRounds       \* opts.elimrounds: and of the later ones

ASSUME ElimAssumption == {ElimOccLim, ElimRoundsInit, ElimRounds} \subseteq Nat \ {0}

------------------------------------------------------------------------------
Connected(e, id) ==
  {l \in ToSet(LitsOf(e.s, id)) : Active(e.s, l) /\ e.occs[l] # <<>>}

\* elim_update_added and elim_update_removed: a variable whose clauses change is
\* scheduled again.
UpdateAdded(e, id) ==
  LET lits == Connected(e, id)
  IN  [e EXCEPT !.occs = [l \in DOMAIN @ |-> IF l \in lits THEN Append(@[l], id) ELSE @[l]],
                !.noccs2 = [v \in DOMAIN @ |-> @[v] + Cardinality(lits \cap {v, -v})],
                !.esched = @ \cup {Var(l) : l \in lits}]

UpdateRemoved(e, id, except) ==
  LET lits == Connected(e, id) \ {except}
  IN  [e EXCEPT !.noccs2 = [v \in DOMAIN @ |-> @[v] - Cardinality(lits \cap {v, -v})],
                !.esched = @ \cup {Var(l) : l \in lits}]

Discarded(u, id) == [u EXCEPT !.s = MarkGarbage(@, id)]

Discard(e, id, except) == Discarded(UpdateRemoved(e, id, except), id)

------------------------------------------------------------------------------
OpenLits(s, id, pivot) ==
  SelectSeq(LitsOf(s, id), LAMBDA l : Var(l) # Var(pivot) /\ Val(s, l) = 0)

Satisfied(s, id) == \E l \in ToSet(LitsOf(s, id)) : Val(s, l) > 0

None(e) == [e |-> e, lits |-> <<>>]

\* The resolvent lits; without literals or with one it is not added.
Resolvent(e, lits) ==
  CASE Len(lits) = 0 -> None([e EXCEPT !.s = LearnEmpty(@)])
    [] Len(lits) = 1 -> None([e EXCEPT !.s = AssignUnit(@, lits[1])])
    [] OTHER -> [e |-> e, lits |-> lits]

\* The literals first of one clause resolved with clause d, the longer one, whose
\* literals after one that clashes are not looked at.
ResolveWith(e, d, pivot, first) ==
  LET s     == e.s
      stops == SelectSeq(LitsOf(s, d), LAMBDA l : Var(l) # Var(pivot) /\
                 (Val(s, l) > 0 \/ (Val(s, l) = 0 /\ -l \in ToSet(first))))
  IN  CASE stops = <<>> ->
             Resolvent(e, first \o SelectSeq(OpenLits(s, d, pivot),
                                             LAMBDA l : l \notin ToSet(first)))
        [] stops # <<>> /\ Val(s, stops[1]) > 0 -> None(Discard(e, d, 0))
        [] OTHER -> None(e)

ResolveOrdered(e, c, d, pivot) ==
  CASE ~Live(e.s, c) \/ ~Live(e.s, d) -> None(e)
    [] Live(e.s, c) /\ Live(e.s, d) /\ Satisfied(e.s, c) -> None(Discard(e, c, 0))
    [] OTHER -> ResolveWith(e, d, pivot, OpenLits(e.s, c, pivot))

\* resolve_clauses: the resolvent of the clauses i and j on the pivot, <<>> if
\* there is none to add. A satisfied clause is removed, a unit assigned.
ResolveClauses(e, i, j, pivot) ==
  IF Len(LitsOf(e.s, i)) > Len(LitsOf(e.s, j)) THEN ResolveOrdered(e, j, i, pivot)
  ELSE ResolveOrdered(e, i, j, pivot)

\* All pairs of a clause with the pivot and one with its negation.
Pairs(e, pivot) ==
  FlattenSeq([i \in DOMAIN e.occs[pivot] |->
    [j \in DOMAIN e.occs[-pivot] |-> <<e.occs[pivot][i], e.occs[-pivot][j]>>]])

\* flush_occs
FlushOccs(e, l) == [e EXCEPT !.occs[l] = SelectSeq(@, LAMBDA id : Live(e.s, id))]

\* elim_resolvents_are_bounded for one pair: needed is the number of resolvents
\* that must still fail for the bound to be met.
Counted(acc, r, bound) ==
  IF r.lits # <<>> THEN [acc EXCEPT !.e = r.e, !.count = @ + 1, !.bounded = acc.count < bound]
  ELSE [acc EXCEPT !.e = r.e, !.needed = @ - 1, !.bounded = ~r.e.s.unsat]

BoundStep(acc, pair, pivot, bound) ==
  IF acc.needed < 0 \/ ~acc.bounded THEN acc
  ELSE Counted(acc, ResolveClauses(acc.e, pair[1], pair[2], pivot), bound)

BoundPairs(e, pivot, needed, bound) ==
  FoldLeft(LAMBDA acc, pair : BoundStep(acc, pair, pivot, bound),
           [e |-> e, needed |-> needed, count |-> 0, bounded |-> TRUE], Pairs(e, pivot))

\* The shorter clauses are tried first if some resolvents have to fail. (No
\* resolvent exceeds opts.elimclslim here.)
Bounded(e, pivot) ==
  LET pos    == Len(e.occs[pivot])
      neg    == Len(e.occs[-pivot])
      needed == pos * neg - (pos + neg)
      short(ids) == IF needed <= 0 THEN ids
                    ELSE Sorted(ids, LAMBDA a, b : Len(LitsOf(e.s, a)) < Len(LitsOf(e.s, b)))
  IN  BoundPairs([e EXCEPT !.occs[pivot] = short(@), !.occs[-pivot] = short(@)],
                 pivot, needed, pos + neg)

AddLits(r) ==
  IF r.lits = <<>> THEN r.e
  ELSE UpdateAdded([r.e EXCEPT !.s = NewClause(@, r.lits, FALSE, 0)], r.e.s.next)

\* elim_add_resolvents for one pair.
AddResolvent(e, pair, pivot) ==
  IF e.s.unsat THEN e ELSE AddLits(ResolveClauses(e, pair[1], pair[2], pivot))

\* mark_eliminated_clauses_as_garbage for one clause: those with the pivot itself
\* are saved for extend.
MarkEliminated(e, id, pivot, save) ==
  LET lits == SelectSeq(LitsOf(e.s, id), LAMBDA l : l # pivot)
      c    == [k \in 1 .. Len(lits) + 1 |->
                 Externalize(e.s, IF k = 1 THEN pivot ELSE lits[k - 1])]
  IN  IF ~Live(e.s, id) THEN e
      ELSE [Discard(e, id, pivot) EXCEPT
              !.s.extension = IF save THEN Append(@, c) ELSE @]

MarkOccs(e, l, save) ==
  [FoldLeft(LAMBDA a, id : MarkEliminated(a, id, l, save), e, e.occs[l]) EXCEPT !.occs[l] = <<>>]

\* Mutant: the clauses of the wrong sign are saved.
MarkOtherSaved(e, pivot) ==
  [MarkOccs(MarkOccs(e, pivot, FALSE), -pivot, TRUE)
     EXCEPT !.s.extension = Append(@, <<-Externalize(e.s, pivot)>>)]

MarkAllEliminated(e, pivot) ==
  [MarkOccs(MarkOccs(e, pivot, TRUE), -pivot, FALSE)
     EXCEPT !.s.extension = Append(@, <<-Externalize(e.s, pivot)>>)]

EliminatePivot(e, pivot) ==
  [IF e.s.unsat THEN e ELSE MarkAllEliminated(e, pivot)
     EXCEPT !.s.status[Var(pivot)] = "eliminated"]

EliminateIfBounded(b, pivot) ==
  IF ~b.bounded THEN b.e
  ELSE EliminatePivot(FoldLeft(LAMBDA a, pair : AddResolvent(a, pair, pivot),
                               b.e, Pairs(b.e, pivot)), pivot)

\* The pivot is the sign with fewer clauses.
EliminateIfRare(e, v) ==
  LET pos   == Len(e.occs[v])
      neg   == Len(e.occs[-v])
      pivot == IF pos > neg THEN -v ELSE v
  IN  IF pos > ElimOccLim \/ neg > ElimOccLim THEN e
      ELSE EliminateIfBounded(Bounded(e, pivot), pivot)

\* try_to_eliminate_variable
TryToEliminate(e, v) ==
  IF ~Active(e.s, v) THEN e ELSE EliminateIfRare(FlushOccs(FlushOccs(e, v), -v), v)

\* The schedule is a heap: the fewest clauses first, then the smallest variable.
RECURSIVE EliminateScheduled(_)
EliminateScheduled(e) ==
  LET v == CHOOSE v \in e.esched : \A u \in e.esched :
             e.noccs2[v] < e.noccs2[u] \/ (e.noccs2[v] = e.noccs2[u] /\ v <= u)
  IN  IF e.s.unsat \/ e.esched = {} THEN e
      ELSE EliminateScheduled(
             TryToEliminate([e EXCEPT !.esched = @ \ {v}, !.s.removed = @ \ {v}], v))

\* mark_redundant_clauses_with_eliminated_variables_as_garbage
DropRedundant(s) ==
  LET gone(id) == /\ Live(s, id) /\ s.db[id].redundant
                  /\ \E v \in VarsOf(s, id) : s.status[v] = "eliminated"
  IN  IF s.unsat THEN s ELSE FoldLeft(MarkGarbage, s, SelectSeq(s.clauses, gone))

\* A satisfied clause is garbage; the variables left in one with false literals
\* count as removed.
ElimPrepare(s, id) ==
  CASE ~Live(s, id) \/ s.db[id].redundant -> s
    [] Live(s, id) /\ ~s.db[id].redundant /\ Satisfied(s, id) -> MarkGarbage(s, id)
    [] OTHER ->
         IF \A l \in ToSet(LitsOf(s, id)) : Val(s, l) = 0 THEN s
         ELSE [s EXCEPT !.removed = @ \cup {v \in VarsOf(s, id) : Active(s, v)}]

Occurrences(s) ==
  LET ids == SelectSeq(s.clauses, LAMBDA id : Live(s, id) /\ ~s.db[id].redundant)
  IN  [l \in Lits(s) |-> SelectSeq(ids, LAMBDA id : l \in ToSet(LitsOf(s, id)))]

\* The variables whose clauses changed are scheduled, unless they occur too often.
ElimSchedule(s, occs) ==
  LET score(v) == IF Active(s, v) THEN Len(occs[v]) + Len(occs[-v]) ELSE 0
      rare(v)  == Active(s, v) /\ score(v) <= ElimOccLim
  IN  [s |-> [s EXCEPT !.removed = {}],
       occs |-> [l \in Lits(s) |-> IF rare(Var(l)) THEN occs[l] ELSE <<>>],
       noccs2 |-> [v \in Vars(s) |-> score(v)], esched |-> {v \in s.removed : rare(v)}]

ElimPrepared(s) ==
  [DropRedundant(EliminateScheduled(ElimSchedule(s, Occurrences(s))).s)
     EXCEPT !.subsumed = FALSE, !.eliminations = 1]

\* elim_round. The garbage collection for more than a megabyte of garbage, and the
\* limit on the size of clauses (elimclslim), are out of reach.
ElimRound(s) == ElimPrepared(FoldLeft(ElimPrepare, s, s.clauses))

Eliminated(s) == {v \in Vars(s) : s.status[v] = "eliminated"}

\* The rounds of elim: a further one follows if variables were eliminated and the
\* subsumption after that removed literals of more variables. acc.more tells so.
ElimMore(s, removed) == [s |-> s, more |-> s.removed # removed]

ElimThenSubsume(s, eliminated) ==
  IF s.unsat \/ Eliminated(s) = eliminated THEN [s |-> s, more |-> FALSE]
  ELSE ElimMore(SubsumeRound(s), s.removed)

ElimNext(acc) == ElimThenSubsume(ElimRound(acc.s), Eliminated(acc.s))

LastRound(acc) == IF acc.more THEN ElimRound(acc.s) ELSE acc.s

\* The last of the rounds is not followed by a subsumption.
ElimAll(s) ==
  LastRound(FoldLeft(LAMBDA a, k : IF a.more THEN ElimNext(a) ELSE a,
                     [s |-> s, more |-> TRUE],
                     [k \in 1 .. (IF s.eliminations = 0 THEN ElimRoundsInit ELSE ElimRounds) - 1
                        |-> k]))

ReconnectUnlessUnsat(s) == IF s.unsat THEN s ELSE Settled(ConnectWatches(s, FALSE))

ElimAfterSubsume(s) == ReconnectUnlessUnsat(ElimAll(ResetWatches(Backtrack(s, 0))))

\* elim: subsume comes first if it has not run since the last time.
Elim(s, n, m) == ElimAfterSubsume(IF s.subsumed THEN s ELSE Subsume(s, n, m))

------------------------------------------------------------------------------
\* compact: the active variables are numbered anew, in the same order, with the
\* first fixed variable standing for all that are fixed.
FirstFixed(s) ==
  LET fixed == {v \in Vars(s) : s.status[v] = "fixed"}
  IN  IF fixed = {} THEN 0 ELSE CHOOSE v \in fixed : \A u \in fixed : v <= u

Left(s) == {v \in Vars(s) : Active(s, v)} \cup ({FirstFixed(s)} \ {0})

\* MAP_LIT for every literal, 0 if it is gone.
Mapping(s, left, first) ==
  LET map(v) == Cardinality({u \in left : u <= v})
  IN  [l \in Lits(s) |->
         CASE Var(l) \in left -> Sign(l) * map(Var(l))
           [] Var(l) \notin left /\ Val(s, l) # 0 ->
                (IF Val(s, l) = s.vals[first] THEN 1 ELSE -1) * map(first)
           [] OTHER -> 0]

ResetQueue(s) ==
  [s EXCEPT !.unassigned = IF s.queue = <<>> THEN 0 ELSE s.queue[Len(s.queue)],
            !.propagated = Len(s.trail)]

\* src lists the variables that are left, map gives their new literals. The queue
\* loses the variables that are gone and the fixed one; queue.bumped stays as it was.
CompactBy(s, src, map, first) ==
  LET new    == DOMAIN src
      lits   == {-v : v \in new} \cup new
      old(l) == Sign(l) * src[Var(l)]
      mapped(f)  == [v \in new |-> f[src[v]]]
      moved(seq) == [k \in DOMAIN seq |-> map[seq[k]]]
      flush(seq) == moved(SelectSeq(seq, LAMBDA l : Var(l) \in ToSet(src)))
  IN  ResetQueue(
        [s EXCEPT !.max_var = Len(src), !.e2i = [x \in DOMAIN @ |-> IF @[x] = 0 THEN 0 ELSE map[@[x]]],
           !.i2e = mapped(@), !.vals = mapped(@), !.phases = mapped(@), !.status = mapped(@),
           !.vtab = mapped([v \in DOMAIN @ |-> IF v = first THEN [@[v] EXCEPT !.trail = 0] ELSE @[v]]),
           !.btab = mapped(@),
           !.added = {v \in new : src[v] \in @}, !.removed = {v \in new : src[v] \in @},
           !.ptab = [l \in lits |-> @[old(l)]],
           !.db = [id \in DOMAIN @ |-> [@[id] EXCEPT !.lits = moved(@)]],
           !.watches = [l \in lits |-> [k \in DOMAIN @[old(l)] |->
                          [@[old(l)][k] EXCEPT !.blit = map[@]]]],
           !.queue = flush(SelectSeq(@, LAMBDA v : v # first)),
           !.trail = flush(@), !.probes = flush(@)])

CompactTo(s, left, first) ==
  CompactBy(s, SortedSet(left, LAMBDA u, v : u < v), Mapping(s, left, first), first)

CompactCollected(s) == CompactTo(s, Left(s), FirstFixed(s))

Compact(s) == CompactCollected(GarbageCollection(s, {}))

------------------------------------------------------------------------------
\* Mutant: the extension stack is read from its bottom.
ExtendedForwards(s) ==
  LET start == [x \in DOMAIN s.e2i |-> IF s.e2i[x] = 0 THEN -1 ELSE Val(s, s.e2i[x])]
      repair(vals, c) ==
        IF \E l \in ToSet(c) : Sign(l) * vals[Var(l)] > 0 THEN vals
        ELSE [vals EXCEPT ![Var(c[1])] = Sign(c[1])]
  IN  FoldLeft(repair, start, s.extension)

\* External::extend: the external values, variables without an internal one being
\* false, repaired backwards along the extension stack.
Extended(s) ==
  LET start == [x \in DOMAIN s.e2i |-> IF s.e2i[x] = 0 THEN -1 ELSE Val(s, s.e2i[x])]
      repair(vals, c) ==
        IF \E l \in ToSet(c) : Sign(l) * vals[Var(l)] > 0 THEN vals
        ELSE [vals EXCEPT ![Var(c[1])] = Sign(c[1])]
  IN  FoldLeft(repair, start, Reverse(s.extension))
==============================================================================
