------------------------------ MODULE SatSubsume ------------------------------
(***************************************************************************)
(* Removing clauses at the root: those another clause subsumes or          *)
(* strengthens (subsume_round), irredundant clauses and literals that      *)
(* propagation shows to be superfluous (vivify), and binary clauses that   *)
(* are transitive (transred).                                              *)
(***************************************************************************)
EXTENDS SatProbe

------------------------------------------------------------------------------
\* What clause E does to clause C: it subsumes it, or all but one of its literals
\* are in C, the negation of that one, too, so that C can be strengthened.
Subsumes(E, C) == E \subseteq C

Strengthens(E, C) == \E l \in E : E \ C = {l} /\ -l \in C

\* The subsuming candidates for a clause as they are tried: for each of its added
\* literals and both signs the binary clauses, then the others connected to it.
Candidates(acc, id) ==
  LET s     == acc.s
      added == SelectSeq(LitsOf(s, id), LAMBDA l : Var(l) \in s.added)
      lits  == FlattenSeq([k \in DOMAIN added |-> <<-added[k], added[k]>>])
      of(l) == [k \in DOMAIN acc.bins[l] |->
                  [lits |-> {l, acc.bins[l][k]}, id |-> NoReason, at |-> l]]
               \o [k \in DOMAIN acc.occs[l] |->
                  [lits |-> ToSet(LitsOf(s, acc.occs[l][k])), id |-> acc.occs[l][k], at |-> l]]
  IN  FlattenSeq([k \in DOMAIN lits |-> of(lits[k])])

\* Mutant: the subsuming clause stays redundant.
SubsumeRedundantly(s, by, id) == IF by = id THEN s ELSE MarkGarbage(s, id)

\* subsume_clause: a redundant clause becomes irredundant in place of another.
SubsumeClause(s, by, id) ==
  LET t == MarkGarbage(s, id)
  IN  IF by = NoReason \/ s.db[id].redundant \/ ~s.db[by].redundant THEN t
      ELSE [t EXCEPT !.db[by].redundant = FALSE]

\* strengthen_clause
StrengthenClause(s, id, l) ==
  LET t == Shrunken(s, id, SelectSeq(LitsOf(s, id), LAMBDA k : k # l))
  IN  MarkAddedIfKept([t EXCEPT !.db[id].used = TRUE,
        !.removed = IF s.db[id].redundant THEN @ ELSE @ \cup {Var(l)}], id)

\* A long clause that strengthens through its literal -l is no longer connected to
\* that literal.
SubsumeBy(acc, id, C, e) ==
  LET l    == CHOOSE l \in e.lits \ C : TRUE
      drop == e.id # NoReason /\ -e.at \in C
  IN  IF Subsumes(e.lits, C) THEN [acc EXCEPT !.s = SubsumeClause(@, e.id, id)]
      ELSE [acc EXCEPT !.s = StrengthenClause(@, id, -l),
                       !.shrunken = Append(@, id),
                       !.occs[e.at] = IF drop THEN SelectSeq(@, LAMBDA x : x # e.id) ELSE @]

SubsumeByFirst(acc, id, C, hits) == IF hits = <<>> THEN acc ELSE SubsumeBy(acc, id, C, hits[1])

\* try_to_subsume_clause. Connected clauses are never garbage.
TryToSubsume(acc, id) ==
  LET C == ToSet(LitsOf(acc.s, id))
  IN  SubsumeByFirst(acc, id, C,
        SelectSeq(Candidates(acc, id), LAMBDA e : Subsumes(e.lits, C) \/ Strengthens(e.lits, C)))

\* A clause all of whose variables were added is connected to the first of its
\* literals with the fewest connected clauses (of those, with the most scheduled
\* ones). The limits on their number
\* (subsumeocclim, subsumebinlim) are out of reach.
ConnectTo(acc, id, k) ==
  LET s    == acc.s
      lits == LitsOf(s, id)
      value(l) == IF Val(s, l) = 0 THEN 0 ELSE 1
      less(a, b) == \/ value(a) < value(b)
                    \/ /\ value(a) = value(b)
                       /\ \/ acc.noccs[a] < acc.noccs[b]
                          \/ acc.noccs[a] = acc.noccs[b] /\ Var(a) < Var(b)
  IN  IF Len(lits) = 2 /\ ~s.db[id].redundant
      THEN [acc EXCEPT !.bins[lits[k]] = Append(@, lits[3 - k])]
      ELSE [acc EXCEPT !.occs[lits[k]] = Append(@, id), !.s.db[id].lits = Sorted(lits, less)]

Connect(acc, id) ==
  LET s    == acc.s
      lits == LitsOf(s, id)
      size(l) == Len(IF Len(lits) = 2 /\ ~s.db[id].redundant THEN acc.bins[l] ELSE acc.occs[l])
      before(j, k) == \/ size(lits[j]) < size(lits[k])
                      \/ /\ size(lits[j]) = size(lits[k])
                         /\ \/ acc.noccs[lits[j]] > acc.noccs[lits[k]]
                            \/ acc.noccs[lits[j]] = acc.noccs[lits[k]] /\ j < k
  IN  IF Live(s, id) /\ VarsOf(s, id) \subseteq s.added
      THEN ConnectTo(acc, id, CHOOSE k \in DOMAIN lits : \A j \in DOMAIN lits \ {k} : before(k, j))
      ELSE acc

SubsumeOrConnect(acc, id) ==
  Connect(IF Len(LitsOf(acc.s, id)) > 2 THEN TryToSubsume(acc, id) ELSE acc, id)

FinishSubsuming(acc) ==
  FoldLeft(MarkAdded, [acc.s EXCEPT !.added = {}, !.subsumed = TRUE], acc.shrunken)

SubsumeScheduled(s, schedule) ==
  LET none == [l \in Lits(s) |-> <<>>]
  IN  FinishSubsuming(
        FoldLeft(SubsumeOrConnect,
                 [s |-> s, bins |-> none, occs |-> none, shrunken |-> <<>>,
                  noccs |-> [l \in Lits(s) |->
                    Cardinality({id \in ToSet(schedule) : l \in ToSet(LitsOf(s, id))})]],
                 schedule))

\* subsume_round, without the limit on the size of a clause (subsumeclslim). Only
\* clauses with two added variables and without an assigned one are tried.
SubsumeRound(s) ==
  LET tried(id) == /\ Live(s, id) /\ LikelyToBeKept(s, id)
                   /\ \A l \in ToSet(LitsOf(s, id)) : Val(s, l) = 0
                   /\ Cardinality(VarsOf(s, id) \cap s.added) >= 2
  IN  SubsumeScheduled(s, Sorted(SelectSeq(s.clauses, tried),
                                 LAMBDA a, b : Len(LitsOf(s, a)) < Len(LitsOf(s, b))))

------------------------------------------------------------------------------
\* transred for the irredundant or redundant binary clause id: a breadth-first
\* search over the other binary clauses, the irredundant ones only if id is one.
TransredStep(s, id, dst, acc, w) ==
  CASE \/ acc.found # "none"
       \/ ~w.binary \/ w.clause = id \/ ~Live(s, w.clause)
       \/ ~s.db[id].redundant /\ w.redundant -> acc
    [] OTHER ->
         CASE w.blit = dst -> [acc EXCEPT !.found = "transitive"]
           [] w.blit # dst /\ Contains(acc.work, w.blit) -> acc
           [] w.blit # dst /\ Contains(acc.work, -w.blit) -> [acc EXCEPT !.found = "failed"]
           [] OTHER -> [acc EXCEPT !.work = Append(@, w.blit)]

RECURSIVE TransredSearch(_, _, _, _, _)
TransredSearch(s, id, dst, acc, k) ==
  IF acc.found # "none" \/ k > Len(acc.work) THEN acc.found
  ELSE TransredSearch(s, id, dst,
         FoldLeft(LAMBDA a, w : TransredStep(s, id, dst, a, w), acc, s.watches[-acc.work[k]]),
         k + 1)

TransredFound(s, id, src, found) ==
  CASE found = "none" -> s
    [] found = "transitive" -> MarkGarbage(s, id)
    [] found = "failed" -> Settled(AssignUnit(s, -src))

TransredFrom(s, id, src, dst) ==
  TransredFound([s EXCEPT !.db[id].transred = TRUE], id, src,
                TransredSearch(s, id, dst, [work |-> <<src>>, found |-> "none"], 1))

TransredClause(s, id) ==
  LET a == LitsOf(s, id)[1]
      b == LitsOf(s, id)[2]
      swap == Len(s.watches[a]) < Len(s.watches[b])
  IN  CASE s.unsat -> s
        [] ~s.unsat /\ (Val(s, a) # 0 \/ Val(s, b) # 0) -> [s EXCEPT !.db[id].transred = TRUE]
        [] OTHER -> TransredFrom(s, id, IF swap THEN -b ELSE -a, IF swap THEN a ELSE b)

TransredSome(s, n, ids) == FoldLeft(TransredClause, s, SubSeq(ids, 1, Smaller(n, Len(ids))))

\* The clauses left from the last time, or all of them again.
TransredLeft(s, n, due, left) ==
  IF left # <<>> THEN TransredSome(s, n, left)
  ELSE TransredSome([s EXCEPT !.db = [id \in DOMAIN @ |-> [@[id] EXCEPT !.transred = FALSE]]],
                    n, due)

TransredDue(s, n, due) ==
  TransredLeft(s, n, due, SelectSeq(due, LAMBDA id : ~s.db[id].transred))

\* transred for at most n clauses. The limit on the steps lets at least one through.
Transred(s, n) ==
  IF s.unsat THEN s
  ELSE TransredDue(SortWatches(Backtrack(s, 0)), n,
                   SelectSeq(s.clauses, LAMBDA id :
                     /\ Live(s, id) /\ Len(LitsOf(s, id)) = 2
                     /\ ~(s.db[id].redundant /\ s.db[id].hbr)))
==============================================================================
