------------------------------- MODULE SatProbe -------------------------------
(***************************************************************************)
(* Probing at the root: equivalent literals are substituted (decompose),   *)
(* duplicated binary clauses removed, and literals that fail refuted, with *)
(* hyper binary resolution on the way.                                     *)
(***************************************************************************)
EXTENDS SatSearch

------------------------------------------------------------------------------
\* decompose_round works on the implications between active literals that the
\* watches of the binary clauses hold, those of garbage clauses included.
Implications(s, l) ==
  {k \in {w.blit : w \in {w \in ToSet(s.watches[-l]) : w.binary}} : Active(s, k)}

RECURSIVE Reached(_, _)
Reached(s, S) ==
  LET T == S \cup UNION {Implications(s, l) : l \in S}
  IN  IF T = S THEN S ELSE Reached(s, T)

\* The literals of the strongly connected component of every active literal.
Components(s) ==
  LET active  == {l \in Lits(s) : Active(s, l)}
      reached == [l \in active |-> Reached(s, {l})]
  IN  [l \in active |-> {k \in reached[l] : l \in reached[k]}]

\* The representative has the smallest variable; 0 for a literal not active.
Representatives(s, comps) ==
  [l \in Lits(s) |-> IF l \notin DOMAIN comps THEN 0
                     ELSE CHOOSE r \in comps[l] : \A k \in comps[l] : Var(r) <= Var(k)]

\* The clause id after substitution, in a record with its case.
Substituted(s, repr, id) ==
  LET lits == LitsOf(s, id)
      open == Distinct(SelectSeq([k \in DOMAIN lits |->
                IF Val(s, lits[k]) = 0 THEN repr[lits[k]] ELSE 0],
                LAMBDA r : r # 0 /\ Val(s, r) >= 0))
  IN  IF \/ \E l \in ToSet(lits) : Val(s, l) > 0
         \/ \E r \in ToSet(open) : Val(s, r) > 0 \/ -r \in ToSet(open)
      THEN [satisfied |-> TRUE, lits |-> <<>>]
      ELSE [satisfied |-> FALSE, lits |-> open]

\* The k-th clause: satisfied clauses become garbage at the end only. A clause
\* whose watches change is replaced by a new one in its place.
ReplaceClause(s, k, id, lits) ==
  MarkGarbage([NewClauseAs(s, lits, id) EXCEPT !.clauses[k] = s.next,
                                               !.clauses[Len(s.clauses) + 1] = id], id)

Rewrite(s, id, lits) ==
  MarkAddedIfKept(IF Len(lits) < Len(LitsOf(s, id)) THEN Shrunken(s, id, lits)
                  ELSE [s EXCEPT !.db[id].lits = lits], id)

SubstituteAs(acc, k, id, sub) ==
  LET s   == acc.s
      old == LitsOf(s, id)
      n   == Len(sub.lits)
  IN  CASE sub.satisfied -> [acc EXCEPT !.postponed = Append(@, id)]
        [] ~sub.satisfied /\ n = 0 -> [acc EXCEPT !.s = LearnEmpty(s)]
        [] ~sub.satisfied /\ n = 1 ->
             [acc EXCEPT !.s = MarkGarbage(AssignUnit(s, sub.lits[1]), id)]
        [] OTHER ->
             [acc EXCEPT !.s = IF SubSeq(old, 1, 2) = SubSeq(sub.lits, 1, 2)
                               THEN Rewrite(s, id, sub.lits) ELSE ReplaceClause(s, k, id, sub.lits)]

SubstituteIn(acc, repr, k) ==
  LET s  == acc.s
      id == s.clauses[k]
  IN  IF s.unsat \/ ~Live(s, id) \/ (\A l \in ToSet(LitsOf(s, id)) : repr[l] = l) THEN acc
      ELSE SubstituteAs(acc, k, id, Substituted(s, repr, id))

\* What is left of a substituted variable are the two binary clauses with which
\* extend computes its value.
Replaced(s, repr, v) ==
  LET o == repr[v]
  IN  IF ~Active(s, v) \/ o = v THEN s
      ELSE [s EXCEPT !.status[v] = IF s.status[Var(o)] = "fixed" THEN @ ELSE "substituted",
                     !.extension = @ \o <<<<-s.i2e[v], Externalize(s, o)>>,
                                          <<s.i2e[v], -Externalize(s, o)>>>>]

ReplaceVars(s, repr) ==
  IF s.unsat THEN s ELSE FoldLeft(LAMBDA a, v : Replaced(a, repr, v), s, [v \in Vars(s) |-> v])

DropSatisfied(acc) ==
  IF acc.s.unsat THEN acc.s ELSE Settled(FoldLeft(MarkGarbage, acc.s, acc.postponed))

SubstituteAll(s, repr) ==
  ReplaceVars(DropSatisfied(FoldLeft(LAMBDA a, k : SubstituteIn(a, repr, k),
                                    [s |-> s, postponed |-> <<>>],
                                    [k \in DOMAIN s.clauses |-> k])),
             repr)

SubstituteUnlessTrivial(s, repr) ==
  IF \A l \in DOMAIN repr : repr[l] \in {0, l} THEN s ELSE SubstituteAll(s, repr)

DecomposeWith(s, comps) ==
  LET bad == {l \in DOMAIN comps : -l \in comps[l]}
  IN  IF bad # {} THEN LearnEmpty(AssignUnit(s, CHOOSE l \in bad : TRUE))
      ELSE SubstituteUnlessTrivial(s, Representatives(s, comps))

\* decompose with opts.decomposerounds = 1. If a literal and its negation are
\* equivalent, one of them is assigned and the empty clause learned.
Decompose(s) == FlushWatches(DecomposeWith(s, Components(s)), {})

------------------------------------------------------------------------------
\* mark_duplicated_binary_clauses_as_garbage, one watch of l: of two clauses with
\* the same literals an irredundant one stays; l, k and l, -k make l a unit. The
\* first of kept that has the literal k is at seen(k).
DropDuplicate(l, acc, w) ==
  LET s     == acc.s
      seen(k) == {j \in DOMAIN acc.kept :
                    LET x == acc.kept[j] IN x.binary /\ x.blit = k /\ Live(s, x.clause)}
      drop(id, kept) == [acc EXCEPT !.s = MarkGarbage(s, id), !.kept = kept]
  IN  CASE acc.unit # 0 -> acc
        [] acc.unit = 0 /\ w.binary /\ seen(w.blit) # {} ->
             LET j == CHOOSE j \in seen(w.blit) : TRUE
             IN  CASE ~Live(s, w.clause) -> acc
                   [] s.db[w.clause].redundant -> drop(w.clause, acc.kept)
                   [] OTHER -> drop(acc.kept[j].clause, [acc.kept EXCEPT ![j] = w])
        [] acc.unit = 0 /\ w.binary /\ seen(w.blit) = {} /\ seen(-w.blit) # {} ->
             [acc EXCEPT !.unit = l, !.kept = <<>>]
        [] OTHER -> [acc EXCEPT !.kept = Append(@, w)]

StoreKept(acc, l) == [acc EXCEPT !.s.watches[l] = acc.kept, !.kept = <<>>]

DropDuplicates(acc, l) ==
  IF acc.unit # 0 THEN acc
  ELSE StoreKept(FoldLeft(LAMBDA a, w : DropDuplicate(l, a, w), acc, acc.s.watches[l]), l)

SettleUnit(acc) == IF acc.unit = 0 THEN acc.s ELSE Settled(AssignUnit(acc.s, acc.unit))

DeduplicateVar(s, v) ==
  IF s.unsat \/ ~Active(s, v) THEN s
  ELSE SettleUnit(DropDuplicates(DropDuplicates([s |-> s, kept |-> <<>>, unit |-> 0], -v), v))

Deduplicate(s) == FoldLeft(DeduplicateVar, s, [v \in Vars(s) |-> v])

------------------------------------------------------------------------------
\* While probing, the reason of a variable is the literal its positive literal is
\* implied by (union of reason and parent); phases are not saved.
Parent(s, l) == Sign(l) * ReasonOf(s, l)

ProbeAssign(s, l, parent) == [Assign(s, l, Sign(l) * parent) EXCEPT !.phases = s.phases]

\* probe_dominator
RECURSIVE Dominator(_, _, _)
Dominator(s, a, b) ==
  LET l == IF TrailOf(s, a) > TrailOf(s, b) THEN b ELSE a
      k == IF l = a THEN b ELSE a
  IN  IF a = b \/ Parent(s, l) = 0 THEN l ELSE Dominator(s, l, Parent(s, k))

DominatorOf(s, lits) ==
  FoldLeft(LAMBDA d, l : Dominator(s, d, l), lits[1], Tail(lits))

\* The clause of -dom and the first literal of clause id, which it replaces if -dom
\* is one of the others.
HyperBinary(s, id, dom, in) ==
  LET red == ~in \/ s.db[id].redundant
      t   == [NewWatchedClause(s, <<-dom, LitsOf(s, id)[1]>>, red, 2)
                EXCEPT !.db[s.next].hbr = red]
  IN  IF in THEN MarkGarbage(t, id) ELSE t

AssignDominated(s, id, rest, dom) ==
  ProbeAssign(IF Len(rest) = 1 THEN s
              ELSE HyperBinary(s, id, dom, Contains(Tail(LitsOf(s, id)), -dom)),
              LitsOf(s, id)[1], dom)

\* hyper_binary_resolve for a clause all of whose literals but the first are
\* false: the dominator of these implies the first, which is assigned.
HyperBinaryResolve(s, id) ==
  LET rest == SelectSeq(Tail(LitsOf(s, id)), LAMBDA l : LevelOf(s, l) > 0)
  IN  AssignDominated(s, id, rest, DominatorOf(s, [k \in DOMAIN rest |-> -rest[k]]))

\* probagate2: the binary clauses first.
RECURSIVE Probagate2(_)
Probagate2(s) ==
  LET l == -s.trail[s.probagated2 + 1]
      visit(t, w) ==
        CASE t.conflict # NoReason \/ ~w.binary \/ Val(t, w.blit) > 0 -> t
          [] t.conflict = NoReason /\ w.binary /\ Val(t, w.blit) < 0 ->
               [t EXCEPT !.conflict = w.clause]
          [] OTHER -> ProbeAssign(t, w.blit, -l)
  IN  IF s.conflict # NoReason \/ s.probagated2 = Len(s.trail) THEN s
      ELSE Probagate2(FoldLeft(visit, [s EXCEPT !.probagated2 = @ + 1], s.watches[l]))

ForceInProbe(s, id) ==
  Probagate2(IF Level(s) = 1 THEN HyperBinaryResolve(s, id)
             ELSE ProbeAssign(s, LitsOf(s, id)[1], 0))

ProbeForcing(acc) ==
  IF acc.unit = NoReason THEN acc
  ELSE [acc EXCEPT !.unit = NoReason, !.s = ForceInProbe(@, acc.unit)]

ProbeWatch(l, acc, w) ==
  IF acc.stop \/ w.binary \/ Val(acc.s, w.blit) > 0 \/ ~Live(acc.s, w.clause)
  THEN Keep(acc, acc.s, w)
  ELSE ProbeForcing(VisitLong(l, acc, w))

\* probagate
RECURSIVE Probagate(_)
Probagate(s) ==
  CASE s.conflict # NoReason -> s
    [] s.conflict = NoReason /\ s.probagated2 < Len(s.trail) -> Probagate(Probagate2(s))
    [] s.conflict = NoReason /\ s.probagated2 = Len(s.trail) ->
         IF s.probagated = Len(s.trail) THEN s
         ELSE Probagate(VisitedList([s EXCEPT !.probagated = @ + 1],
                                    -s.trail[s.probagated + 1], ProbeWatch))

\* packtrack: the queue needs no update, as the search had all these unassigned.
Packtrack(s) ==
  LET size == TrailOf(s, s.control[1])
      gone == {Var(s.trail[k]) : k \in size + 1 .. Len(s.trail)}
  IN  [s EXCEPT !.vals = [v \in DOMAIN @ |-> IF v \in gone THEN 0 ELSE @[v]],
                !.trail = SubSeq(@, 1, size), !.control = <<>>,
                !.probagated = Smaller(@, size), !.probagated2 = Smaller(@, size)]

\* The literals above l up to the probe, which comes first.
RECURSIVE Ancestors(_, _)
Ancestors(s, l) ==
  IF Parent(s, l) = 0 THEN <<>> ELSE Append(Ancestors(s, Parent(s, l)), Parent(s, l))

Refuted(s, l) ==
  CASE s.unsat \/ Val(s, l) < 0 -> s
    [] ~s.unsat /\ Val(s, l) > 0 -> LearnEmpty(s)
    [] OTHER -> Concluded(Probagate(ProbeAssign(s, -l, 0)))

RefuteAll(s, uip) ==
  FoldLeft(Refuted, [Packtrack(s) EXCEPT !.conflict = NoReason], <<uip>> \o Ancestors(s, uip))

\* failed_literal
FailedLiteral(s) ==
  LET lits == SelectSeq(LitsOf(s, s.conflict), LAMBDA l : LevelOf(s, l) > 0)
  IN  RefuteAll(s, DominatorOf(s, [k \in DOMAIN lits |-> -lits[k]]))

------------------------------------------------------------------------------
\* generate_probes: the roots of the binary implication graph.
GenerateProbes(s) ==
  LET ids   == {id \in ToSet(s.clauses) : Live(s, id) /\ Len(LitsOf(s, id)) = 2}
      noccs == [l \in Lits(s) |-> Cardinality({id \in ids : Contains(LitsOf(s, id), l)})]
      roots == {l \in Lits(s) : noccs[l] = 0 /\ noccs[-l] > 0}
      less(a, b) == noccs[-a] < noccs[-b] \/ (noccs[-a] = noccs[-b] /\ Var(a) > Var(b))
  IN  [s EXCEPT !.probes = SortedSet(roots, less)]

\* The last probe that is active and for which units are new since it was
\* assigned the last time.
PopProbe(s) ==
  LET due == {k \in DOMAIN s.probes : Active(s, s.probes[k])
                                      /\ s.ptab[s.probes[k]] < s.fixed_count}
      k   == CHOOSE k \in due \cup {0} : \A j \in due : j <= k
  IN  [s |-> [s EXCEPT !.probes = SubSeq(@, 1, k - 1)],
       probe |-> IF k = 0 THEN 0 ELSE s.probes[k]]

\* next_probe
NextProbe(popped) == IF popped.probe # 0 THEN popped ELSE PopProbe(GenerateProbes(popped.s))

Probed(s) == IF s.conflict = NoReason THEN Packtrack(s) ELSE FailedLiteral(s)

ProbeLit(next) ==
  IF next.probe = 0 THEN next.s
  ELSE Probed(Probagate(ProbeAssign([next.s EXCEPT !.control = <<next.probe>>], next.probe, 0)))

\* The loop of probe_core for at most n probes: the limit on the propagations
\* lets at least one through.
ProbeSome(s, n) ==
  FoldLeft(LAMBDA t, k : IF t.unsat THEN t ELSE ProbeLit(NextProbe(PopProbe(t))),
           s, [k \in 1 .. n |-> k])

SortUnlessUnsat(s) == IF s.unsat THEN s ELSE SortWatches(s)

PropagateUnits(s) ==
  IF s.unsat \/ s.propagated = Len(s.trail) THEN s ELSE SortUnlessUnsat(Settled(s))

\* probe_core
ProbeCore(s, n) ==
  PropagateUnits(ProbeSome([s EXCEPT !.probagated = Len(s.trail),
                                     !.probagated2 = Len(s.trail)], n))

DecomposeAgain(s) == IF s.unsat THEN s ELSE Decompose(s)

ProbeDecomposed(s, n) ==
  IF s.unsat THEN s ELSE DecomposeAgain(ProbeCore(Deduplicate(s), n))

\* probe
Probe(s, n) == ProbeDecomposed(Decompose(Backtrack(s, 0)), n)
==============================================================================
