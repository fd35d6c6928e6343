------------------------------ MODULE SatVivify -------------------------------
(***************************************************************************)
(* Vivification, and the composition of it with subsumption and transitive *)
(* reduction in Internal::subsume: the negated literals of an irredundant  *)
(* clause are decided one after the other while the clause is ignored.     *)
(***************************************************************************)
EXTENDS SatSubsume

------------------------------------------------------------------------------
\* noccs: short clauses count more.
VivifyScore(s) ==
  LET ids == {id \in ToSet(s.clauses) : Live(s, id) /\ ~s.db[id].redundant}
      worth(id) == IF Len(LitsOf(s, id)) > 11 THEN 1 ELSE 2 ^ (12 - Len(LitsOf(s, id)))
  IN  [l \in Lits(s) |-> FoldSet(LAMBDA id, sum : sum + worth(id), 0,
                                 {id \in ids : Contains(LitsOf(s, id), l)})]

\* vivify_more_noccs
MoreNoccs(noccs, a, b) ==
  \/ noccs[a] > noccs[b]
  \/ /\ noccs[a] = noccs[b]
     /\ IF a = -b THEN a > 0 ELSE Var(a) < Var(b)

\* vivify_less_clause: lexicographic, rare literals first.
LessClause(noccs, c, d) ==
  LET n    == Smaller(Len(c), Len(d))
      diff == {k \in 1 .. n : c[k] # d[k]}
      k    == CHOOSE k \in diff : \A j \in diff : k <= j
  IN  IF diff = {} THEN Len(c) = n ELSE MoreNoccs(noccs, d[k], c[k])

FlushPrefix(acc, id) ==
  LET s == acc.s
  IN  IF acc.ids # <<>> /\ IsPrefix(LitsOf(s, acc.ids[Len(acc.ids)]), LitsOf(s, id))
      THEN [acc EXCEPT !.s = MarkGarbage(s, id)]
      ELSE [acc EXCEPT !.ids = Append(@, id)]

FlushSchedule(s, noccs, ids) ==
  FoldLeft(FlushPrefix, [s |-> s, ids |-> <<>>],
           Sorted(ids, LAMBDA a, b : LessClause(noccs, LitsOf(s, a), LitsOf(s, b))))

VivifyOrder(s, noccs, ids) ==
  FlushSchedule([s EXCEPT !.db = [id \in DOMAIN @ |->
                   IF id \notin ToSet(ids) THEN @[id]
                   ELSE [@[id] EXCEPT !.vivify = TRUE,
                           !.lits = Sorted(@, LAMBDA a, b : MoreNoccs(noccs, a, b))]]],
                noccs, ids)

VivifyLeft(s, noccs, long, left) == VivifyOrder(s, noccs, IF left = <<>> THEN long ELSE left)

VivifyLong(s, noccs, long) ==
  VivifyLeft(s, noccs, long, SelectSeq(long, LAMBDA id : s.db[id].vivify))

\* The clauses left from the last time, or all; flush_vivification_schedule drops
\* a clause if the one before it is a prefix of it.
VivifySchedule(s, noccs) ==
  VivifyLong(s, noccs, SelectSeq(s.clauses, LAMBDA id :
    Live(s, id) /\ ~s.db[id].redundant /\ Len(LitsOf(s, id)) > 2))

\* The decisions already made are kept as far as they are those of this clause,
\* and none is kept that made the clause a reason.
ReuseSame(s, sorted) ==
  LET differ == {j \in 1 .. Smaller(Len(sorted), Level(s)) : -sorted[j] # s.control[j]}
  IN  IF differ = {} THEN s
      ELSE Backtrack(s, (CHOOSE j \in differ : \A i \in differ : j <= i) - 1)

ReuseDecisions(s, id, sorted) ==
  LET open   == SelectSeq(LitsOf(s, id), LAMBDA l : Val(s, l) >= 0)
      forced == open # <<>> /\ Val(s, open[1]) > 0 /\ ReasonOf(s, open[1]) = id
  IN  ReuseSame(IF Level(s) > 0 /\ forced THEN Backtrack(s, LevelOf(s, open[1]) - 1) ELSE s,
                sorted)

Vivified(acc, s) ==
  IF s.conflict = NoReason THEN [acc EXCEPT !.s = s]
  ELSE [acc EXCEPT !.redundant = TRUE,
                   !.s = [Backtrack(s, Level(s) - 1) EXCEPT !.conflict = NoReason]]

\* One literal of the clause: acc tells whether the clause was found redundant and
\* which literal could be removed.
VivifyLiteral(acc, l) ==
  LET s == acc.s
  IN  CASE acc.redundant -> acc
        [] ~acc.redundant /\ Val(s, l) = 0 -> Vivified(acc, Propagate(AssumeDecision(s, -l)))
        [] OTHER ->
             IF LevelOf(s, l) = 0 \/ ReasonOf(s, l) = NoReason THEN acc
             ELSE [acc EXCEPT !.redundant = Val(s, l) > 0,
                              !.remove = IF Val(s, l) < 0 THEN l ELSE @]

StrengthenTo(s, id, kept) ==
  MarkGarbage(IF Len(kept) = 1 THEN Settled(AssignUnit(Backtrack(s, 0), kept[1]))
              ELSE NewClauseAs(Backtrack(s, LevelOf(s, kept[2]) - 1), kept, id), id)

\* Only the literals that were decided are kept. They are false, and the two that
\* became so last are watched after backtracking before both.
VivifyStrengthen(s, id) ==
  LET above   == SelectSeq(LitsOf(s, id), LAMBDA l : LevelOf(s, l) > 0)
      decided == SelectSeq(above, LAMBDA l : ReasonOf(s, l) = NoReason)
      vs      == {Var(l) : l \in ToSet(decided)}
  IN  StrengthenTo([s EXCEPT !.removed = @ \cup ({Var(l) : l \in ToSet(above)} \ vs),
                             !.added = @ \cup vs],
                   id, Sorted(decided, LAMBDA a, b : TrailOf(s, a) > TrailOf(s, b)))

VivifyResult(acc, id) ==
  CASE acc.redundant -> MarkGarbage(acc.s, id)
    [] ~acc.redundant /\ acc.remove # 0 -> VivifyStrengthen(acc.s, id)
    [] OTHER -> acc.s

VivifySorted(s, id, sorted) ==
  [VivifyResult(FoldLeft(VivifyLiteral,
                         [s |-> [ReuseDecisions(s, id, sorted) EXCEPT !.ignore = id],
                          redundant |-> FALSE, remove |-> 0],
                         sorted), id)
     EXCEPT !.ignore = NoReason]

VivifyOpen(s, noccs, id) ==
  LET lits == ToSet(LitsOf(s, id))
  IN  CASE ~Live(s, id) -> s
        [] Live(s, id) /\ (\E l \in lits : Fixed(s, l) > 0) -> MarkGarbage(s, id)
        [] OTHER -> VivifySorted(s, id, SortedSet({l \in lits : Fixed(s, l) = 0},
                                          LAMBDA a, b : MoreNoccs(noccs, a, b)))

VivifyClause(s, noccs, id) ==
  IF s.unsat THEN s ELSE VivifyOpen([s EXCEPT !.db[id].vivify = FALSE], noccs, id)

\* The last n clauses of the schedule, while only irredundant clauses are watched.
VivifySome(plan, noccs, n) ==
  LET ids == Reverse(plan.ids)
  IN  FoldLeft(LAMBDA s, id : VivifyClause(s, noccs, id),
               ConnectWatches(plan.s, TRUE), SubSeq(ids, 1, Smaller(n, Len(ids))))

\* Then the root is propagated again over all clauses.
VivifyFinish(s) ==
  [IF s.unsat THEN s
   ELSE Settled([ConnectWatches(DisconnectWatches(s), FALSE) EXCEPT !.propagated = 0])
     EXCEPT !.vivifying = FALSE]

VivifyAtRoot(s, noccs, n) == VivifyFinish(Backtrack(VivifySome(VivifySchedule(s, noccs), noccs, n), 0))

\* vivify
Vivify(s, n) ==
  IF s.unsat THEN s
  ELSE VivifyAtRoot([DisconnectWatches(Backtrack(s, 0)) EXCEPT !.vivifying = TRUE],
                    VivifyScore(s), n)

------------------------------------------------------------------------------
\* subsume: at the root, without watches, then vivify n clauses and check m binary
\* clauses for transitivity.
Subsume(s, n, m) ==
  Transred(Vivify(ConnectWatches(SubsumeRound(ResetWatches(Backtrack(s, 0))), FALSE), n), m)
==============================================================================
