----------------------------- MODULE SatClauses ------------------------------
(***************************************************************************)
(* The state of the vendored SAT solver (class Internal of CaDiCaL 06w,    *)
(* with the external layer around it) as one record s, and the operations  *)
(* on its clauses: creation, watches, garbage collection and reduction.    *)
(* A literal is a variable or its negation, an integer as in the code; a   *)
(* clause is referred to by its number in s.db where the code has a        *)
(* pointer, so that moving it changes only its place in the arena. The     *)
(* statistics, the proof trace and the sizes in bytes are left out.        *)
(***************************************************************************)
EXTENDS Integers, Sequences, FiniteSets, SequencesExt, TLC

CONSTANTS
  KeepSize,   \* opts.keepsize: learned clauses up to this size are kept
  KeepGlue,   \* opts.keepglue: and those up to this glue
  PoSize      \* opts.posize: clauses from this size on save a position

ASSUME OptionsAssumption ==
  KeepSize \in Nat \ {0, 1} /\ KeepGlue \in Nat \ {0} /\ PoSize \in Nat \ (0 .. 3)

------------------------------------------------------------------------------
\* Sequences in the order Before, stable like std::stable_sort.
Inserted(sorted, x, Before(_, _)) ==
  InsertAt(sorted, 1 + Len(SelectSeq(sorted, LAMBDA y : ~Before(x, y))), x)

Sorted(seq, Before(_, _)) ==
  FoldLeft(LAMBDA sorted, x : Inserted(sorted, x, Before), <<>>, seq)

SortedSet(S, Before(_, _)) ==
  FoldSet(LAMBDA x, sorted : Inserted(sorted, x, Before), <<>>, S)

------------------------------------------------------------------------------
Var(l) == IF l < 0 THEN -l ELSE l

Sign(l) == IF l < 0 THEN -1 ELSE 1

Vars(s) == 1 .. s.max_var

Lits(s) == {-v : v \in Vars(s)} \cup Vars(s)

Val(s, l) == Sign(l) * s.vals[Var(l)]

Level(s) == Len(s.control)

LevelOf(s, l) == s.vtab[Var(l)].level

TrailOf(s, l) == s.vtab[Var(l)].trail

ReasonOf(s, l) == s.vtab[Var(l)].reason

\* The root-level value of l.
Fixed(s, l) == IF LevelOf(s, l) = 0 THEN Val(s, l) ELSE 0

\* The external literal of l.
Externalize(s, l) == Sign(l) * s.i2e[Var(l)]

Active(s, l) == s.status[Var(l)] = "active"

LitsOf(s, id) == s.db[id].lits

Live(s, id) == ~s.db[id].garbage

\* Close to the same variable: the order of lit_less_than.
LitLess(a, b) == Var(a) < Var(b) \/ (Var(a) = Var(b) /\ a < b)

------------------------------------------------------------------------------
NoReason == 0

EmptySolver ==
  [max_var |-> 0, vals |-> <<>>, vtab |-> <<>>, phases |-> <<>>, status |-> <<>>,
   trail |-> <<>>, control |-> <<>>, propagated |-> 0, probagated |-> 0,
   probagated2 |-> 0, conflict |-> NoReason,
   unsat |-> FALSE, clashing |-> FALSE, vivifying |-> FALSE, ignore |-> NoReason,
   queue |-> <<>>, btab |-> <<>>, unassigned |-> 0, bumped |-> 0, stamp |-> 0,
   added |-> {}, removed |-> {}, ptab |-> <<>>, fixed_count |-> 0,
   db |-> <<>>, clauses |-> <<>>, next |-> 1, watches |-> <<>>, watching |-> TRUE,
   collections |-> 0, fixed_at_last_collect |-> 0,
   kept |-> [size |-> 0, glue |-> 0], probes |-> <<>>, extension |-> <<>>,
   subsumed |-> FALSE, eliminations |-> 0,
   e2i |-> <<>>, i2e |-> <<>>, model |-> <<>>]

\* init_queue: the smaller new variables end up nearer to the end of the queue.
InitQueue(s, n) ==
  LET new == [k \in 1 .. n - s.max_var |-> n + 1 - k]
  IN  [s EXCEPT !.queue = @ \o new,
                !.btab = @ @@ [v \in s.max_var + 1 .. n |-> s.stamp + n + 1 - v],
                !.stamp = @ + n - s.max_var, !.bumped = s.stamp + n - s.max_var,
                !.unassigned = s.max_var + 1]

\* External::init and Internal::init: the external variables up to n exist and
\* get internal ones. opts.phase makes the saved phase of a new variable positive.
InitVars(s, n) ==
  LET new  == Len(s.e2i) + 1 .. n
      imax == s.max_var + n - Len(s.e2i)
      t    == InitQueue(s, imax)
      more(f, x) == f @@ [v \in s.max_var + 1 .. imax |-> x]
      both == (-imax .. -(s.max_var + 1)) \cup (s.max_var + 1 .. imax)
  IN  IF new = {} THEN s
      ELSE [t EXCEPT !.max_var = imax,
             !.vals = more(@, 0), !.phases = more(@, 1), !.status = more(@, "active"),
             !.vtab = more(@, [level |-> 0, trail |-> 0, reason |-> NoReason]),
             !.added = @ \cup (s.max_var + 1 .. imax),
             !.removed = @ \cup (s.max_var + 1 .. imax),
             !.ptab = @ @@ [l \in both |-> -1],
             !.watches = @ @@ [l \in both |-> <<>>],
             !.e2i = @ \o [k \in 1 .. Cardinality(new) |-> s.max_var + k],
             !.i2e = @ \o [k \in 1 .. Cardinality(new) |-> Len(s.e2i) + k]]

\* search_assign. A unit is learned at the root.
Assign(s, l, reason) ==
  LET root  == Level(s) = 0
      fixed == s.fixed_count + IF root THEN 1 ELSE 0
  IN  [s EXCEPT !.vals[Var(l)] = Sign(l), !.trail = Append(@, l),
                !.vtab[Var(l)] = [level |-> Level(s), trail |-> Len(s.trail),
                                  reason |-> reason],
                !.status[Var(l)] = IF root THEN "fixed" ELSE @,
                !.fixed_count = fixed, !.ptab[l] = fixed,
                !.phases[Var(l)] = IF s.vivifying THEN @ ELSE Sign(l)]

AssignUnit(s, l) == Assign(s, l, NoReason)

LearnEmpty(s) == [s EXCEPT !.unsat = TRUE]

------------------------------------------------------------------------------
LikelyToBeKept(s, id) ==
  LET c == s.db[id]
  IN  ~c.redundant \/ (Len(c.lits) <= s.kept.size /\ c.glue <= s.kept.glue)

VarsOf(s, id) == {Var(l) : l \in ToSet(LitsOf(s, id))}

MarkAdded(s, id) == [s EXCEPT !.added = @ \cup VarsOf(s, id)]

MarkAddedIfKept(s, id) == IF LikelyToBeKept(s, id) THEN MarkAdded(s, id) ELSE s

Smaller(a, b) == IF a < b THEN a ELSE b

\* new_clause; its number is s.next.
NewClause(s, lits, red, glue) ==
  LET g == Smaller(glue, Len(lits))
      c == [lits |-> lits, redundant |-> red, glue |-> g,
            keep |-> ~red \/ Len(lits) <= KeepSize \/ g <= KeepGlue,
            pos |-> IF Len(lits) >= PoSize THEN 3 ELSE 0,
            garbage |-> FALSE, used |-> FALSE, hbr |-> FALSE, vivify |-> FALSE,
            transred |-> FALSE, arena |-> FALSE]
      t == [s EXCEPT !.db = @ @@ (s.next :> c), !.clauses = Append(@, s.next),
                     !.next = @ + 1]
  IN  MarkAddedIfKept(t, s.next)

WatchLiteral(s, l, blit, id) ==
  LET w == [clause |-> id, blit |-> blit, redundant |-> s.db[id].redundant,
            binary |-> Len(LitsOf(s, id)) = 2]
  IN  [s EXCEPT !.watches[l] = Append(@, w)]

WatchClause(s, id) ==
  LET l0 == LitsOf(s, id)[1]
      l1 == LitsOf(s, id)[2]
  IN  WatchLiteral(WatchLiteral(s, l0, l1, id), l1, l0, id)

NewWatchedClause(s, lits, red, glue) == WatchClause(NewClause(s, lits, red, glue), s.next)

\* new_clause_as: the glue and redundancy of clause id for the literals lits.
NewClauseAs(s, lits, id) ==
  NewWatchedClause(s, lits, s.db[id].redundant, s.db[id].glue)

\* shrink_clause_size, the remaining literals being lits.
Shrunken(s, id, lits) ==
  LET n == Len(lits)
  IN  [s EXCEPT !.db[id].lits = lits,
                !.db[id].pos = IF @ > n THEN 3 ELSE @,
                !.db[id].glue = IF s.db[id].redundant THEN Smaller(@, n) ELSE @]

\* mark_garbage; the variables of an irredundant clause count as removed.
MarkGarbage(s, id) ==
  [s EXCEPT !.db[id].garbage = TRUE,
            !.removed = IF s.db[id].redundant THEN @ ELSE @ \cup VarsOf(s, id)]

\* add_original_lit for the literals of a whole clause, lits being internal.
AddOriginal(s, lits) ==
  LET S == ToSet(lits)
      c == SortedSet(S, LitLess)
  IN  CASE \E l \in S : -l \in S -> s
        [] S = {} -> [s EXCEPT !.unsat = TRUE]
        [] Cardinality(S) = 1 ->
             CASE Val(s, c[1]) = 0 -> AssignUnit(s, c[1])
               [] Val(s, c[1]) < 0 -> IF s.unsat THEN s ELSE [s EXCEPT !.clashing = TRUE]
               [] OTHER -> s
        [] OTHER -> NewWatchedClause(s, c, FALSE, 0)

------------------------------------------------------------------------------
BinaryFirst(ws) ==
  SelectSeq(ws, LAMBDA w : w.binary) \o SelectSeq(ws, LAMBDA w : ~w.binary)

SortWatches(s) == [s EXCEPT !.watches = [l \in DOMAIN @ |-> BinaryFirst(@[l])]]

DisconnectWatches(s) == [s EXCEPT !.watches = [l \in DOMAIN @ |-> <<>>]]

\* reset_watches
ResetWatches(s) == [DisconnectWatches(s) EXCEPT !.watching = FALSE]

\* connect_watches: the binary clauses first, after init_watches or
\* disconnect_watches.
ConnectWatches(s, irredundant_only) ==
  LET ids     == SelectSeq(s.clauses, LAMBDA id :
                   Live(s, id) /\ ~(irredundant_only /\ s.db[id].redundant))
      ordered == SelectSeq(ids, LAMBDA id : Len(LitsOf(s, id)) = 2)
                   \o SelectSeq(ids, LAMBDA id : Len(LitsOf(s, id)) > 2)
  IN  FoldLeft(WatchClause, [s EXCEPT !.watching = TRUE], ordered)

------------------------------------------------------------------------------
\* clause.collect (): garbage, and not the reason of an assignment.
Collect(s, id, reasons) == s.db[id].garbage /\ id \notin reasons

\* remove_falsified_literals, unless less than two literals would be left.
RemoveFalsified(s, id) ==
  LET rest == SelectSeq(LitsOf(s, id), LAMBDA l : Fixed(s, l) >= 0)
  IN  IF Len(rest) < 2 THEN s ELSE MarkAddedIfKept(Shrunken(s, id, rest), id)

\* mark_satisfied_clauses_as_garbage, when there are new units.
MarkSatisfied(s) ==
  LET visit(t, id) ==
        CASE ~Live(t, id) -> t
          [] \E l \in ToSet(LitsOf(t, id)) : Fixed(t, l) > 0 -> MarkGarbage(t, id)
          [] \E l \in ToSet(LitsOf(t, id)) : Fixed(t, l) < 0 -> RemoveFalsified(t, id)
          [] OTHER -> t
  IN  IF s.fixed_at_last_collect >= s.fixed_count THEN s
      ELSE FoldLeft(visit, [s EXCEPT !.fixed_at_last_collect = s.fixed_count], s.clauses)

\* flush_watches of every literal: what is left watches its two first literals.
FlushWatches(s, reasons) ==
  LET fresh(l, w) ==
        LET c == LitsOf(s, w.clause)
        IN  [w EXCEPT !.binary = @ \/ Len(c) = 2,
                      !.blit = IF c[1] = l THEN c[2] ELSE c[1]]
      flushed(l) ==
        LET ws == SelectSeq(s.watches[l], LAMBDA w : ~Collect(s, w.clause, reasons))
        IN  BinaryFirst([k \in DOMAIN ws |-> fresh(l, ws[k])])
  IN  [s EXCEPT !.watches = [l \in DOMAIN @ |-> flushed(l)]]

Distinct(seq) ==
  FoldLeft(LAMBDA acc, x : IF Contains(acc, x) THEN acc ELSE Append(acc, x), <<>>, seq)

\* copy_non_garbage_clauses: the order in which the clauses are copied, those
\* already in the arena first, then as they are watched by the literals in the
\* order of the decision queue. arenasort leaves them in this order.
CopyOrder(s, reasons) ==
  LET survivors == SelectSeq(s.clauses, LAMBDA id : ~Collect(s, id, reasons))
      signed    == [k \in 1 .. 2 * Len(s.queue) |->
                      LET n == Len(s.queue)
                          v == s.queue[n - ((k - 1) % n)]
                      IN  (IF k <= n THEN -1 ELSE 1) * s.phases[v] * v]
      watched   == IF ~s.watching THEN <<>>
                   ELSE FlattenSeq([k \in DOMAIN signed |->
                          [j \in DOMAIN s.watches[signed[k]] |->
                             s.watches[signed[k]][j].clause]])
  IN  Distinct(SelectSeq(survivors, LAMBDA id : s.db[id].arena)
                 \o SelectSeq(watched, LAMBDA id : ~Collect(s, id, reasons)) \o survivors)

\* The clauses ids stay, in this order; moving puts them into the arena.
Retained(s, ids, reasons, moving) ==
  [(IF s.watching THEN FlushWatches(s, reasons) ELSE s) EXCEPT
     !.clauses = ids,
     !.db = [id \in ToSet(ids) |-> [s.db[id] EXCEPT !.arena = moving]]]

DeleteOrMove(s, reasons, moving) ==
  Retained(s, IF moving THEN CopyOrder(s, reasons)
              ELSE SelectSeq(s.clauses, LAMBDA id : ~Collect(s, id, reasons)),
           reasons, moving)

\* garbage_collection: deleting the first time, moving from then on.
GarbageCollection(s, reasons) ==
  IF s.unsat THEN s
  ELSE DeleteOrMove(MarkSatisfied([s EXCEPT !.collections = 2 - (IF @ = 0 THEN 1 ELSE 0)]),
                    reasons, s.collections > 0)

------------------------------------------------------------------------------
\* Mutant: the reasons of the decisions, which have none.
DecisionReasons(s) == {ReasonOf(s, l) : l \in ToSet(s.control)} \ {NoReason}

\* protect_reasons: the reasons of the literals above the root.
Reasons(s) ==
  {ReasonOf(s, l) : l \in {l \in ToSet(s.trail) : LevelOf(s, l) > 0}} \ {NoReason}

\* mark_useless_redundant_clauses_as_garbage with opts.reduce = 1: of the clauses
\* that are not kept for their size, their glue or a recent use, the longer half.
MarkUseless(s) ==
  LET reasons == Reasons(s)
      ids     == SelectSeq(s.clauses, LAMBDA id :
                   s.db[id].redundant /\ Live(s, id) /\ id \notin reasons)
      stale   == SelectSeq(ids, LAMBDA id : s.db[id].hbr /\ ~s.db[id].used)
      stack   == Sorted(SelectSeq(ids, LAMBDA id :
                          ~s.db[id].hbr /\ ~s.db[id].keep /\ ~s.db[id].used),
                        LAMBDA a, b : Len(LitsOf(s, a)) > Len(LitsOf(s, b)))
      useless == SubSeq(stack, 1, Len(stack) \div 2)
      saved   == {s.db[stack[k]] : k \in Len(stack) \div 2 + 1 .. Len(stack)}
      most(S) == CHOOSE m \in S \cup {0} : \A n \in S : n <= m
      t       == [s EXCEPT !.db = [id \in DOMAIN @ |->
                    IF Contains(ids, id) THEN [@[id] EXCEPT !.used = FALSE] ELSE @[id]]]
  IN  [FoldLeft(MarkGarbage, t, stale \o useless) EXCEPT
         !.kept = [size |-> most({Len(c.lits) : c \in saved}),
                   glue |-> most({c.glue : c \in saved})]]

CollectSafely(s) == GarbageCollection(s, Reasons(s))

Reduce(s) == CollectSafely(MarkUseless(MarkSatisfied(s)))
==============================================================================
