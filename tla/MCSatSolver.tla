----------------------------- MODULE MCSatSolver -----------------------------
(***************************************************************************)
(* Formulas for the SAT solver: the clauses of a formula are drawn from a  *)
(* small linear congruential generator, so that a seed names a formula.    *)
(* The shapes and seeds are chosen such that every branch of the steps of  *)
(* the inprocessing that formulas of this size reach is taken.             *)
(***************************************************************************)
EXTENDS SatSolver

Draws(seed, n) ==
  LET draw[k \in 0 .. n] ==
        IF k = 0 THEN 7919 * seed % 32749 ELSE (draw[k - 1] * 1103 + 12345) % 32749
  IN  draw @@ <<>>

Lit(d, n_vars) == (IF (d \div 64) % 2 = 0 THEN 1 ELSE -1) * (1 + ((d \div 128) % n_vars))

\* n clauses of size literals, drawn from place from on.
Drawn(draws, from, size, n, n_vars) ==
  [k \in 1 .. n |-> [j \in 1 .. size |->
     Lit(draws[from + size * (k - 1) + j], n_vars)] \o <<>>] \o <<>>

\* A formula over n_vars variables with binary clauses of two literals, ternary of
\* three and long of four; a literal may be drawn twice.
Formula(seed, n_vars, binary, ternary, long) ==
  LET draws == Draws(seed, 2 * binary + 3 * ternary + 4 * long)
  IN  Drawn(draws, 2 * binary + 3 * ternary, 4, long, n_vars)
        \o Drawn(draws, 2 * binary, 3, ternary, n_vars) \o Drawn(draws, 0, 2, binary, n_vars)

SearchFormulas ==
  {Formula(k, 2, 8, 0, 0) : k \in 1 .. 20} \cup {Formula(k, 5, 4, 10, 2) : k \in 1 .. 40}
    \cup {Formula(k, 7, 3, 16, 4) : k \in 1 .. 8} \cup {Formula(20, 7, 0, 12, 12)}
    \cup {Formula(k, 8, 0, 10, 16) : k \in {505, 507}}

InprocessingFormulas ==
  {Formula(k, 5, 4, 10, 2) : k \in 41 .. 70} \cup {Formula(k, 6, 6, 9, 4) : k \in 1 .. 40}
    \cup {Formula(k, 6, 0, 14, 12) : k \in 1 .. 12} \cup {Formula(71, 6, 3, 16, 4)}
    \cup {Formula(k, 7, 3, 16, 4) : k \in 21 .. 35}
    \cup {Formula(k, 8, 0, 10, 16) : k \in {505, 577}}
==============================================================================
