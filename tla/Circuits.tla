------------------------------ MODULE Circuits -------------------------------
(***************************************************************************)
(* Small netlists for the model checker, each with a feature on which the  *)
(* tool's fast simulation and real fault detection part ways.              *)
(***************************************************************************)
EXTENDS Netlist

\* n = AND(a, b), y = OR(n, a), z = XOR(b, n), all branches as LINE gates.
\* The OR hides one path of stem a, the XOR makes the simulator see too much of
\* stem b, and a stuck input n_y of the OR is redundant.
Masking ==
  [type   |-> <<"INPUT", "INPUT", "LINE", "LINE", "LINE", "LINE",
                "AND", "LINE", "LINE", "OR", "XOR">>,
   fanins |-> << <<>>, <<>>, <<1>>, <<1>>, <<2>>, <<2>>,
                 <<3, 5>>, <<7>>, <<7>>, <<8, 4>>, <<6, 9>> >>,
   pos    |-> {10, 11}]

\* z = OR(AND(m, a), AND(NOT m, a)) with m = NOT(b): z = a, nothing of b shows.
Redundant ==
  [type   |-> <<"INPUT", "INPUT", "LINE", "LINE", "NOT", "LINE", "LINE",
                "AND", "NOT", "AND", "OR">>,
   fanins |-> << <<>>, <<>>, <<1>>, <<1>>, <<2>>, <<5>>, <<5>>,
                 <<6, 3>>, <<7>>, <<9, 4>>, <<8, 10>> >>,
   pos    |-> {11}]

\* y = OR(AND(a, b), AND(NOT a, c), AND(b, c)): the third term is redundant, and
\* with b = c = 1 it hides every change of a.
Consensus ==
  [type   |-> <<"INPUT", "INPUT", "INPUT", "LINE", "LINE", "LINE", "LINE",
                "LINE", "LINE", "NOT", "AND", "AND", "AND", "OR">>,
   fanins |-> << <<>>, <<>>, <<>>, <<1>>, <<1>>, <<2>>, <<2>>, <<3>>, <<3>>,
                 <<5>>, <<4, 6>>, <<10, 8>>, <<7, 9>>, <<11, 12, 13>> >>,
   pos    |-> {14}]

\* Consensus and Masking in one: n = AND(a, b) is the first term of the OR of
\* Consensus, and OR(n, a) and XOR(b, n) are outputs too.
Shared ==
  [type   |-> <<"INPUT", "INPUT", "INPUT", "LINE", "LINE", "LINE", "LINE", "LINE",
                "LINE", "LINE", "LINE", "NOT", "AND", "LINE", "LINE", "LINE",
                "AND", "AND", "OR", "OR", "XOR">>,
   fanins |-> << <<>>, <<>>, <<>>, <<1>>, <<1>>, <<1>>, <<2>>, <<2>>,
                 <<2>>, <<3>>, <<3>>, <<8>>, <<4, 7>>, <<13>>, <<13>>, <<13>>,
                 <<12, 10>>, <<5, 11>>, <<14, 17, 18>>, <<15, 6>>, <<9, 16>> >>,
   pos    |-> {19, 20, 21}]

\* z = XOR(NAND(f, e), AND(OR(a, b), m)) and w = NOR(NOT(c), NAND(e, m), NAND(g, h))
\* with m = OR(d, c), where c, e and m branch: which gates end up in which LUT
\* depends on the random choices.
Tree ==
  [type   |-> <<"INPUT", "INPUT", "INPUT", "INPUT", "INPUT", "INPUT", "INPUT",
                "INPUT", "LINE", "LINE", "LINE", "LINE",
                "OR", "OR", "LINE", "LINE", "NAND", "NOT", "AND", "NAND",
                "NAND", "NOR", "XOR">>,
   fanins |-> << <<>>, <<>>, <<>>, <<>>, <<>>, <<>>, <<>>, <<>>,
                 <<3>>, <<3>>, <<5>>, <<5>>,
                 <<1, 2>>, <<4, 9>>, <<14>>, <<14>>, <<6, 11>>, <<10>>,
                 <<13, 15>>, <<12, 16>>, <<7, 8>>, <<18, 20, 21>>, <<17, 19>> >>,
   pos    |-> {22, 23}]
==============================================================================
