----------------------------- MODULE MCTopoIndex -----------------------------
(***************************************************************************)
(* TopoIndex, and StemLines before it, on every netlist of two inputs and  *)
(* two gates with one or two fanins each, and every set of outputs.        *)
(***************************************************************************)
EXTENDS TopoIndex

\* Up to two fanins out of S.
FaninLists(S) == SeqOf(S, 2) \ {<<>>}

OutputLists == {SelectSeq(<<1, 2, 3, 4>>, LAMBDA g : g \in S) : S \in SUBSET (1 .. 4)}

MCNetlists ==
  {[ins |-> <<<<>>, <<>>, a, b>>, outs |-> o] :
     a \in FaninLists({1, 2}), b \in FaninLists({1, 2, 3}), o \in OutputLists}
==============================================================================
