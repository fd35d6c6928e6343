---------------------------- MODULE MCFaultNames -----------------------------
(***************************************************************************)
(* FaultNames on netlists of two inputs and two gates of every type, a few *)
(* with a third input behind a gate and a gate of three inputs, with every *)
(* set of outputs that leaves no gate without a reader.                    *)
(***************************************************************************)
EXTENDS FaultNames

In == [type |-> "INPUT", ins |-> <<>>]

\* A gate that reads one gate, or two different ones, of S.
Cells(S) ==
  {[type |-> "NOT", ins |-> <<a>>] : a \in S}
  \cup {[type |-> t, ins |-> p] : t \in {"AND", "NOR", "XOR"},
                                p \in {q \in S \X S : q[1] < q[2]}}

\* A gate that is read by one behind a later input.
Wide == {[type |-> t, ins |-> p] : t \in {"NAND", "OR"}, p \in {<<3, 2, 1>>, <<2, 3>>}}

Shapes ==
  {<<In, In, a, b>> : a \in Cells({1, 2}), b \in Cells({1, 2, 3})}
  \cup {<<In, a, In, b>> : a \in Cells({1}), b \in Wide}

Typed(shape, outs) ==
  [ins   |-> [g \in DOMAIN shape |-> shape[g].ins],
   types |-> [g \in DOMAIN shape |-> shape[g].type],
   outs  |-> outs]

OutputLists == {SelectSeq(<<3, 1, 2, 4>>, LAMBDA g : g \in S) : S \in SUBSET (1 .. 4)}

AllNetlists ==
  {n \in {Typed(shape, outs) : shape \in Shapes, outs \in OutputLists} :
     \A g \in DOMAIN n.ins : Wires(n, g) # {}}

MCNetlists == {n \in AllNetlists : ~OutputReadOnce(n)}

PassedThrough ==
  {n \in AllNetlists : OutputReadOnce(n) /\ n.types[4] = "AND"}
==============================================================================
