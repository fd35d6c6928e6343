----------------------------- MODULE MCFaultCnf ------------------------------
(***************************************************************************)
(* FaultCnf on netlists of two inputs: two gates of two inputs, a gate of  *)
(* three inputs, gates that read a line twice, with one to four outputs;   *)
(* and on the statements of two netlists with a flip-flop turned round in  *)
(* every way, so that lines are read before they are driven: gates of      *)
(* three and four inputs, a flip-flop that reads an output, an output that *)
(* is an input.                                                            *)
(***************************************************************************)
EXTENDS FaultCnf

In(a)            == [kind |-> "input", name |-> a]
Out(a)           == [kind |-> "output", name |-> a]
Dff(q, d)        == [kind |-> "dff", name |-> q, ins |-> <<d>>]
Op(y, type, ins) == [kind |-> "gate", name |-> y, type |-> type, ins |-> ins]

Ports(outs) == [k \in DOMAIN outs |-> Out(outs[k])] \o <<In("a"), In("b")>>

OutputLists == {<<"y">>, <<"y", "n">>, <<"y", "a", "b", "n">>}

Pairs ==
  {<<Op("n", s, <<"a", "b">>), Op("y", t, p)>> :
     s \in {"NAND", "NOR", "XOR"}, t \in {"AND", "OR", "XNOR"},
     p \in {<<"n", "a">>, <<"b", "n">>}}

Thick ==
  {<<Op("n", "NOT", <<"a">>), Op("y", t, p)>> :
     t \in {"NAND", "NOR"},
     p \in {<<"a", "b", "n">>, <<"b", "n", "b">>, <<"n", "n", "b">>, <<"b", "a", "n", "b">>}}

Netlists(pairs) == {Ports(o) \o p : o \in OutputLists, p \in pairs}

Wide   == <<In("a"), In("b"), Out("y"), Op("n", "NAND", <<"a", "b", "q">>),
            Dff("q", "y"), Op("y", "NOR", <<"n", "a", "b", "n">>)>>
Narrow == <<In("a"), In("b"), Out("a"), Dff("q", "y"), Op("n", "BUF", <<"q">>),
            Op("y", "XOR", <<"b", "n">>)>>

Rotated(s, k) == SubSeq(s, k + 1, Len(s)) \o SubSeq(s, 1, k)

Turned(s) == UNION {{Rotated(s, k), Reverse(Rotated(s, k))} : k \in 0 .. Len(s) - 1}

\* A line nobody reads has to be an output.
ReadAll(f) ==
  LET gr == GraphOf(f) IN
  \A l \in NamedLines(gr) : gr.lines[l].dests # <<>> \/ gr.lines[l].is_output

MCFiles ==
  {f \in Netlists(Pairs \cup Thick) \cup Turned(Wide) \cup Turned(Narrow) : ReadAll(f)}

Small == {Ports(<<"y", "n">>) \o p : p \in Pairs}
==============================================================================
