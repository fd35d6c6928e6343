---------------------------- MODULE TgGraphProofs ----------------------------
(***************************************************************************)
(* What GraphOf makes of a legal file, for every such file: both ways      *)
(* through the graph agree, the ports follow the file, and an expanded     *)
(* gate is a chain of lines of its own.                                    *)
(***************************************************************************)
EXTENDS FaultManager, InductionFacts, SequenceTheorems

------------------------------------------------------------------------------
LineType(Names) ==
  [name : Names, generated : BOOLEAN, source : Nat,
   dests : Seq([gate : Nat, idx : Nat]), is_output : BOOLEAN]

LinkType == [type : GateTypes, inputs : Seq(Nat), output : Nat]

GateType ==
  [type : GateTypes, inputs : Seq(Nat), output : Nat, expanded : Seq(LinkType)]

GraphType(Names) ==
  [lines : Seq(LineType(Names)), gates : Seq(GateType), ins : Seq(Nat), outs : Seq(Nat)]

\* get_line finds at most one line.
OneName(gr) ==
  \A l, m \in NamedLines(gr) : gr.lines[l].name = gr.lines[m].name => l = m

\* g1 is gr with new lines for some of the names in A.
Extends(gr, g1, A) ==
  /\ g1.gates = gr.gates /\ g1.ins = gr.ins /\ g1.outs = gr.outs
  /\ DOMAIN gr.lines \subseteq DOMAIN g1.lines
  /\ \A l \in DOMAIN gr.lines : g1.lines[l] = gr.lines[l]
  /\ \A l \in DOMAIN g1.lines \ DOMAIN gr.lines :
       \E a \in A : g1.lines[l] = NewLine(a, FALSE)
  /\ OneName(g1)

\* EnsureLines, one name after the other.
EnsureLinesBy(gr, names, f) ==
  /\ DOMAIN f = 0 .. Len(names) /\ f[0] = gr
  /\ \A k \in 1 .. Len(names) : f[k] = EnsureLine(f[k - 1], names[k])
  /\ EnsureLines(gr, names) = f[Len(names)]

LEMMA EnsureLinesSteps ==
  ASSUME NEW gr, NEW names, Len(names) \in Nat
  PROVE  \E f : EnsureLinesBy(gr, names, f)
<1> DEFINE Upto(f, m) == f = [k \in 0 .. m |-> IF k = 0 THEN gr ELSE EnsureLine(f[k - 1], names[k])]
           Found == {m \in Nat : \E f : Upto(f, m)}
<1>1. 0 \in Found
  <2> DEFINE f == [k \in 0 .. 0 |-> gr]
  <2>1. Upto(f, 0)
    OBVIOUS
  <2> QED BY <2>1
<1>2. ASSUME NEW m \in Found
      PROVE  m + 1 \in Found
  <2>1. PICK f : Upto(f, m)
    OBVIOUS
  <2> DEFINE more == [k \in 0 .. m + 1 |-> IF k = m + 1 THEN EnsureLine(f[m], names[m + 1]) ELSE f[k]]
  <2>2. \A k \in 0 .. m + 1 : more[k] = IF k = 0 THEN gr ELSE EnsureLine(more[k - 1], names[k])
    BY <2>1
  <2>3. more = [k \in 0 .. m + 1 |-> more[k]]
    OBVIOUS
  <2> HIDE DEF more
  <2>4. Upto(more, m + 1)
    BY <2>2, <2>3
  <2>5. m + 1 \in Nat
    OBVIOUS
  <2> HIDE DEF Upto
  <2> QED BY <2>4, <2>5
<1>3. Found = Nat
  <2>1. Found \in SUBSET Nat
    OBVIOUS
  <2> HIDE DEF Found
  <2> QED BY <1>1, <1>2, <2>1, InductionOverNat
<1>4. PICK f : Upto(f, Len(names))
  BY <1>3
<1> DEFINE whole == CHOOSE f_1 : Upto(f_1, Len(names))
<1>5. Upto(whole, Len(names))
  <2> HIDE DEF Upto
  <2> QED BY <1>4
<1>6. EnsureLines(gr, names) = whole[Len(names)]
  BY DEF EnsureLines
<1> HIDE DEF whole
<1>7. EnsureLinesBy(gr, names, whole)
  BY <1>5, <1>6 DEF EnsureLinesBy
<1> QED BY <1>7

\* get_line makes a line if there is none, and changes nothing else.
LEMMA EnsureOne ==
  ASSUME NEW Names, NEW gr \in GraphType(Names), OneName(gr), NEW a \in Names
  PROVE  /\ EnsureLine(gr, a) \in GraphType(Names)
         /\ Extends(gr, EnsureLine(gr, a), {a})
         /\ HasLine(EnsureLine(gr, a), a)
<1>1. CASE HasLine(gr, a)
  BY <1>1 DEF EnsureLine, Extends
<1>2. CASE ~HasLine(gr, a)
  <2>1. PICK new : new = NewLine(a, FALSE)
    OBVIOUS
  <2>2. /\ new \in LineType(Names) /\ new.name = a /\ new.generated = FALSE
    <3>1. <<>> \in Seq([gate : Nat, idx : Nat])
      OBVIOUS
    <3> QED BY <2>1, <3>1 DEF NewLine, LineType, NoGate
  <2>3. PICK ls : ls = Append(gr.lines, new)
    OBVIOUS
  <2>4. gr.lines \in Seq(LineType(Names))
    BY DEF GraphType
  <2>5. /\ ls \in Seq(LineType(Names)) /\ DOMAIN ls = DOMAIN gr.lines \cup {Len(gr.lines) + 1}
        /\ Len(gr.lines) + 1 \notin DOMAIN gr.lines
        /\ ls[Len(gr.lines) + 1] = new
        /\ \A l \in DOMAIN gr.lines : ls[l] = gr.lines[l]
    BY <2>2, <2>3, <2>4
  <2>6. PICK g1 : g1 = [gr EXCEPT !.lines = ls]
    OBVIOUS
  <2>7. /\ g1 \in GraphType(Names) /\ g1.lines = ls
        /\ g1.gates = gr.gates /\ g1.ins = gr.ins /\ g1.outs = gr.outs
    BY <2>5, <2>6 DEF GraphType
  <2>8. EnsureLine(gr, a) = g1
    BY <1>2, <2>1, <2>3, <2>6 DEF EnsureLine
  <2>9. HasLine(g1, a)
    BY <2>2, <2>5, <2>7 DEF HasLine
  <2>10. \A l \in NamedLines(g1) : l \in NamedLines(gr) \/ l = Len(gr.lines) + 1
    BY <2>5, <2>7 DEF NamedLines
  <2>11. \A l \in NamedLines(gr) : gr.lines[l].name # a
    BY <1>2 DEF HasLine, NamedLines
  <2>12. OneName(g1)
    <3> SUFFICES ASSUME NEW l \in NamedLines(g1), NEW m \in NamedLines(g1),
                        g1.lines[l].name = g1.lines[m].name
                 PROVE  l = m
      BY DEF OneName
    <3>1. \A k \in NamedLines(gr) : g1.lines[k] = gr.lines[k]
      BY <2>5, <2>7 DEF NamedLines
    <3>2. CASE l \in NamedLines(gr) /\ m \in NamedLines(gr)
      BY <3>1, <3>2 DEF OneName
    <3>3. CASE l = Len(gr.lines) + 1 /\ m = Len(gr.lines) + 1
      BY <3>3
    <3>4. g1.lines[Len(gr.lines) + 1].name = a
      BY <2>2, <2>5, <2>7
    <3> QED BY <2>10, <2>11, <3>1, <3>2, <3>3, <3>4
  <2>13. Extends(gr, g1, {a})
    <3>1. \A l \in DOMAIN g1.lines \ DOMAIN gr.lines : g1.lines[l] = NewLine(a, FALSE)
      BY <2>1, <2>5, <2>7
    <3> QED BY <2>5, <2>7, <2>12, <3>1 DEF Extends
  <2> QED BY <2>7, <2>8, <2>9, <2>13
<1> QED BY <1>1, <1>2

LEMMA ExtendsTwice ==
  ASSUME NEW gr, NEW g1, NEW g2, NEW A, NEW B, Extends(gr, g1, A), Extends(g1, g2, B)
  PROVE  Extends(gr, g2, A \cup B)
<1>1. /\ g2.gates = gr.gates /\ g2.ins = gr.ins /\ g2.outs = gr.outs
      /\ DOMAIN gr.lines \subseteq DOMAIN g2.lines
      /\ \A l \in DOMAIN gr.lines : g2.lines[l] = gr.lines[l]
      /\ OneName(g2)
  BY DEF Extends
<1>2. ASSUME NEW l \in DOMAIN g2.lines \ DOMAIN gr.lines
      PROVE  \E a \in A \cup B : g2.lines[l] = NewLine(a, FALSE)
  <2>1. CASE l \in DOMAIN g1.lines
    <3>1. g2.lines[l] = g1.lines[l]
      BY <2>1 DEF Extends
    <3>2. \E a \in A : g1.lines[l] = NewLine(a, FALSE)
      BY <2>1 DEF Extends
    <3> QED BY <3>1, <3>2
  <2>2. CASE l \notin DOMAIN g1.lines
    <3>1. \E a \in B : g2.lines[l] = NewLine(a, FALSE)
      BY <2>2 DEF Extends
    <3> QED BY <3>1
  <2> QED BY <2>1, <2>2
<1> QED BY <1>1, <1>2 DEF Extends

LEMMA ExtendsKeepsNames ==
  ASSUME NEW gr, NEW g1, NEW A, Extends(gr, g1, A), NEW a, HasLine(gr, a)
  PROVE  HasLine(g1, a)
BY DEF Extends, HasLine

LEMMA EnsureMany ==
  ASSUME NEW Names, NEW gr \in GraphType(Names), OneName(gr), NEW names \in Seq(Names)
  PROVE  /\ EnsureLines(gr, names) \in GraphType(Names)
         /\ Extends(gr, EnsureLines(gr, names), Range(names))
         /\ \A a \in Range(names) : HasLine(EnsureLines(gr, names), a)
<1>0. Len(names) \in Nat /\ DOMAIN names = 1 .. Len(names)
  OBVIOUS
<1>1. PICK f : EnsureLinesBy(gr, names, f)
  BY <1>0, EnsureLinesSteps
<1>1a. /\ f[0] = gr
       /\ \A k \in 1 .. Len(names) : f[k] = EnsureLine(f[k - 1], names[k])
       /\ EnsureLines(gr, names) = f[Len(names)]
  BY <1>1 DEF EnsureLinesBy
<1> DEFINE Fine(k) == /\ f[k] \in GraphType(Names)
                      /\ Extends(gr, f[k], {names[i] : i \in 1 .. k})
                      /\ \A i \in 1 .. k : HasLine(f[k], names[i])
           B == {k \in Nat : k <= Len(names) => Fine(k)}
<1>2. 0 \in B
  <2>1. f[0] \in GraphType(Names)
    BY <1>1a
  <2>2. Extends(gr, f[0], {names[i] : i \in 1 .. 0})
    BY <1>1a DEF Extends
  <2>3. \A i \in 1 .. 0 : HasLine(f[0], names[i])
    OBVIOUS
  <2> QED BY <2>1, <2>2, <2>3
<1>3. ASSUME NEW k \in B
      PROVE  k + 1 \in B
  <2>1. SUFFICES ASSUME k + 1 <= Len(names)
                 PROVE  Fine(k + 1)
    OBVIOUS
  <2>2. k \in Nat /\ Fine(k) /\ k + 1 \in 1 .. Len(names)
    BY <1>0, <2>1
  <2>3. PICK a : a = names[k + 1]
    OBVIOUS
  <2>4. a \in Names /\ f[k + 1] = EnsureLine(f[k], a)
    <3>1. (k + 1) - 1 = k
      BY <2>2
    <3> HIDE DEF Fine
    <3> QED BY <1>0, <1>1a, <2>2, <2>3, <3>1
  <2>5. OneName(f[k])
    BY <2>2 DEF Extends
  <2>6. /\ f[k + 1] \in GraphType(Names) /\ Extends(f[k], f[k + 1], {a})
        /\ HasLine(f[k + 1], a)
    BY <2>2, <2>4, <2>5, EnsureOne
  <2>7. \A i \in 1 .. k + 1 : i \in 1 .. k \/ i = k + 1
    BY <2>2
  <2>8. \A i \in 1 .. k + 1 : HasLine(f[k + 1], names[i])
    <3>1. \A i \in 1 .. k : HasLine(f[k + 1], names[i])
      <4> HIDE DEF Fine
      <4> TAKE i \in 1 .. k
      <4>1. HasLine(f[k], names[i])
        BY <2>2 DEF Fine
      <4> QED BY <2>6, <4>1, ExtendsKeepsNames
    <3> QED BY <2>3, <2>6, <2>7, <3>1
  <2>9. {names[i] : i \in 1 .. k} \cup {a} = {names[i] : i \in 1 .. k + 1}
    BY <2>2, <2>3, <2>7
  <2>10. Extends(gr, f[k + 1], {names[i] : i \in 1 .. k} \cup {a})
    <3> HIDE DEF Fine
    <3>1. Extends(gr, f[k], {names[i] : i \in 1 .. k})
      BY <2>2 DEF Fine
    <3> QED BY <2>6, <3>1, ExtendsTwice
  <2> QED BY <2>6, <2>8, <2>9, <2>10
<1>4. Fine(Len(names))
  <2>1. B = Nat
    <3>1. B \in SUBSET Nat
      OBVIOUS
    <3> HIDE DEF B
    <3> QED BY <1>2, <1>3, <3>1, InductionOverNat
  <2>2. Len(names) \in B
    <3> HIDE DEF B
    <3> QED BY <1>0, <2>1
  <2> HIDE DEF Fine
  <2> QED BY <1>0, <2>2
<1>5. Range(names) = {names[i] : i \in 1 .. Len(names)}
  BY <1>0 DEF Range
<1> QED BY <1>1a, <1>4, <1>5

------------------------------------------------------------------------------
\* The gates of a graph: the assertions on them hold, and their lines are named.
GatesSound(gr) ==
  \A g \in DOMAIN gr.gates :
    /\ ArityOk(gr.gates[g].type, Len(gr.gates[g].inputs))
    /\ gr.gates[g].output \in NamedLines(gr)
    /\ \A i \in DOMAIN gr.gates[g].inputs : gr.gates[g].inputs[i] \in NamedLines(gr)

\* The lines made for a gate, none if it has at most two inputs.
MadeFor(gate, first) == first .. (first + Len(gate.inputs)) - 3

\* Every gate of more than two inputs is a chain on lines of its own.
Chains(gr, first) ==
  /\ \A g \in DOMAIN gr.gates :
       gr.gates[g].expanded
         = Expand(gr.gates[g].type, gr.gates[g].inputs, gr.gates[g].output, first[g])
  /\ \A g \in DOMAIN gr.gates : \A l \in MadeFor(gr.gates[g], first[g]) :
       l \in DOMAIN gr.lines /\ gr.lines[l].generated
  /\ \A g, h \in DOMAIN gr.gates : \A l \in MadeFor(gr.gates[g], first[g]) :
       l \in MadeFor(gr.gates[h], first[h]) => g = h
  /\ \A l \in DOMAIN gr.lines : gr.lines[l].generated =>
       \E g \in DOMAIN gr.gates : l \in MadeFor(gr.gates[g], first[g])

ChainsSound(gr) == \E first \in [DOMAIN gr.gates -> Nat] : Chains(gr, first)

\* A line knows the gate that drives it; made lines know nothing.
LinesSound(gr) ==
  /\ \A l \in DOMAIN gr.lines :
       gr.lines[l].source = NoGate \/ gr.lines[l].source \in DOMAIN gr.gates
  /\ \A l \in DOMAIN gr.lines : gr.lines[l].generated =>
       gr.lines[l].source = NoGate /\ gr.lines[l].dests = <<>> /\ ~gr.lines[l].is_output
  /\ \A l \in DOMAIN gr.lines : \A g \in DOMAIN gr.gates :
       gr.gates[g].output = l <=> gr.lines[l].source = g

\* A line lists the gate inputs it is connected to, each of them once.
DestsSound(gr) ==
  \A l \in DOMAIN gr.lines :
    /\ IsInjective(gr.lines[l].dests)
    /\ \A c \in Range(gr.lines[l].dests) :
         /\ c.gate \in DOMAIN gr.gates
         /\ c.idx \in DOMAIN gr.gates[c.gate].inputs
         /\ gr.gates[c.gate].inputs[c.idx] = l
    /\ \A g \in DOMAIN gr.gates : \A k \in DOMAIN gr.gates[g].inputs :
         gr.gates[g].inputs[k] = l => [gate |-> g, idx |-> k] \in Range(gr.lines[l].dests)

OutsSound(gr) ==
  /\ IsInjective(gr.outs)
  /\ \A l \in Range(gr.outs) : l \in NamedLines(gr)
  /\ \A l \in DOMAIN gr.lines : gr.lines[l].is_output <=> l \in Range(gr.outs)

GraphSound(gr, Names) ==
  /\ gr \in GraphType(Names)
  /\ OneName(gr)
  /\ GatesSound(gr)
  /\ ChainsSound(gr)
  /\ LinesSound(gr)
  /\ DestsSound(gr)
  /\ OutsSound(gr)

\* What the graph has from the statements read: M are the names in them, S the
\* gates, nm the names of the inputs in order, and O those of the outputs.
Realizes(gr, g, st) ==
  /\ gr.gates[g].type = st.type
  /\ DOMAIN gr.gates[g].inputs = DOMAIN st.ins
  /\ \A i \in DOMAIN st.ins : gr.lines[gr.gates[g].inputs[i]].name = st.ins[i]
  /\ gr.lines[gr.gates[g].output].name = st.name

NamesKnown(gr, M) == \A l \in NamedLines(gr) : gr.lines[l].name \in M

GatesKnown(gr, S) ==
  /\ \A g \in DOMAIN gr.gates : \E st \in S : Realizes(gr, g, st)
  /\ \A st \in S : \E g \in DOMAIN gr.gates : Realizes(gr, g, st)

InsKnown(gr, nm) ==
  /\ Len(gr.ins) = Len(nm)
  /\ \A i \in DOMAIN gr.ins :
       gr.ins[i] \in NamedLines(gr) /\ gr.lines[gr.ins[i]].name = nm[i]

OutsKnown(gr, O) == {gr.lines[l].name : l \in Range(gr.outs)} = O

Built(gr, Names, M, S, nm, O) ==
  /\ GraphSound(gr, Names)
  /\ NamesKnown(gr, M)
  /\ GatesKnown(gr, S)
  /\ InsKnown(gr, nm)
  /\ OutsKnown(gr, O)

\* The gate statements over a set of names.
GateStatement(Names) == [kind : {"gate"}, name : Names, type : GateTypes, ins : Seq(Names)]

------------------------------------------------------------------------------
\* The parts of a graph are sequences of known elements.
LEMMA GraphParts ==
  ASSUME NEW Names, NEW gr \in GraphType(Names)
  PROVE  /\ Len(gr.lines) \in Nat /\ DOMAIN gr.lines = 1 .. Len(gr.lines)
         /\ Len(gr.gates) \in Nat /\ DOMAIN gr.gates = 1 .. Len(gr.gates)
         /\ Len(gr.ins) \in Nat /\ DOMAIN gr.ins = 1 .. Len(gr.ins)
         /\ Len(gr.outs) \in Nat /\ DOMAIN gr.outs = 1 .. Len(gr.outs)
         /\ \A l \in DOMAIN gr.lines : gr.lines[l] \in LineType(Names)
         /\ \A g \in DOMAIN gr.gates : gr.gates[g] \in GateType
BY SeqElements DEF GraphType

\* New lines are named, but nothing else.
LEMMA FreshLine ==
  ASSUME NEW a
  PROVE  LET new == NewLine(a, FALSE) IN
         /\ new.name = a /\ new.generated = FALSE /\ new.source = NoGate
         /\ new.dests = <<>> /\ new.is_output = FALSE
BY DEF NewLine

LEMMA ExtendsLines ==
  ASSUME NEW gr, NEW g1, NEW A, Extends(gr, g1, A)
  PROVE  /\ \A l \in DOMAIN gr.lines : l \in DOMAIN g1.lines /\ g1.lines[l] = gr.lines[l]
         /\ \A l \in DOMAIN g1.lines : l \notin DOMAIN gr.lines =>
              /\ g1.lines[l].name \in A /\ g1.lines[l].generated = FALSE
              /\ g1.lines[l].source = NoGate /\ g1.lines[l].dests = <<>>
              /\ g1.lines[l].is_output = FALSE
         /\ g1.gates = gr.gates /\ g1.ins = gr.ins /\ g1.outs = gr.outs
         /\ OneName(g1)
<1>1. ASSUME NEW l \in DOMAIN g1.lines, l \notin DOMAIN gr.lines
      PROVE  /\ g1.lines[l].name \in A /\ g1.lines[l].generated = FALSE
             /\ g1.lines[l].source = NoGate /\ g1.lines[l].dests = <<>>
             /\ g1.lines[l].is_output = FALSE
  <2>1. PICK a \in A : g1.lines[l] = NewLine(a, FALSE)
    BY <1>1 DEF Extends
  <2> QED BY <2>1, FreshLine
<1> QED BY <1>1 DEF Extends

\* New lines for more names leave the graph as good as it was.
LEMMA ExtendsKeepsBuilt ==
  ASSUME NEW Names, NEW gr, NEW M, NEW S, NEW nm, NEW O, Built(gr, Names, M, S, nm, O),
         NEW g1 \in GraphType(Names), NEW A, Extends(gr, g1, A)
  PROVE  Built(g1, Names, M \cup A, S, nm, O)
<1>1. /\ \A l \in DOMAIN gr.lines : l \in DOMAIN g1.lines /\ g1.lines[l] = gr.lines[l]
      /\ \A l \in DOMAIN g1.lines : l \notin DOMAIN gr.lines =>
           /\ g1.lines[l].name \in A /\ g1.lines[l].generated = FALSE
           /\ g1.lines[l].source = NoGate /\ g1.lines[l].dests = <<>>
           /\ g1.lines[l].is_output = FALSE
      /\ g1.gates = gr.gates /\ g1.ins = gr.ins /\ g1.outs = gr.outs
      /\ OneName(g1)
  BY ExtendsLines
<1>2. /\ GraphSound(gr, Names) /\ NamesKnown(gr, M) /\ GatesKnown(gr, S)
      /\ InsKnown(gr, nm) /\ OutsKnown(gr, O)
  BY DEF Built
<1>3. /\ gr \in GraphType(Names) /\ GatesSound(gr) /\ ChainsSound(gr)
      /\ LinesSound(gr) /\ DestsSound(gr) /\ OutsSound(gr)
  BY <1>2 DEF GraphSound
<1>4. \A l \in NamedLines(gr) : l \in NamedLines(g1) /\ l \in DOMAIN gr.lines
  BY <1>1 DEF NamedLines
<1>5. GatesSound(g1)
  BY <1>1, <1>3, <1>4 DEF GatesSound
<1>6. ChainsSound(g1)
  <2>1. PICK first \in [DOMAIN gr.gates -> Nat] : Chains(gr, first)
    BY <1>3 DEF ChainsSound
  <2>2. Chains(g1, first)
    BY <1>1, <2>1 DEF Chains
  <2> QED BY <1>1, <2>1, <2>2 DEF ChainsSound
<1>7. LinesSound(g1)
  <2>1. \A l \in DOMAIN g1.lines :
          g1.lines[l].source = NoGate \/ g1.lines[l].source \in DOMAIN g1.gates
    BY <1>1, <1>3 DEF LinesSound
  <2>2. \A l \in DOMAIN g1.lines : g1.lines[l].generated =>
          g1.lines[l].source = NoGate /\ g1.lines[l].dests = <<>> /\ ~g1.lines[l].is_output
    BY <1>1, <1>3 DEF LinesSound
  <2>3. ASSUME NEW l \in DOMAIN g1.lines, NEW g \in DOMAIN g1.gates
        PROVE  g1.gates[g].output = l <=> g1.lines[l].source = g
    <3>1. CASE l \in DOMAIN gr.lines
      BY <1>1, <1>3, <3>1 DEF LinesSound
    <3>2. CASE l \notin DOMAIN gr.lines
      <4>1. g1.gates[g].output \in DOMAIN gr.lines
        BY <1>1, <1>3, <1>4 DEF GatesSound
      <4>2. g # NoGate
        BY <1>1, <1>3, GraphParts DEF NoGate
      <4> QED BY <1>1, <3>2, <4>1, <4>2
    <3> QED BY <3>1, <3>2
  <2> QED BY <2>1, <2>2, <2>3 DEF LinesSound
<1>8. DestsSound(g1)
  <2> SUFFICES ASSUME NEW l \in DOMAIN g1.lines
               PROVE  /\ IsInjective(g1.lines[l].dests)
                      /\ \A c \in Range(g1.lines[l].dests) :
                           /\ c.gate \in DOMAIN g1.gates
                           /\ c.idx \in DOMAIN g1.gates[c.gate].inputs
                           /\ g1.gates[c.gate].inputs[c.idx] = l
                      /\ \A g \in DOMAIN g1.gates : \A k \in DOMAIN g1.gates[g].inputs :
                           g1.gates[g].inputs[k] = l =>
                             [gate |-> g, idx |-> k] \in Range(g1.lines[l].dests)
    BY DEF DestsSound
  <2>1. CASE l \in DOMAIN gr.lines
    BY <1>1, <1>3, <2>1 DEF DestsSound
  <2>2. CASE l \notin DOMAIN gr.lines
    <3>1. g1.lines[l].dests = <<>>
      BY <1>1, <2>2
    <3>2. IsInjective(<<>>) /\ Range(<<>>) = {}
      BY DEF IsInjective, Range
    <3>3. \A g \in DOMAIN g1.gates : \A k \in DOMAIN g1.gates[g].inputs :
            g1.gates[g].inputs[k] \in DOMAIN gr.lines
      BY <1>1, <1>3, <1>4 DEF GatesSound
    <3> QED BY <2>2, <3>1, <3>2, <3>3
  <2> QED BY <2>1, <2>2
<1>9. OutsSound(g1)
  <2>1. \A l \in Range(g1.outs) : l \in NamedLines(g1) /\ l \in DOMAIN gr.lines
    BY <1>1, <1>3, <1>4 DEF OutsSound
  <2>2. ASSUME NEW l \in DOMAIN g1.lines
        PROVE  g1.lines[l].is_output <=> l \in Range(g1.outs)
    <3>1. CASE l \in DOMAIN gr.lines
      BY <1>1, <1>3, <3>1 DEF OutsSound
    <3>2. CASE l \notin DOMAIN gr.lines
      BY <1>1, <2>1, <3>2
    <3> QED BY <3>1, <3>2
  <2> QED BY <1>1, <1>3, <2>1, <2>2 DEF OutsSound
<1>10. NamesKnown(g1, M \cup A)
  BY <1>1, <1>2 DEF NamesKnown, NamedLines
<1>11. GatesKnown(g1, S)
  <2>1. ASSUME NEW g \in DOMAIN gr.gates, NEW st, Realizes(gr, g, st)
        PROVE  Realizes(g1, g, st)
    <3>1. gr.gates[g].output \in DOMAIN gr.lines
      BY <1>3, <1>4 DEF GatesSound
    <3>2. \A i \in DOMAIN gr.gates[g].inputs : gr.gates[g].inputs[i] \in DOMAIN gr.lines
      BY <1>3, <1>4 DEF GatesSound
    <3>3. \A i \in DOMAIN st.ins : i \in DOMAIN gr.gates[g].inputs
              => gr.lines[gr.gates[g].inputs[i]].name = st.ins[i]
      BY <2>1 DEF Realizes
    <3> QED BY <1>1, <2>1, <3>1, <3>2, SMTT(30) DEF Realizes
  <2> QED BY <1>1, <1>2, <2>1 DEF GatesKnown
<1>12. InsKnown(g1, nm)
  BY <1>1, <1>2, <1>4 DEF InsKnown
<1>13. OutsKnown(g1, O)
  <2>1. \A l \in Range(gr.outs) : g1.lines[l] = gr.lines[l]
    BY <1>1, <1>3, <1>4 DEF OutsSound
  <2>2. {g1.lines[l].name : l \in Range(gr.outs)} = {gr.lines[l].name : l \in Range(gr.outs)}
    BY <2>1
  <2> QED BY <1>1, <1>2, <2>2 DEF OutsKnown
<1> QED
  BY <1>1, <1>5, <1>6, <1>7, <1>8, <1>9, <1>10, <1>11, <1>12, <1>13 DEF Built, GraphSound

------------------------------------------------------------------------------
LEMMA LineOfIs ==
  ASSUME NEW gr, NEW a, HasLine(gr, a)
  PROVE  LineOf(gr, a) \in NamedLines(gr) /\ gr.lines[LineOf(gr, a)].name = a
<1>1. PICK l \in DOMAIN gr.lines : gr.lines[l].name = a /\ ~gr.lines[l].generated
  BY DEF HasLine
<1> DEFINE c == CHOOSE k \in DOMAIN gr.lines : gr.lines[k].name = a /\ ~gr.lines[k].generated
<1>2. c \in DOMAIN gr.lines /\ gr.lines[c].name = a /\ ~gr.lines[c].generated
  BY <1>1
<1>3. LineOf(gr, a) = c
  BY DEF LineOf
<1> HIDE DEF c
<1> QED BY <1>2, <1>3 DEF NamedLines

\* The line of a name, made if need be, in a graph that is as good as before.
LEMMA EnsureBuilt ==
  ASSUME NEW Names, NEW gr, NEW M, NEW S, NEW nm, NEW O, Built(gr, Names, M, S, nm, O),
         NEW a \in Names
  PROVE  /\ Built(EnsureLine(gr, a), Names, M \cup {a}, S, nm, O)
         /\ LineOf(EnsureLine(gr, a), a) \in NamedLines(EnsureLine(gr, a))
         /\ EnsureLine(gr, a).lines[LineOf(EnsureLine(gr, a), a)].name = a
<1>1. gr \in GraphType(Names) /\ OneName(gr)
  BY DEF Built, GraphSound
<1>2. PICK g1 : g1 = EnsureLine(gr, a)
  OBVIOUS
<1>3. g1 \in GraphType(Names) /\ Extends(gr, g1, {a}) /\ HasLine(g1, a)
  BY <1>1, <1>2, EnsureOne
<1> QED BY <1>2, <1>3, ExtendsKeepsBuilt, LineOfIs

LEMMA AddInputBuilds ==
  ASSUME NEW Names, NEW gr, NEW M, NEW S, NEW nm \in Seq(Names), NEW O,
         Built(gr, Names, M, S, nm, O), NEW a \in Names
  PROVE  Built(AddInput(gr, a), Names, M \cup {a}, S, Append(nm, a), O)
<1>1. PICK g1 : g1 = EnsureLine(gr, a)
  OBVIOUS
<1>2. PICK l : l = LineOf(g1, a)
  OBVIOUS
<1>3. Built(g1, Names, M \cup {a}, S, nm, O) /\ l \in NamedLines(g1) /\ g1.lines[l].name = a
  BY <1>1, <1>2, EnsureBuilt
<1>4. g1 \in GraphType(Names) /\ GraphSound(g1, Names)
  BY <1>3 DEF Built, GraphSound
<1>5. l \in Nat
  BY <1>3, <1>4, GraphParts DEF NamedLines
<1>6. PICK is : is = Append(g1.ins, l)
  OBVIOUS
<1>7. g1.ins \in Seq(Nat)
  BY <1>4 DEF GraphType
<1>8. /\ is \in Seq(Nat) /\ Len(is) = Len(g1.ins) + 1 /\ is[Len(g1.ins) + 1] = l
      /\ \A i \in 1 .. Len(g1.ins) : is[i] = g1.ins[i]
      /\ DOMAIN is = 1 .. Len(g1.ins) + 1 /\ Len(g1.ins) \in Nat
  BY <1>5, <1>6, <1>7
<1>9. PICK g2 : g2 = [g1 EXCEPT !.ins = is]
  OBVIOUS
<1>10. AddInput(gr, a) = g2
  BY <1>1, <1>2, <1>6, <1>9 DEF AddInput
<1>11. /\ g2 \in GraphType(Names) /\ g2.lines = g1.lines /\ g2.gates = g1.gates
       /\ g2.outs = g1.outs /\ g2.ins = is
  BY <1>4, <1>8, <1>9 DEF GraphType
<1>12. NamedLines(g2) = NamedLines(g1)
  BY <1>11 DEF NamedLines
<1>13. GraphSound(g2, Names)
  <2>1. ChainsSound(g2)
    BY <1>4, <1>11 DEF GraphSound, ChainsSound, Chains
  <2>2. OneName(g2) /\ GatesSound(g2)
    BY <1>4, <1>11, <1>12 DEF GraphSound, OneName, GatesSound
  <2>3. LinesSound(g2) /\ DestsSound(g2)
    BY <1>4, <1>11 DEF GraphSound, LinesSound, DestsSound
  <2>4. OutsSound(g2)
    BY <1>4, <1>11, <1>12 DEF GraphSound, OutsSound
  <2> QED BY <1>11, <2>1, <2>2, <2>3, <2>4 DEF GraphSound
<1>14. NamesKnown(g2, M \cup {a}) /\ GatesKnown(g2, S) /\ OutsKnown(g2, O)
  BY <1>3, <1>11, <1>12, SMTT(30) DEF Built, NamesKnown, GatesKnown, Realizes, OutsKnown
<1>15. InsKnown(g2, Append(nm, a))
  <2>1. PICK nn : nn = Append(nm, a)
    OBVIOUS
  <2>2. Len(g1.ins) = Len(nm)
    BY <1>3 DEF Built, InsKnown
  <2>3. /\ Len(nn) = Len(g1.ins) + 1 /\ nn[Len(g1.ins) + 1] = a
        /\ \A i \in 1 .. Len(g1.ins) : nn[i] = nm[i]
    BY <1>8, <2>1, <2>2
  <2>4. ASSUME NEW i \in 1 .. Len(g1.ins) + 1
        PROVE  is[i] \in NamedLines(g2) /\ g2.lines[is[i]].name = nn[i]
    <3>1. CASE i = Len(g1.ins) + 1
      BY <1>3, <1>8, <1>11, <1>12, <2>3, <3>1
    <3>2. CASE i \in 1 .. Len(g1.ins)
      BY <1>3, <1>8, <1>11, <1>12, <2>3, <3>2 DEF Built, InsKnown
    <3> QED BY <1>8, <3>1, <3>2
  <2>5. InsKnown(g2, nn)
    BY <1>8, <1>11, <2>3, <2>4 DEF InsKnown
  <2> QED BY <2>1, <2>5
<1> QED BY <1>10, <1>13, <1>14, <1>15 DEF Built

LEMMA AddOutputBuilds ==
  ASSUME NEW Names, NEW gr, NEW M, NEW S, NEW nm, NEW O,
         Built(gr, Names, M, S, nm, O), NEW a \in Names
  PROVE  Built(AddOutput(gr, a), Names, M \cup {a}, S, nm, O \cup {a})
<1>1. PICK g1 : g1 = EnsureLine(gr, a)
  OBVIOUS
<1>2. PICK l : l = LineOf(g1, a)
  OBVIOUS
<1>3. Built(g1, Names, M \cup {a}, S, nm, O) /\ l \in NamedLines(g1) /\ g1.lines[l].name = a
  BY <1>1, <1>2, EnsureBuilt
<1>4. g1 \in GraphType(Names) /\ GraphSound(g1, Names)
  BY <1>3 DEF Built, GraphSound
<1>5. l \in Nat /\ l \in DOMAIN g1.lines /\ g1.lines[l] \in LineType(Names)
  BY <1>3, <1>4, GraphParts DEF NamedLines
<1>6. CASE g1.lines[l].is_output
  <2>1. l \in Range(g1.outs)
    BY <1>4, <1>5, <1>6 DEF GraphSound, OutsSound
  <2>2. a \in {g1.lines[k].name : k \in Range(g1.outs)}
    BY <1>3, <2>1
  <2>3. a \in O
    BY <1>3, <2>2 DEF Built, OutsKnown
  <2>4. O \cup {a} = O
    BY <2>3
  <2>5. AddOutput(gr, a) = g1
    BY <1>1, <1>2, <1>6 DEF AddOutput
  <2> QED BY <1>3, <2>4, <2>5
<1>7. CASE ~g1.lines[l].is_output
  <2>1. PICK os : os = Append(g1.outs, l)
    OBVIOUS
  <2>2. g1.outs \in Seq(Nat)
    BY <1>4 DEF GraphType
  <2>3. /\ os \in Seq(Nat) /\ os[Len(g1.outs) + 1] = l
        /\ \A i \in 1 .. Len(g1.outs) : os[i] = g1.outs[i]
        /\ DOMAIN os = 1 .. Len(g1.outs) + 1 /\ Len(g1.outs) \in Nat
        /\ DOMAIN g1.outs = 1 .. Len(g1.outs)
    BY <1>5, <2>1, <2>2
  <2>4. Range(os) = Range(g1.outs) \cup {l}
    <3>1. \A i \in 1 .. Len(g1.outs) + 1 : i = Len(g1.outs) + 1 \/ i \in 1 .. Len(g1.outs)
      BY <2>3
    <3>2. \A i \in 1 .. Len(g1.outs) : i \in 1 .. Len(g1.outs) + 1
      BY <2>3
    <3>3. Len(g1.outs) + 1 \in 1 .. Len(g1.outs) + 1
      BY <2>3
    <3> QED BY <2>3, <3>1, <3>2, <3>3 DEF Range
  <2>5. PICK line : line = [g1.lines[l] EXCEPT !.is_output = TRUE]
    OBVIOUS
  <2>6. /\ line \in LineType(Names) /\ line.is_output = TRUE
        /\ line.name = g1.lines[l].name /\ line.generated = g1.lines[l].generated
        /\ line.source = g1.lines[l].source /\ line.dests = g1.lines[l].dests
    BY <1>5, <2>5 DEF LineType
  <2>7. PICK ls : ls = [g1.lines EXCEPT ![l] = line]
    OBVIOUS
  <2>8. g1.lines \in Seq(LineType(Names))
    BY <1>4 DEF GraphType
  <2>9. /\ ls \in Seq(LineType(Names)) /\ DOMAIN ls = DOMAIN g1.lines /\ ls[l] = line
        /\ \A k \in DOMAIN g1.lines : k # l => ls[k] = g1.lines[k]
    BY <1>5, <2>6, <2>7, <2>8
  <2>10. PICK g2 : g2 = [g1 EXCEPT !.outs = os, !.lines = ls]
    OBVIOUS
  <2>11. AddOutput(gr, a) = g2
    BY <1>1, <1>2, <1>7, <2>1, <2>5, <2>7, <2>10 DEF AddOutput
  <2>12. /\ g2 \in GraphType(Names) /\ g2.lines = ls /\ g2.gates = g1.gates
         /\ g2.outs = os /\ g2.ins = g1.ins
    BY <1>4, <2>3, <2>9, <2>10 DEF GraphType
  <2>13. /\ DOMAIN g2.lines = DOMAIN g1.lines
         /\ \A k \in DOMAIN g1.lines :
              /\ g2.lines[k].name = g1.lines[k].name
              /\ g2.lines[k].generated = g1.lines[k].generated
              /\ g2.lines[k].source = g1.lines[k].source
              /\ g2.lines[k].dests = g1.lines[k].dests
              /\ k # l => g2.lines[k].is_output = g1.lines[k].is_output
         /\ g2.lines[l].is_output = TRUE
    BY <2>6, <2>9, <2>12
  <2>14. NamedLines(g2) = NamedLines(g1)
    BY <2>13 DEF NamedLines
  <2>15. GraphSound(g2, Names)
    <3>1. ChainsSound(g2)
      <4>1. PICK first \in [DOMAIN g1.gates -> Nat] : Chains(g1, first)
        BY <1>4 DEF GraphSound, ChainsSound
      <4>2. Chains(g2, first)
        BY <2>12, <2>13, <4>1 DEF Chains
      <4> QED BY <2>12, <4>2 DEF ChainsSound
    <3>2. OneName(g2) /\ GatesSound(g2)
      BY <1>4, <2>12, <2>13, <2>14 DEF GraphSound, OneName, GatesSound, NamedLines
    <3>3. LinesSound(g2)
      BY <1>3, <1>4, <2>12, <2>13 DEF GraphSound, LinesSound, NamedLines
    <3>4. DestsSound(g2)
      BY <1>4, <2>12, <2>13 DEF GraphSound, DestsSound
    <3>5. OutsSound(g2)
      <4>1. l \notin Range(g1.outs)
        BY <1>4, <1>5, <1>7 DEF GraphSound, OutsSound
      <4>2. IsInjective(os)
        <5> SUFFICES ASSUME NEW i \in DOMAIN os, NEW j \in DOMAIN os, os[i] = os[j]
                     PROVE  i = j
          BY DEF IsInjective
        <5>1. \A k \in 1 .. Len(g1.outs) + 1 : k = Len(g1.outs) + 1 \/ k \in 1 .. Len(g1.outs)
          BY <2>3
        <5>2. \A k \in 1 .. Len(g1.outs) : os[k] # l
          BY <2>3, <4>1 DEF Range
        <5>3. \A k, m \in 1 .. Len(g1.outs) : os[k] = os[m] => k = m
          BY <1>4, <2>3 DEF GraphSound, OutsSound, IsInjective
        <5> QED BY <2>3, <5>1, <5>2, <5>3
      <4>3. \A k \in Range(os) : k \in NamedLines(g2)
        BY <1>3, <1>4, <2>4, <2>14 DEF GraphSound, OutsSound
      <4>4. \A k \in DOMAIN g2.lines : g2.lines[k].is_output <=> k \in Range(os)
        BY <1>4, <2>4, <2>13 DEF GraphSound, OutsSound
      <4> QED BY <2>12, <4>2, <4>3, <4>4 DEF OutsSound
    <3> QED BY <2>12, <3>1, <3>2, <3>3, <3>4, <3>5 DEF GraphSound
  <2>16. NamesKnown(g2, M \cup {a})
    BY <1>3, <2>13, <2>14 DEF Built, NamesKnown, NamedLines
  <2>17. GatesKnown(g2, S)
    <3>1. ASSUME NEW g \in DOMAIN g1.gates, NEW st
          PROVE  Realizes(g1, g, st) <=> Realizes(g2, g, st)
      <4>1. g1.gates[g].output \in DOMAIN g1.lines
        BY <1>4 DEF GraphSound, GatesSound, NamedLines
      <4>2. \A i \in DOMAIN g1.gates[g].inputs : g1.gates[g].inputs[i] \in DOMAIN g1.lines
        BY <1>4 DEF GraphSound, GatesSound, NamedLines
      <4>3. \A k \in DOMAIN g1.lines : g2.lines[k].name = g1.lines[k].name
        BY <2>13
      <4>4. g1.gates[g].inputs \in Seq(Nat)
        BY <1>4, GraphParts DEF GateType
      <4> QED BY <2>12, <4>1, <4>2, <4>3, <4>4, SMTT(30) DEF Realizes
    <3> QED BY <1>3, <2>12, <3>1 DEF Built, GatesKnown
  <2>18. InsKnown(g2, nm)
    BY <1>3, <2>12, <2>13, <2>14 DEF Built, InsKnown, NamedLines
  <2>19. OutsKnown(g2, O \cup {a})
    <3>1. \A k \in Range(g1.outs) : g2.lines[k].name = g1.lines[k].name
      BY <1>4, <2>13 DEF GraphSound, OutsSound, NamedLines
    <3>2. O = {g1.lines[k].name : k \in Range(g1.outs)}
      BY <1>3 DEF Built, OutsKnown
    <3>3. g2.lines[l].name = a
      BY <1>3, <1>5, <2>13
    <3> QED BY <2>4, <2>12, <3>1, <3>2, <3>3 DEF OutsKnown
  <2> QED BY <2>11, <2>15, <2>16, <2>17, <2>18, <2>19 DEF Built
<1> QED BY <1>6, <1>7

------------------------------------------------------------------------------
LEMMA AppendRange ==
  ASSUME NEW T, NEW s \in Seq(T), NEW x \in T
  PROVE  \A y : y \in Range(Append(s, x)) <=> y \in Range(s) \/ y = x
<1>1. PICK t : t = Append(s, x)
  OBVIOUS
<1>2. /\ DOMAIN t = 1 .. Len(s) + 1 /\ t[Len(s) + 1] = x /\ Len(s) \in Nat
      /\ \A i \in 1 .. Len(s) : t[i] = s[i]
      /\ DOMAIN s = 1 .. Len(s)
  BY <1>1
<1>3. \A i \in 1 .. Len(s) + 1 : i = Len(s) + 1 \/ i \in 1 .. Len(s)
  BY <1>2
<1>4. \A i \in 1 .. Len(s) : i \in 1 .. Len(s) + 1
  BY <1>2
<1>5. Len(s) + 1 \in 1 .. Len(s) + 1
  BY <1>2
<1>6. \A y : y \in Range(t) <=> y \in Range(s) \/ y = x
  BY <1>2, <1>3, <1>4, <1>5 DEF Range
<1> QED BY <1>1, <1>6

LEMMA ChangedElement ==
  ASSUME NEW T, NEW s \in Seq(T), NEW i \in DOMAIN s, NEW x \in T,
         NEW t, t = [s EXCEPT ![i] = x]
  PROVE  /\ t \in Seq(T) /\ DOMAIN t = DOMAIN s /\ Len(t) = Len(s) /\ t[i] = x
         /\ \A k \in DOMAIN s : k # i => t[k] = s[k]
OBVIOUS

\* t is s with one element more, x.
Appended(s, x, t) ==
  /\ DOMAIN t = 1 .. Len(s) + 1 /\ t[Len(s) + 1] = x
  /\ \A i \in 1 .. Len(s) : t[i] = s[i]

LEMMA AppendedIs ==
  ASSUME NEW T, NEW s \in Seq(T), NEW x \in T
  PROVE  Appended(s, x, Append(s, x))
<1>1. PICK t : t = Append(s, x)
  OBVIOUS
<1>2. /\ DOMAIN t = 1 .. Len(s) + 1 /\ t[Len(s) + 1] = x
      /\ \A i \in 1 .. Len(s) : t[i] = s[i]
  BY <1>1
<1>3. Appended(s, x, t)
  BY <1>2 DEF Appended
<1> QED BY <1>1, <1>3, Zenon

LEMMA AppendedInjective ==
  ASSUME NEW T, NEW s \in Seq(T), NEW x, IsInjective(s), x \notin Range(s),
         NEW t, Appended(s, x, t)
  PROVE  IsInjective(t)
<1>2. /\ DOMAIN t = 1 .. Len(s) + 1 /\ t[Len(s) + 1] = x /\ Len(s) \in Nat
      /\ \A i \in 1 .. Len(s) : t[i] = s[i]
      /\ DOMAIN s = 1 .. Len(s)
  BY DEF Appended
<1>3. \A i \in 1 .. Len(s) + 1 : i = Len(s) + 1 \/ i \in 1 .. Len(s)
  BY <1>2
<1>4. \A i \in 1 .. Len(s) : t[i] # x
  BY <1>2 DEF Range
<1>5. \A i, j \in 1 .. Len(s) : t[i] = t[j] => i = j
  BY <1>2 DEF IsInjective
<1> QED BY <1>2, <1>3, <1>4, <1>5 DEF IsInjective

\* Connect, one input after the other.
ConnectBy(lines, g, ins, f) ==
  /\ DOMAIN f = 0 .. Len(ins) /\ f[0] = lines
  /\ \A k \in 1 .. Len(ins) : f[k] = ConnectAsInput(f[k - 1], g, ins[k], k)
  /\ Connect(lines, g, ins) = f[Len(ins)]

LEMMA ConnectSteps ==
  ASSUME NEW lines, NEW g, NEW ins, Len(ins) \in Nat
  PROVE  \E f : ConnectBy(lines, g, ins, f)
<1> DEFINE Upto(f, m) == f = [k \in 0 .. m |-> IF k = 0 THEN lines ELSE ConnectAsInput(f[k - 1], g, ins[k], k)]
           Found == {m \in Nat : \E f : Upto(f, m)}
<1>1. 0 \in Found
  <2> DEFINE f == [k \in 0 .. 0 |-> lines]
  <2>1. Upto(f, 0)
    OBVIOUS
  <2> QED BY <2>1
<1>2. ASSUME NEW m \in Found
      PROVE  m + 1 \in Found
  <2>1. PICK f : Upto(f, m)
    OBVIOUS
  <2> DEFINE more == [k \in 0 .. m + 1 |-> IF k = m + 1 THEN ConnectAsInput(f[m], g, ins[m + 1], m + 1) ELSE f[k]]
  <2>2. \A k \in 0 .. m + 1 : more[k] = IF k = 0 THEN lines ELSE ConnectAsInput(more[k - 1], g, ins[k], k)
    BY <2>1
  <2>3. more = [k \in 0 .. m + 1 |-> more[k]]
    OBVIOUS
  <2> HIDE DEF more
  <2>4. Upto(more, m + 1)
    BY <2>2, <2>3
  <2>5. m + 1 \in Nat
    OBVIOUS
  <2> HIDE DEF Upto
  <2> QED BY <2>4, <2>5
<1>3. Found = Nat
  <2>1. Found \in SUBSET Nat
    OBVIOUS
  <2> HIDE DEF Found
  <2> QED BY <1>1, <1>2, <2>1, InductionOverNat
<1>4. PICK f : Upto(f, Len(ins))
  BY <1>3
<1> DEFINE whole == CHOOSE f_1 : Upto(f_1, Len(ins))
<1>5. Upto(whole, Len(ins))
  <2> HIDE DEF Upto
  <2> QED BY <1>4
<1>6. Connect(lines, g, ins) = whole[Len(ins)]
  BY DEF Connect
<1> HIDE DEF whole
<1>7. ConnectBy(lines, g, ins, whole)
  BY <1>5, <1>6 DEF ConnectBy
<1> QED BY <1>7

\* ls is lines with the first k inputs of gate g connected.
Connected(lines, ls, g, ins, k) ==
  /\ DOMAIN ls = DOMAIN lines
  /\ \A l \in DOMAIN lines :
       /\ ls[l].name = lines[l].name /\ ls[l].generated = lines[l].generated
       /\ ls[l].source = lines[l].source /\ ls[l].is_output = lines[l].is_output
       /\ IsInjective(ls[l].dests)
       /\ \A c : c \in Range(ls[l].dests) <=>
            \/ c \in Range(lines[l].dests)
            \/ \E i \in 1 .. k : ins[i] = l /\ c = [gate |-> g, idx |-> i]
       /\ (\A i \in 1 .. k : ins[i] # l) => ls[l].dests = lines[l].dests

\* A line on which gate g is not yet a destination.
Unconnected(lines, g) ==
  \A l \in DOMAIN lines :
    IsInjective(lines[l].dests) /\ \A c \in Range(lines[l].dests) : c.gate # g

LEMMA ConnectOneMore ==
  ASSUME NEW Names, NEW lines \in Seq(LineType(Names)), NEW g \in Nat,
         Unconnected(lines, g), NEW ins \in Seq(DOMAIN lines), NEW k \in Nat, k + 1 <= Len(ins),
         NEW ls \in Seq(LineType(Names)), Connected(lines, ls, g, ins, k),
         NEW lt, lt = ConnectAsInput(ls, g, ins[k + 1], k + 1)
  PROVE  lt \in Seq(LineType(Names)) /\ Connected(lines, lt, g, ins, k + 1)
<1>1. PICK m : m = ins[k + 1]
  OBVIOUS
<1>2. m \in DOMAIN lines /\ m \in DOMAIN ls
  <2>1. k + 1 \in DOMAIN ins
    OBVIOUS
  <2> QED BY <1>1, <2>1, SeqElements DEF Connected
<1>3. PICK c : c = [gate |-> g, idx |-> k + 1]
  OBVIOUS
<1>4. c \in [gate : Nat, idx : Nat] /\ c.gate = g /\ c.idx = k + 1
  BY <1>3
<1>5. PICK old : old = ls[m]
  OBVIOUS
<1>6. old \in LineType(Names) /\ old.dests \in Seq([gate : Nat, idx : Nat])
  <2>1. old \in LineType(Names)
    BY <1>2, <1>5, SeqElements
  <2> QED BY <2>1 DEF LineType
<1>7. PICK ds : ds = Append(old.dests, c)
  OBVIOUS
<1>8. /\ \A y : y \in Range(ds) <=> y \in Range(old.dests) \/ y = c
      /\ ds \in Seq([gate : Nat, idx : Nat])
  <2>1. PICK C : C = [gate : Nat, idx : Nat]
    OBVIOUS
  <2>2. c \in C /\ old.dests \in Seq(C)
    BY <1>4, <1>6, <2>1
  <2>3. \A y : y \in Range(ds) <=> y \in Range(old.dests) \/ y = c
    BY <1>7, <2>2, AppendRange
  <2>4. ds \in Seq(C)
    BY <1>7, <2>2
  <2> QED BY <2>1, <2>3, <2>4
<1>9. PICK line : line = [old EXCEPT !.dests = ds]
  OBVIOUS
<1>10. /\ line \in LineType(Names) /\ line.dests = ds /\ line.name = old.name
       /\ line.generated = old.generated /\ line.source = old.source
       /\ line.is_output = old.is_output
  BY <1>6, <1>8, <1>9 DEF LineType
<1>11. lt = [ls EXCEPT ![m] = line]
  BY <1>1, <1>3, <1>5, <1>7, <1>9 DEF ConnectAsInput
<1>12. /\ lt \in Seq(LineType(Names)) /\ DOMAIN lt = DOMAIN ls /\ lt[m] = line
       /\ \A l \in DOMAIN ls : l # m => lt[l] = ls[l]
  BY <1>2, <1>10, <1>11, ChangedElement
<1>13. \A i \in 1 .. k + 1 : i \in 1 .. k \/ i = k + 1
  OBVIOUS
<1>14. \A i \in 1 .. k : i \in 1 .. k + 1 /\ i # k + 1
  OBVIOUS
<1>15. k + 1 \in 1 .. k + 1
  OBVIOUS
<1>16. c \notin Range(old.dests)
  <2>1. SUFFICES ASSUME c \in Range(old.dests)
                 PROVE  FALSE
    OBVIOUS
  <2>2. CASE c \in Range(lines[m].dests)
    BY <1>2, <1>4, <2>2 DEF Unconnected
  <2>3. ASSUME NEW i \in 1 .. k, c = [gate |-> g, idx |-> i]
        PROVE  FALSE
    BY <1>4, <1>14, <2>3
  <2> QED BY <1>2, <1>5, <2>1, <2>2, <2>3 DEF Connected
<1>17. IsInjective(ds)
  <2>1. IsInjective(old.dests)
    BY <1>2, <1>5 DEF Connected
  <2>2. PICK C : C = [gate : Nat, idx : Nat]
    OBVIOUS
  <2>3. PICK od : od = old.dests
    OBVIOUS
  <2>4. c \in C /\ od \in Seq(C) /\ IsInjective(od) /\ c \notin Range(od) /\ ds = Append(od, c)
    BY <1>4, <1>6, <1>7, <1>16, <2>1, <2>2, <2>3
  <2>5. Appended(od, c, ds)
    BY <2>4, AppendedIs, Zenon
  <2> QED BY <2>4, <2>5, AppendedInjective
<1>18. ASSUME NEW l \in DOMAIN lines
       PROVE  /\ lt[l].name = lines[l].name /\ lt[l].generated = lines[l].generated
              /\ lt[l].source = lines[l].source /\ lt[l].is_output = lines[l].is_output
              /\ IsInjective(lt[l].dests)
              /\ \A y : y \in Range(lt[l].dests) <=>
                   \/ y \in Range(lines[l].dests)
                   \/ \E i \in 1 .. k + 1 : ins[i] = l /\ y = [gate |-> g, idx |-> i]
              /\ (\A i \in 1 .. k + 1 : ins[i] # l) => lt[l].dests = lines[l].dests
  <2>1. /\ ls[l].name = lines[l].name /\ ls[l].generated = lines[l].generated
        /\ ls[l].source = lines[l].source /\ ls[l].is_output = lines[l].is_output
        /\ IsInjective(ls[l].dests)
        /\ \A y : y \in Range(ls[l].dests) <=>
             \/ y \in Range(lines[l].dests)
             \/ \E i \in 1 .. k : ins[i] = l /\ y = [gate |-> g, idx |-> i]
        /\ (\A i \in 1 .. k : ins[i] # l) => ls[l].dests = lines[l].dests
    BY DEF Connected
  <2>2. CASE l = m
    <3>1. lt[l] = line /\ ls[l] = old
      BY <1>5, <1>12, <2>2
    <3>2. \A y : y \in Range(lt[l].dests) <=>
             \/ y \in Range(lines[l].dests)
             \/ \E i \in 1 .. k + 1 : ins[i] = l /\ y = [gate |-> g, idx |-> i]
      <4>1. ASSUME NEW y, y \in Range(lt[l].dests)
            PROVE  \/ y \in Range(lines[l].dests)
                   \/ \E i \in 1 .. k + 1 : ins[i] = l /\ y = [gate |-> g, idx |-> i]
        <5>1. y \in Range(old.dests) \/ y = c
          BY <1>8, <1>10, <3>1, <4>1
        <5>2. CASE y = c
          BY <1>1, <1>3, <1>15, <2>2, <5>2
        <5>3. CASE y \in Range(old.dests)
          BY <1>14, <2>1, <3>1, <5>3
        <5> QED BY <5>1, <5>2, <5>3
      <4>2. ASSUME NEW y, \/ y \in Range(lines[l].dests)
                          \/ \E i \in 1 .. k + 1 : ins[i] = l /\ y = [gate |-> g, idx |-> i]
            PROVE  y \in Range(lt[l].dests)
        <5>1. y \in Range(old.dests) \/ y = c
          BY <1>3, <1>13, <2>1, <3>1, <4>2
        <5> QED BY <1>8, <1>10, <3>1, <5>1
      <4> QED BY <4>1, <4>2
    <3>3. ~(\A i \in 1 .. k + 1 : ins[i] # l)
      BY <1>1, <1>15, <2>2
    <3> QED BY <1>10, <1>17, <2>1, <3>1, <3>2, <3>3
  <2>3. CASE l # m
    <3>1. lt[l] = ls[l]
      BY <1>2, <1>12, <2>3 DEF Connected
    <3>2. ins[k + 1] # l
      BY <1>1, <2>3
    <3>3. \A y : (\E i \in 1 .. k : ins[i] = l /\ y = [gate |-> g, idx |-> i])
                 <=> (\E i \in 1 .. k + 1 : ins[i] = l /\ y = [gate |-> g, idx |-> i])
      BY <1>13, <1>14, <3>2
    <3> QED BY <1>14, <2>1, <3>1, <3>3
  <2> QED BY <2>2, <2>3
<1>19. DOMAIN lt = DOMAIN lines
  BY <1>12 DEF Connected
<1> QED BY <1>12, <1>18, <1>19 DEF Connected

LEMMA ConnectIs ==
  ASSUME NEW Names, NEW lines \in Seq(LineType(Names)), NEW g \in Nat,
         Unconnected(lines, g), NEW ins \in Seq(DOMAIN lines)
  PROVE  /\ Connect(lines, g, ins) \in Seq(LineType(Names))
         /\ Connected(lines, Connect(lines, g, ins), g, ins, Len(ins))
<1>1. Len(ins) \in Nat
  OBVIOUS
<1>2. PICK f : ConnectBy(lines, g, ins, f)
  BY <1>1, ConnectSteps
<1>3. /\ f[0] = lines
      /\ \A k \in 1 .. Len(ins) :
           f[k] = ConnectAsInput(f[k - 1], g, ins[k], k)
      /\ Connect(lines, g, ins) = f[Len(ins)]
  BY <1>2 DEF ConnectBy
<1> DEFINE Fine(k) == f[k] \in Seq(LineType(Names)) /\ Connected(lines, f[k], g, ins, k)
           B == {k \in Nat : k <= Len(ins) => Fine(k)}
<1>4. 0 \in B
  <2>1. Connected(lines, f[0], g, ins, 0)
    BY <1>3 DEF Connected, Unconnected
  <2> QED BY <1>3, <2>1
<1>5. ASSUME NEW k \in B
      PROVE  k + 1 \in B
  <2>1. SUFFICES ASSUME k + 1 <= Len(ins)
                 PROVE  Fine(k + 1)
    OBVIOUS
  <2>2. k \in Nat /\ Fine(k) /\ k + 1 \in 1 .. Len(ins)
    BY <1>1, <2>1
  <2>3. (k + 1) - 1 = k
    BY <2>2
  <2>4. f[k + 1] = ConnectAsInput(f[k], g, ins[k + 1], k + 1)
    BY <1>3, <2>2, <2>3
  <2> QED BY <2>1, <2>2, <2>4, ConnectOneMore
<1>6. Fine(Len(ins))
  <2>1. B = Nat
    <3>1. B \in SUBSET Nat
      OBVIOUS
    <3> HIDE DEF B
    <3> QED BY <1>4, <1>5, <3>1, InductionOverNat
  <2>2. Len(ins) \in B
    <3> HIDE DEF B
    <3> QED BY <1>1, <2>1
  <2> HIDE DEF Fine
  <2> QED BY <1>1, <2>2
<1> QED BY <1>3, <1>6

------------------------------------------------------------------------------
LEMMA ArityMeans ==
  ASSUME NEW type \in GateTypes, NEW n, ArityOk(type, n)
  PROVE  /\ type \in {"AND", "NAND", "OR", "NOR"} => n >= 2
         /\ type \in {"XOR", "XNOR"} => n = 2
         /\ type \in {"NOT", "BUF"} => n = 1
<1>1. CASE type \in {"AND", "NAND", "OR", "NOR"}
  BY <1>1 DEF ArityOk
<1>2. CASE type \in {"XOR", "XNOR"}
  BY <1>2 DEF ArityOk
<1>3. CASE type \in {"NOT", "BUF"}
  BY <1>3 DEF ArityOk
<1> QED BY <1>1, <1>2, <1>3

\* The links of an expanded gate are gates of two inputs, or the gate itself.
LEMMA ExpandType ==
  ASSUME NEW type \in GateTypes, NEW ins \in Seq(Nat), ArityOk(type, Len(ins)),
         NEW out \in Nat, NEW first \in Nat \ {0}
  PROVE  Expand(type, ins, out, first) \in Seq(LinkType)
<1>1. CASE Len(ins) <= 2
  <2>1. PICK e : e = [type |-> type, inputs |-> ins, output |-> out]
    OBVIOUS
  <2>2. e \in LinkType
    BY <2>1 DEF LinkType
  <2>3. Expand(type, ins, out, first) = <<e>>
    BY <1>1, <2>1 DEF Expand
  <2> QED BY <2>2, <2>3
<1>2. CASE ~(Len(ins) <= 2)
  <2>1. PICK n : n = Len(ins)
    OBVIOUS
  <2>2. n \in Nat /\ n > 2
    BY <1>2, <2>1
  <2> DEFINE link(k) == [type   |-> IF k = n - 1 THEN type ELSE InnerType(type),
                         inputs |-> <<ins[n - k], IF k = 1 THEN ins[n] ELSE first + k - 2>>,
                         output |-> IF k = n - 1 THEN out ELSE first + k - 1]
  <2>3. InnerType(type) \in GateTypes
    <3>1. type \in {"AND", "NAND", "OR", "NOR"}
      BY <2>1, <2>2, ArityMeans DEF GateTypes
    <3> QED BY <3>1 DEF GateTypes, InnerType
  <2>4. ASSUME NEW k \in 1 .. n - 1
        PROVE  link(k) \in LinkType
    <3>1. ins[n - k] \in Nat
      BY <2>1, <2>2
    <3>2. PICK y : y = IF k = 1 THEN ins[n] ELSE first + k - 2
      OBVIOUS
    <3>3. y \in Nat
      BY <2>1, <2>2, <3>2
    <3>4. PICK is : is = <<ins[n - k], y>>
      OBVIOUS
    <3>5. is \in Seq(Nat)
      BY <3>1, <3>3, <3>4
    <3>6. PICK o : o = IF k = n - 1 THEN out ELSE first + k - 1
      OBVIOUS
    <3>7. o \in Nat
      BY <2>2, <3>6
    <3>8. PICK t : t = IF k = n - 1 THEN type ELSE InnerType(type)
      OBVIOUS
    <3>9. t \in GateTypes
      BY <2>3, <3>8
    <3>10. [type |-> t, inputs |-> is, output |-> o] \in LinkType
      BY <3>5, <3>7, <3>9 DEF LinkType
    <3> QED BY <3>2, <3>4, <3>6, <3>8, <3>10
  <2>5. Expand(type, ins, out, first) = [k \in 1 .. n - 1 |-> link(k)]
    BY <2>1, <2>2 DEF Expand
  <2> HIDE DEF link
  <2>6. [k \in 1 .. n - 1 |-> link(k)] \in [1 .. n - 1 -> LinkType]
    BY <2>4
  <2>7. PICK m \in Nat : m = n - 1
    BY <2>2
  <2>8. PICK e : e = [k \in 1 .. m |-> link(k)]
    OBVIOUS
  <2>9. e \in [1 .. m -> LinkType]
    BY <2>6, <2>7, <2>8
  <2>10. e \in Seq(LinkType)
    BY <2>9
  <2> QED BY <2>5, <2>7, <2>8, <2>10
<1> QED BY <1>1, <1>2

\* The lines of a graph g1 after the new gate number g got its lines.
GateLines(g1, g, ins, out, name, made, ls) ==
  /\ DOMAIN ls = 1 .. Len(g1.lines) + made
  /\ \A l \in 1 .. Len(g1.lines) :
       /\ ls[l].name = g1.lines[l].name /\ ls[l].generated = g1.lines[l].generated
       /\ ls[l].is_output = g1.lines[l].is_output
       /\ ls[l].source = (IF l = out THEN g ELSE g1.lines[l].source)
       /\ IsInjective(ls[l].dests)
       /\ \A c : c \in Range(ls[l].dests) <=>
            \/ c \in Range(g1.lines[l].dests)
            \/ \E i \in DOMAIN ins : ins[i] = l /\ c = [gate |-> g, idx |-> i]
       /\ (\A i \in DOMAIN ins : ins[i] # l) => ls[l].dests = g1.lines[l].dests
  /\ \A l \in (Len(g1.lines) + 1) .. (Len(g1.lines) + made) :
       /\ ls[l].name = name /\ ls[l].generated = TRUE /\ ls[l].is_output = FALSE
       /\ ls[l].source = NoGate /\ ls[l].dests = <<>>

\* The whole of AddGate on a graph that has the lines already.
GateAdded(g1, g2, gate, name) ==
  LET n == Len(gate.inputs) IN
  /\ GateLines(g1, Len(g1.gates) + 1, gate.inputs, gate.output, name,
               IF n > 2 THEN n - 2 ELSE 0, g2.lines)
  /\ g2.ins = g1.ins /\ g2.outs = g1.outs
  /\ DOMAIN g2.gates = 1 .. Len(g1.gates) + 1
  /\ \A g \in 1 .. Len(g1.gates) : g2.gates[g] = g1.gates[g]
  /\ g2.gates[Len(g1.gates) + 1] = gate

\* The lines as they stand before the gate is connected to them.
LinesFor(g1, g, out, name, made) ==
  [g1.lines EXCEPT ![out].source = g] \o [k \in 1 .. made |-> NewLine(name, TRUE)]

LEMMA NewGateLines ==
  ASSUME NEW Names, NEW g1, GraphSound(g1, Names), NEW g, g = Len(g1.gates) + 1,
         NEW ins \in Seq(DOMAIN g1.lines), NEW out \in DOMAIN g1.lines,
         NEW name \in Names, NEW made \in Nat
  PROVE  LET ls == Connect(LinesFor(g1, g, out, name, made), g, ins) IN
         ls \in Seq(LineType(Names)) /\ GateLines(g1, g, ins, out, name, made, ls)
<1>1. /\ g1 \in GraphType(Names) /\ g \in Nat /\ g \notin DOMAIN g1.gates
      /\ g1.lines \in Seq(LineType(Names))
      /\ Len(g1.lines) \in Nat /\ DOMAIN g1.lines = 1 .. Len(g1.lines)
  <2>1. g1 \in GraphType(Names)
    BY DEF GraphSound
  <2> QED BY <2>1, GraphParts DEF GraphType
<1>4. PICK old : old = g1.lines[out]
  OBVIOUS
<1>5. out \in DOMAIN g1.lines /\ old \in LineType(Names) /\ ins \in Seq(DOMAIN g1.lines)
  BY <1>1, <1>4, SeqElements
<1>6. PICK driven : driven = [old EXCEPT !.source = g]
  OBVIOUS
<1>7. /\ driven \in LineType(Names) /\ driven.name = old.name
      /\ driven.generated = old.generated /\ driven.is_output = old.is_output
      /\ driven.source = g /\ driven.dests = old.dests
  BY <1>1, <1>5, <1>6 DEF LineType
<1>8. PICK l1 : l1 = [g1.lines EXCEPT ![out] = driven]
  OBVIOUS
<1>9. /\ l1 \in Seq(LineType(Names)) /\ DOMAIN l1 = DOMAIN g1.lines /\ Len(l1) = Len(g1.lines)
      /\ l1[out] = driven
      /\ \A k \in DOMAIN g1.lines : k # out => l1[k] = g1.lines[k]
  BY <1>1, <1>5, <1>7, <1>8, ChangedElement
<1>10. l1 = [g1.lines EXCEPT ![out].source = g]
  BY <1>4, <1>6, <1>8
<1>11. PICK new : new = NewLine(name, TRUE)
  OBVIOUS
<1>12. /\ new.name = name /\ new.generated = TRUE /\ new.is_output = FALSE
       /\ new.source = NoGate /\ new.dests = <<>> /\ new \in LineType(Names)
  <2>1. <<>> \in Seq([gate : Nat, idx : Nat])
    OBVIOUS
  <2> QED BY <1>11, <2>1 DEF NewLine, LineType, NoGate
<1>13. PICK l2 : l2 = [k \in 1 .. made |-> new]
  OBVIOUS
<1>14. l2 \in Seq(LineType(Names)) /\ Len(l2) = made /\ \A k \in 1 .. made : l2[k] = new
  BY <1>12, <1>13
<1>15. PICK l3 : l3 = l1 \o l2
  OBVIOUS
<1>16. /\ l3 \in Seq(LineType(Names)) /\ DOMAIN l3 = 1 .. Len(g1.lines) + made
       /\ \A k \in 1 .. Len(g1.lines) : l3[k] = l1[k]
       /\ \A k \in (Len(g1.lines) + 1) .. (Len(g1.lines) + made) : l3[k] = new
  <2>1. /\ l3 \in Seq(LineType(Names)) /\ Len(l3) = Len(l1) + Len(l2)
        /\ \A k \in 1 .. Len(l1) + Len(l2) :
             l3[k] = IF k <= Len(l1) THEN l1[k] ELSE l2[k - Len(l1)]
    <3>1. PICK T : T = LineType(Names)
      OBVIOUS
    <3>2. l1 \in Seq(T) /\ l2 \in Seq(T)
      BY <1>9, <1>14, <3>1
    <3>3. /\ l3 \in Seq(T) /\ Len(l3) = Len(l1) + Len(l2)
          /\ \A k \in 1 .. Len(l1) + Len(l2) :
               l3[k] = IF k <= Len(l1) THEN l1[k] ELSE l2[k - Len(l1)]
      BY <1>15, <3>2, ConcatProperties
    <3> QED BY <3>1, <3>3
  <2>2. Len(l3) = Len(g1.lines) + made /\ DOMAIN l3 = 1 .. Len(g1.lines) + made
    BY <1>9, <1>14, <2>1
  <2>3. ASSUME NEW k \in 1 .. Len(g1.lines)
        PROVE  l3[k] = l1[k]
    <3>1. k <= Len(l1) /\ k \in 1 .. Len(l1) + Len(l2)
      BY <1>1, <1>9, <1>14
    <3> QED BY <2>1, <3>1
  <2>4. ASSUME NEW k \in (Len(g1.lines) + 1) .. (Len(g1.lines) + made)
        PROVE  l3[k] = new
    <3>1. k - Len(g1.lines) \in 1 .. made /\ ~(k <= Len(g1.lines)) /\ k \in 1 .. Len(g1.lines) + made
      BY <1>1
    <3> QED BY <1>9, <1>14, <2>1, <3>1
  <2> QED BY <2>1, <2>2, <2>3, <2>4
<1>2. l3 = LinesFor(g1, g, out, name, made)
  BY <1>10, <1>11, <1>13, <1>15 DEF LinesFor
<1>17. PICK ls : ls = Connect(l3, g, ins)
  OBVIOUS
<1>18. DOMAIN g1.lines \subseteq DOMAIN l3
  BY <1>1, <1>16
<1>19. \A k \in 1 .. Len(g1.lines) : l3[k].dests = g1.lines[k].dests
  BY <1>1, <1>4, <1>7, <1>9, <1>16
<1>20. Unconnected(l3, g)
  <2>1. ASSUME NEW k \in 1 .. Len(g1.lines) + made
        PROVE  IsInjective(l3[k].dests) /\ \A c \in Range(l3[k].dests) : c.gate # g
    <3>1. CASE k \in 1 .. Len(g1.lines)
      <4>1. k \in DOMAIN g1.lines /\ l3[k].dests = g1.lines[k].dests
        BY <1>1, <1>19, <3>1
      <4>2. DestsSound(g1)
        BY DEF GraphSound
      <4>3. /\ IsInjective(g1.lines[k].dests)
            /\ \A c \in Range(g1.lines[k].dests) : c.gate \in DOMAIN g1.gates
        BY <4>1, <4>2 DEF DestsSound
      <4> QED BY <1>1, <4>1, <4>3
    <3>2. CASE k \in (Len(g1.lines) + 1) .. (Len(g1.lines) + made)
      <4>1. l3[k].dests = <<>>
        BY <1>12, <1>16, <3>2
      <4>2. IsInjective(<<>>) /\ Range(<<>>) = {}
        BY DEF IsInjective, Range
      <4> QED BY <4>1, <4>2
    <3> QED BY <1>1, <3>1, <3>2
  <2> QED BY <1>16, <2>1 DEF Unconnected
<1>21. ins \in Seq(DOMAIN l3)
  <2>1. PICK D : D = DOMAIN l3
    OBVIOUS
  <2>2. PICK E : E = DOMAIN g1.lines
    OBVIOUS
  <2>3. E \subseteq D /\ ins \in Seq(E)
    BY <1>5, <1>18, <2>1, <2>2
  <2>4. ins \in Seq(D)
    BY <2>3
  <2> QED BY <2>1, <2>4
<1>22. ls \in Seq(LineType(Names)) /\ Connected(l3, ls, g, ins, Len(ins))
  <2>1. l3 \in Seq(LineType(Names)) /\ g \in Nat
    BY <1>1, <1>16
  <2>2. /\ Connect(l3, g, ins) \in Seq(LineType(Names))
        /\ Connected(l3, Connect(l3, g, ins), g, ins, Len(ins))
    BY <1>20, <1>21, <2>1, ConnectIs, Zenon
  <2> QED BY <1>17, <2>2
<1>23. DOMAIN ins = 1 .. Len(ins)
  BY <1>5
<1>24. ASSUME NEW l \in 1 .. Len(g1.lines)
       PROVE  /\ ls[l].name = g1.lines[l].name /\ ls[l].generated = g1.lines[l].generated
              /\ ls[l].is_output = g1.lines[l].is_output
              /\ ls[l].source = (IF l = out THEN g ELSE g1.lines[l].source)
              /\ IsInjective(ls[l].dests)
              /\ \A c : c \in Range(ls[l].dests) <=>
                   \/ c \in Range(g1.lines[l].dests)
                   \/ \E i \in DOMAIN ins : ins[i] = l /\ c = [gate |-> g, idx |-> i]
              /\ (\A i \in DOMAIN ins : ins[i] # l) => ls[l].dests = g1.lines[l].dests
  <2>1. l \in DOMAIN l3
    BY <1>1, <1>18
  <2>2. /\ l3[l].name = g1.lines[l].name /\ l3[l].generated = g1.lines[l].generated
        /\ l3[l].is_output = g1.lines[l].is_output
        /\ l3[l].source = (IF l = out THEN g ELSE g1.lines[l].source)
    BY <1>1, <1>4, <1>7, <1>9, <1>16
  <2>3. /\ ls[l].name = l3[l].name /\ ls[l].generated = l3[l].generated
        /\ ls[l].source = l3[l].source /\ ls[l].is_output = l3[l].is_output
        /\ IsInjective(ls[l].dests)
        /\ \A c : c \in Range(ls[l].dests) <=>
             \/ c \in Range(l3[l].dests)
             \/ \E i \in 1 .. Len(ins) : ins[i] = l /\ c = [gate |-> g, idx |-> i]
        /\ (\A i \in 1 .. Len(ins) : ins[i] # l) => ls[l].dests = l3[l].dests
    BY <1>22, <2>1 DEF Connected
  <2> QED BY <1>19, <1>23, <2>2, <2>3
<1>25. ASSUME NEW l \in (Len(g1.lines) + 1) .. (Len(g1.lines) + made)
       PROVE  /\ ls[l].name = name /\ ls[l].generated = TRUE /\ ls[l].is_output = FALSE
              /\ ls[l].source = NoGate /\ ls[l].dests = <<>>
  <2>1. l \in DOMAIN l3
    BY <1>1, <1>16
  <2>2. l3[l] = new
    BY <1>16
  <2>3. \A i \in 1 .. Len(ins) : ins[i] # l
    BY <1>1, <1>5, <1>23
  <2>4. ls[l].dests = l3[l].dests
    BY <1>22, <2>1, <2>3 DEF Connected
  <2> QED BY <1>12, <1>22, <2>1, <2>2, <2>4 DEF Connected
<1>26. DOMAIN ls = 1 .. Len(g1.lines) + made
  BY <1>16, <1>22 DEF Connected
<1>27. GateLines(g1, g, ins, out, name, made, ls)
  BY <1>24, <1>25, <1>26 DEF GateLines
<1> QED BY <1>2, <1>17, <1>22, <1>27

\* The lines of a new gate are those named in its statement.
GateSaid(g1, gate, st) ==
  /\ gate \in GateType
  /\ gate.type = st.type
  /\ DOMAIN gate.inputs = DOMAIN st.ins
  /\ gate.inputs \in Seq(DOMAIN g1.lines)
  /\ \A i \in DOMAIN st.ins :
       gate.inputs[i] \in NamedLines(g1) /\ g1.lines[gate.inputs[i]].name = st.ins[i]
  /\ gate.output \in NamedLines(g1) /\ g1.lines[gate.output].name = st.name
  /\ gate.expanded = Expand(gate.type, gate.inputs, gate.output, Len(g1.lines) + 1)

LEMMA AddGateIs ==
  ASSUME NEW Names, NEW gr, NEW M, NEW S, NEW nm, NEW O, Built(gr, Names, M, S, nm, O),
         NEW st \in GateStatement(Names), ArityOk(st.type, Len(st.ins))
  PROVE  \E g1, gate :
           /\ Built(g1, Names, (M \cup Range(st.ins)) \cup {st.name}, S, nm, O)
           /\ GateSaid(g1, gate, st)
           /\ AddGate(gr, st.type, st.ins, st.name) \in GraphType(Names)
           /\ GateAdded(g1, AddGate(gr, st.type, st.ins, st.name), gate, st.name)
<1>1. PICK names : names = st.ins
  OBVIOUS
<1>2. PICK name : name = st.name
  OBVIOUS
<1>3. names \in Seq(Names) /\ name \in Names /\ st.type \in GateTypes
  BY <1>1, <1>2 DEF GateStatement
<1>4. PICK g0 : g0 = EnsureLines(gr, names)
  OBVIOUS
<1>5. gr \in GraphType(Names) /\ OneName(gr)
  BY DEF Built, GraphSound
<1>6. /\ g0 \in GraphType(Names) /\ Extends(gr, g0, Range(names))
      /\ \A a \in Range(names) : HasLine(g0, a)
  BY <1>3, <1>4, <1>5, EnsureMany
<1>7. Built(g0, Names, M \cup Range(names), S, nm, O)
  BY <1>6, ExtendsKeepsBuilt
<1>8. PICK g1 : g1 = EnsureLine(g0, name)
  OBVIOUS
<1>9. OneName(g0)
  BY <1>7 DEF Built, GraphSound
<1>10. g1 \in GraphType(Names) /\ Extends(g0, g1, {name}) /\ HasLine(g1, name)
  BY <1>3, <1>6, <1>8, <1>9, EnsureOne
<1>11. Built(g1, Names, (M \cup Range(names)) \cup {name}, S, nm, O)
  BY <1>7, <1>10, ExtendsKeepsBuilt
<1>12. \A a \in Range(names) : HasLine(g1, a)
  BY <1>6, <1>10, ExtendsKeepsNames
<1>13. PICK ins : ins = [i \in DOMAIN names |-> LineOf(g1, names[i])]
  OBVIOUS
<1>14. PICK out : out = LineOf(g1, name)
  OBVIOUS
<1>15. out \in NamedLines(g1) /\ g1.lines[out].name = name
  BY <1>10, <1>14, LineOfIs
<1>16. /\ DOMAIN ins = DOMAIN names
       /\ \A i \in DOMAIN names : ins[i] \in NamedLines(g1) /\ g1.lines[ins[i]].name = names[i]
  <2>1. \A i \in DOMAIN names : names[i] \in Range(names)
    BY DEF Range
  <2>2. \A i \in DOMAIN names : HasLine(g1, names[i])
    BY <1>12, <2>1
  <2>3. \A i \in DOMAIN names : ins[i] = LineOf(g1, names[i])
    BY <1>13
  <2> QED BY <1>13, <2>2, <2>3, LineOfIs
<1>17. DOMAIN names = 1 .. Len(names) /\ Len(names) \in Nat
  BY <1>3
<1>18. NamedLines(g1) \subseteq DOMAIN g1.lines /\ DOMAIN g1.lines \subseteq Nat
  BY <1>10, GraphParts DEF NamedLines
<1>19. ins \in Seq(DOMAIN g1.lines) /\ ins \in Seq(Nat) /\ Len(ins) = Len(names)
  <2>1. PICK n \in Nat : n = Len(names)
    BY <1>17
  <2>2. PICK D : D = DOMAIN g1.lines
    OBVIOUS
  <2>3. ins = [i \in 1 .. n |-> ins[i]]
    BY <1>13, <1>17, <2>1
  <2>4. \A i \in 1 .. n : ins[i] \in D /\ ins[i] \in Nat
    BY <1>16, <1>17, <1>18, <2>1, <2>2
  <2>5. ins \in [1 .. n -> D] /\ ins \in [1 .. n -> Nat]
    BY <2>3, <2>4
  <2>6. ins \in Seq(D) /\ ins \in Seq(Nat) /\ Len(ins) = n
    BY <2>5
  <2> QED BY <2>1, <2>2, <2>6
<1>20. PICK g : g = Len(g1.gates) + 1
  OBVIOUS
<1>21. PICK made : made = IF Len(ins) > 2 THEN Len(ins) - 2 ELSE 0
  OBVIOUS
<1>22. made \in Nat
  <2>1. CASE Len(ins) > 2
    BY <1>17, <1>19, <1>21, <2>1
  <2>2. CASE ~(Len(ins) > 2)
    BY <1>21, <2>2
  <2> QED BY <2>1, <2>2
<1>23. PICK expanded : expanded = Expand(st.type, ins, out, Len(g1.lines) + 1)
  OBVIOUS
<1>24. expanded \in Seq(LinkType)
  <2>1. PICK first : first = Len(g1.lines) + 1
    OBVIOUS
  <2>2. first \in Nat \ {0} /\ out \in Nat
    BY <1>10, <1>15, <1>18, <2>1, GraphParts
  <2>3. ArityOk(st.type, Len(ins))
    BY <1>1, <1>19
  <2> QED BY <1>3, <1>19, <1>23, <2>1, <2>2, <2>3, ExpandType
<1>25. PICK gate : gate = [type |-> st.type, inputs |-> ins, output |-> out,
                           expanded |-> expanded]
  OBVIOUS
<1>26. /\ gate \in GateType /\ gate.type = st.type /\ gate.inputs = ins
       /\ gate.output = out /\ gate.expanded = expanded
  BY <1>3, <1>15, <1>18, <1>19, <1>24, <1>25 DEF GateType
<1>27. GateSaid(g1, gate, st)
  BY <1>1, <1>2, <1>15, <1>16, <1>19, <1>23, <1>26 DEF GateSaid
<1>28. PICK l3 : l3 = [g1.lines EXCEPT ![out].source = g]
                      \o [k \in 1 .. made |-> NewLine(name, TRUE)]
  OBVIOUS
<1>29. PICK ls : ls = Connect(l3, g, ins)
  OBVIOUS
<1>30. ls \in Seq(LineType(Names)) /\ GateLines(g1, g, ins, out, name, made, ls)
  <2>1. GraphSound(g1, Names)
    BY <1>11 DEF Built
  <2>2. out \in DOMAIN g1.lines
    BY <1>15, <1>18
  <2>3. l3 = LinesFor(g1, g, out, name, made)
    BY <1>28 DEF LinesFor
  <2> QED BY <1>3, <1>19, <1>20, <1>22, <1>29, <2>1, <2>2, <2>3, NewGateLines, Zenon
<1>31. PICK gs : gs = Append(g1.gates, gate)
  OBVIOUS
<1>32. /\ gs \in Seq(GateType) /\ DOMAIN gs = 1 .. Len(g1.gates) + 1
       /\ gs[Len(g1.gates) + 1] = gate
       /\ \A h \in 1 .. Len(g1.gates) : gs[h] = g1.gates[h]
  <2>1. g1.gates \in Seq(GateType)
    BY <1>10 DEF GraphType
  <2> QED BY <1>26, <1>31, <2>1
<1>33. PICK g2 : g2 = [g1 EXCEPT !.gates = gs, !.lines = ls]
  OBVIOUS
<1>34. /\ g2 \in GraphType(Names) /\ g2.lines = ls /\ g2.gates = gs
       /\ g2.ins = g1.ins /\ g2.outs = g1.outs
  BY <1>10, <1>30, <1>32, <1>33 DEF GraphType
<1>35. AddGate(gr, st.type, names, name) = g2
  BY <1>4, <1>8, <1>13, <1>14, <1>20, <1>21, <1>23, <1>25, <1>28, <1>29, <1>31, <1>33
     DEF AddGate, FirstGenerated
<1>36. GateAdded(g1, g2, gate, name)
  BY <1>20, <1>21, <1>26, <1>30, <1>32, <1>34 DEF GateAdded
<1> QED BY <1>1, <1>2, <1>11, <1>27, <1>34, <1>35, <1>36

LEMMA GateAddedBuilds ==
  ASSUME NEW Names, NEW g1, NEW M, NEW S, NEW nm, NEW O, Built(g1, Names, M, S, nm, O),
         NEW st \in GateStatement(Names), ArityOk(st.type, Len(st.ins)), st.name \in M,
         \A s \in S : s.name # st.name,
         NEW gate, GateSaid(g1, gate, st),
         NEW g2 \in GraphType(Names), GateAdded(g1, g2, gate, st.name)
  PROVE  Built(g2, Names, M, S \cup {st}, nm, O)
<1>1. PICK n : n = Len(g1.lines)
  OBVIOUS
<1>2. PICK m : m = Len(g1.gates)
  OBVIOUS
<1>3. PICK made : made = IF Len(gate.inputs) > 2 THEN Len(gate.inputs) - 2 ELSE 0
  OBVIOUS
<1>4. /\ g1 \in GraphType(Names) /\ OneName(g1) /\ GatesSound(g1) /\ ChainsSound(g1)
      /\ LinesSound(g1) /\ DestsSound(g1) /\ OutsSound(g1)
  BY DEF Built, GraphSound
<1>5. /\ n \in Nat /\ m \in Nat /\ DOMAIN g1.lines = 1 .. n /\ DOMAIN g1.gates = 1 .. m
  BY <1>1, <1>2, <1>4, GraphParts
<1>6. PICK k : k = m + 1
  OBVIOUS
<1>7. k \in Nat /\ k # NoGate /\ k \notin 1 .. m /\ \A g \in 1 .. m : g # NoGate
  BY <1>5, <1>6 DEF NoGate
<1>8. PICK ins : ins = gate.inputs
  OBVIOUS
<1>9. PICK out : out = gate.output
  OBVIOUS
<1>10. /\ DOMAIN g2.gates = 1 .. m + 1 /\ g2.gates[k] = gate
       /\ \A g \in 1 .. m : g2.gates[g] = g1.gates[g]
       /\ g2.ins = g1.ins /\ g2.outs = g1.outs
       /\ GateLines(g1, k, ins, out, st.name, made, g2.lines)
  BY <1>2, <1>3, <1>6, <1>8, <1>9 DEF GateAdded
<1>11. \A g \in 1 .. m + 1 : g \in 1 .. m \/ g = k
  BY <1>5, <1>6
<1>12. made \in Nat /\ ins \in Seq(DOMAIN g1.lines) /\ Len(ins) \in Nat
  <2>1. ins \in Seq(DOMAIN g1.lines)
    BY <1>8 DEF GateSaid
  <2>2. Len(ins) \in Nat
    BY <2>1
  <2>3. CASE Len(ins) > 2
    BY <1>3, <1>8, <2>1, <2>2, <2>3
  <2>4. CASE ~(Len(ins) > 2)
    BY <1>3, <1>8, <2>1, <2>2, <2>4
  <2> QED BY <2>3, <2>4
<1>13. /\ DOMAIN g2.lines = 1 .. n + made
       /\ \A l \in 1 .. n :
            /\ g2.lines[l].name = g1.lines[l].name
            /\ g2.lines[l].generated = g1.lines[l].generated
            /\ g2.lines[l].is_output = g1.lines[l].is_output
            /\ g2.lines[l].source = (IF l = out THEN k ELSE g1.lines[l].source)
            /\ IsInjective(g2.lines[l].dests)
            /\ \A c : c \in Range(g2.lines[l].dests) <=>
                 \/ c \in Range(g1.lines[l].dests)
                 \/ \E i \in DOMAIN ins : ins[i] = l /\ c = [gate |-> k, idx |-> i]
            /\ (\A i \in DOMAIN ins : ins[i] # l) => g2.lines[l].dests = g1.lines[l].dests
       /\ \A l \in (n + 1) .. (n + made) :
            /\ g2.lines[l].name = st.name /\ g2.lines[l].generated = TRUE
            /\ g2.lines[l].is_output = FALSE /\ g2.lines[l].source = NoGate
            /\ g2.lines[l].dests = <<>>
  BY <1>1, <1>10 DEF GateLines
<1>14. \A l \in 1 .. n + made : l \in 1 .. n \/ l \in (n + 1) .. (n + made)
  BY <1>5, <1>12
<1>15. \A l \in 1 .. n : l \in 1 .. n + made /\ l \notin (n + 1) .. (n + made)
  BY <1>5, <1>12
<1>16. NamedLines(g2) = NamedLines(g1)
  BY <1>5, <1>13, <1>14, <1>15 DEF NamedLines
<1>17. \A l \in NamedLines(g1) : l \in 1 .. n /\ g2.lines[l].name = g1.lines[l].name
  BY <1>5, <1>13 DEF NamedLines
<1>18. /\ gate.type = st.type /\ DOMAIN ins = DOMAIN st.ins
       /\ \A i \in DOMAIN ins : ins[i] \in NamedLines(g1) /\ g1.lines[ins[i]].name = st.ins[i]
       /\ out \in NamedLines(g1) /\ g1.lines[out].name = st.name
       /\ gate.expanded = Expand(gate.type, ins, out, n + 1)
  BY <1>1, <1>8, <1>9 DEF GateSaid
<1>19. ArityOk(gate.type, Len(ins))
  <2>1. Len(ins) = Len(st.ins)
    <3>1. st.ins \in Seq(Names)
      BY DEF GateStatement
    <3>2. DOMAIN ins = 1 .. Len(ins) /\ DOMAIN st.ins = 1 .. Len(st.ins) /\ Len(st.ins) \in Nat
      BY <1>12, <3>1
    <3>3. \A a, b \in Nat : 1 .. a = 1 .. b => a = b
      OBVIOUS
    <3>4. 1 .. Len(ins) = 1 .. Len(st.ins)
      BY <1>18, <3>2
    <3> QED BY <1>12, <3>2, <3>3, <3>4
  <2> QED BY <1>18, <2>1
<1>20. OneName(g2)
  BY <1>4, <1>16, <1>17 DEF OneName
<1>21. GatesSound(g2)
  <2>1. ASSUME NEW g \in 1 .. m + 1
        PROVE  /\ ArityOk(g2.gates[g].type, Len(g2.gates[g].inputs))
               /\ g2.gates[g].output \in NamedLines(g2)
               /\ \A i \in DOMAIN g2.gates[g].inputs : g2.gates[g].inputs[i] \in NamedLines(g2)
    <3>1. CASE g = k
      BY <1>8, <1>9, <1>10, <1>16, <1>18, <1>19, <3>1
    <3>2. CASE g \in 1 .. m
      BY <1>4, <1>5, <1>10, <1>16, <3>2 DEF GatesSound
    <3> QED BY <1>11, <3>1, <3>2
  <2> QED BY <1>10, <2>1 DEF GatesSound
<1>22. ChainsSound(g2)
  <2>1. PICK first \in [1 .. m -> Nat] : Chains(g1, first)
    BY <1>4, <1>5 DEF ChainsSound
  <2>2. PICK fs : fs = [g \in 1 .. m + 1 |-> IF g = k THEN n + 1 ELSE first[g]]
    OBVIOUS
  <2>3. fs \in [1 .. m + 1 -> Nat] /\ fs[k] = n + 1 /\ \A g \in 1 .. m : fs[g] = first[g]
    <3>1. k \in 1 .. m + 1 /\ n + 1 \in Nat /\ \A g \in 1 .. m : g \in 1 .. m + 1
      BY <1>5, <1>6
    <3> QED BY <1>7, <1>11, <2>1, <2>2, <3>1
  <2>4. MadeFor(g2.gates[k], fs[k]) = (n + 1) .. (n + made)
    <3>1. MadeFor(gate, n + 1) = (n + 1) .. ((n + 1) + Len(ins)) - 3
      BY <1>8 DEF MadeFor
    <3>2. CASE Len(ins) > 2
      <4>1. ((n + 1) + Len(ins)) - 3 = n + made
        <5>1. PICK q \in Nat : q = Len(ins)
          BY <1>12
        <5>2. made = q - 2
          BY <1>3, <1>8, <3>2, <5>1
        <5>3. ((n + 1) + q) - 3 = n + (q - 2)
          BY <1>5
        <5> QED BY <5>1, <5>2, <5>3
      <4> QED BY <1>10, <2>3, <3>1, <4>1
    <3>3. CASE ~(Len(ins) > 2)
      <4>1. made = 0
        BY <1>3, <1>8, <3>3
      <4>2. (n + 1) .. ((n + 1) + Len(ins)) - 3 = {} /\ (n + 1) .. (n + 0) = {}
        BY <1>5, <1>12, <3>3
      <4> QED BY <1>10, <2>3, <3>1, <4>1, <4>2
    <3> QED BY <3>2, <3>3
  <2>5. \A g \in 1 .. m : MadeFor(g2.gates[g], fs[g]) = MadeFor(g1.gates[g], first[g])
    BY <1>10, <2>3
  <2>6. \A g \in 1 .. m : \A l \in MadeFor(g1.gates[g], first[g]) :
          l \in 1 .. n /\ g1.lines[l].generated
    BY <1>5, <2>1 DEF Chains
  <2>7. ASSUME NEW g \in 1 .. m + 1
        PROVE  /\ g2.gates[g].expanded
                    = Expand(g2.gates[g].type, g2.gates[g].inputs, g2.gates[g].output, fs[g])
               /\ \A l \in MadeFor(g2.gates[g], fs[g]) :
                    l \in DOMAIN g2.lines /\ g2.lines[l].generated
    <3>1. CASE g = k
      <4>1. \A l \in (n + 1) .. (n + made) : l \in 1 .. n + made
        BY <1>5, <1>12
      <4> QED BY <1>8, <1>9, <1>10, <1>13, <1>18, <2>3, <2>4, <3>1, <4>1
    <3>2. CASE g \in 1 .. m
      <4>1. g1.gates[g].expanded
              = Expand(g1.gates[g].type, g1.gates[g].inputs, g1.gates[g].output, first[g])
        BY <1>5, <2>1, <3>2 DEF Chains
      <4> QED BY <1>10, <1>13, <1>15, <2>3, <2>5, <2>6, <3>2, <4>1, ZenonT(40)
    <3> QED BY <1>11, <3>1, <3>2
  <2>8. ASSUME NEW g \in 1 .. m + 1, NEW h \in 1 .. m + 1,
               NEW l \in MadeFor(g2.gates[g], fs[g]), l \in MadeFor(g2.gates[h], fs[h])
        PROVE  g = h
    <3>1. CASE g = k /\ h = k
      BY <3>1
    <3>2. CASE g = k /\ h \in 1 .. m
      BY <1>15, <2>4, <2>5, <2>6, <2>8, <3>2
    <3>3. CASE g \in 1 .. m /\ h = k
      BY <1>15, <2>4, <2>5, <2>6, <2>8, <3>3
    <3>4. CASE g \in 1 .. m /\ h \in 1 .. m
      BY <1>5, <2>1, <2>5, <2>8, <3>4 DEF Chains
    <3> QED BY <1>11, <3>1, <3>2, <3>3, <3>4
  <2>9. ASSUME NEW l \in 1 .. n + made, g2.lines[l].generated
        PROVE  \E g \in 1 .. m + 1 : l \in MadeFor(g2.gates[g], fs[g])
    <3>1. CASE l \in 1 .. n
      <4>1. g1.lines[l].generated
        BY <1>13, <2>9, <3>1
      <4>2. PICK g \in 1 .. m : l \in MadeFor(g1.gates[g], first[g])
        BY <1>5, <2>1, <3>1, <4>1 DEF Chains
      <4>3. g \in 1 .. m + 1
        BY <1>5
      <4> QED BY <2>5, <4>2, <4>3
    <3>2. CASE l \in (n + 1) .. (n + made)
      <4>1. k \in 1 .. m + 1
        BY <1>5, <1>6
      <4> QED BY <2>4, <3>2, <4>1
    <3> QED BY <1>14, <3>1, <3>2
  <2>10. Chains(g2, fs)
    BY <1>10, <1>13, <2>7, <2>8, <2>9 DEF Chains
  <2> QED BY <1>10, <2>3, <2>10 DEF ChainsSound
<1>23. g1.lines[out].source = NoGate
  <2>1. SUFFICES ASSUME g1.lines[out].source # NoGate
                 PROVE  FALSE
    OBVIOUS
  <2>2. out \in DOMAIN g1.lines
    BY <1>5, <1>17, <1>18
  <2>3. PICK h \in DOMAIN g1.gates : g1.lines[out].source = h
    BY <1>4, <2>1, <2>2 DEF LinesSound
  <2>4. g1.gates[h].output = out
    BY <1>4, <2>2, <2>3 DEF LinesSound
  <2>5. PICK s \in S : Realizes(g1, h, s)
    BY DEF Built, GatesKnown
  <2> QED BY <1>18, <2>4, <2>5 DEF Realizes
<1>24. LinesSound(g2)
  <2>1. ASSUME NEW l \in 1 .. n + made
        PROVE  /\ g2.lines[l].source = NoGate \/ g2.lines[l].source \in 1 .. m + 1
               /\ g2.lines[l].generated =>
                    /\ g2.lines[l].source = NoGate /\ g2.lines[l].dests = <<>>
                    /\ ~g2.lines[l].is_output
    <3>1. CASE l \in (n + 1) .. (n + made)
      BY <1>13, <3>1
    <3>2. CASE l \in 1 .. n
      <4>1. /\ g1.lines[l].source = NoGate \/ g1.lines[l].source \in 1 .. m
            /\ g1.lines[l].generated =>
                 g1.lines[l].source = NoGate /\ g1.lines[l].dests = <<>> /\ ~g1.lines[l].is_output
        BY <1>4, <1>5, <3>2 DEF LinesSound
      <4>2. k \in 1 .. m + 1 /\ \A g \in 1 .. m : g \in 1 .. m + 1
        BY <1>5, <1>6
      <4>3. g1.lines[l].generated => l # out /\ \A i \in DOMAIN ins : ins[i] # l
        BY <1>18 DEF NamedLines
      <4> QED BY <1>13, <3>2, <4>1, <4>2, <4>3
    <3> QED BY <1>14, <3>1, <3>2
  <2>2. ASSUME NEW l \in 1 .. n + made, NEW g \in 1 .. m + 1
        PROVE  g2.gates[g].output = l <=> g2.lines[l].source = g
    <3>1. CASE l \in (n + 1) .. (n + made)
      <4>1. g2.lines[l].source # g
        BY <1>7, <1>11, <1>13, <3>1
      <4>2. g2.gates[g].output \in 1 .. n
        BY <1>10, <1>16, <1>17, <1>21 DEF GatesSound
      <4> QED BY <1>15, <3>1, <4>1, <4>2
    <3>2. CASE l \in 1 .. n /\ g = k
      <4>1. g1.lines[l].source # k
        BY <1>4, <1>5, <1>7, <3>2 DEF LinesSound
      <4> QED BY <1>9, <1>10, <1>13, <3>2, <4>1
    <3>3. CASE l \in 1 .. n /\ g \in 1 .. m
      <4>1. g1.gates[g].output = l <=> g1.lines[l].source = g
        BY <1>4, <1>5, <3>3 DEF LinesSound
      <4>2. CASE l = out
        BY <1>7, <1>10, <1>13, <1>23, <3>3, <4>1, <4>2
      <4>3. CASE l # out
        BY <1>10, <1>13, <3>3, <4>1, <4>3
      <4> QED BY <4>2, <4>3
    <3> QED BY <1>11, <1>14, <3>1, <3>2, <3>3
  <2> QED BY <1>10, <1>13, <2>1, <2>2 DEF LinesSound
<1>25. DestsSound(g2)
  <2>1. ASSUME NEW l \in 1 .. n + made
        PROVE  IsInjective(g2.lines[l].dests)
    <3>1. IsInjective(<<>>)
      BY DEF IsInjective
    <3> QED BY <1>13, <1>14, <3>1
  <2>2. ASSUME NEW l \in 1 .. n + made, NEW c \in Range(g2.lines[l].dests)
        PROVE  /\ c.gate \in 1 .. m + 1
               /\ c.idx \in DOMAIN g2.gates[c.gate].inputs
               /\ g2.gates[c.gate].inputs[c.idx] = l
    <3>1. l \in 1 .. n
      <4>1. Range(<<>>) = {}
        BY DEF Range
      <4> QED BY <1>13, <1>14, <2>2, <4>1
    <3>2. \/ c \in Range(g1.lines[l].dests)
          \/ \E i \in DOMAIN ins : ins[i] = l /\ c = [gate |-> k, idx |-> i]
      BY <1>13, <2>2, <3>1
    <3>3. CASE c \in Range(g1.lines[l].dests)
      <4>1. /\ c.gate \in 1 .. m /\ c.idx \in DOMAIN g1.gates[c.gate].inputs
            /\ g1.gates[c.gate].inputs[c.idx] = l
        BY <1>4, <1>5, <3>1, <3>3 DEF DestsSound
      <4>2. c.gate \in 1 .. m + 1
        BY <1>5, <4>1
      <4> QED BY <1>10, <4>1, <4>2
    <3>4. ASSUME NEW i \in DOMAIN ins, ins[i] = l, c = [gate |-> k, idx |-> i]
          PROVE  /\ c.gate \in 1 .. m + 1
                 /\ c.idx \in DOMAIN g2.gates[c.gate].inputs
                 /\ g2.gates[c.gate].inputs[c.idx] = l
      <4>1. c.gate = k /\ c.idx = i /\ k \in 1 .. m + 1
        BY <1>5, <1>6, <3>4
      <4> QED BY <1>8, <1>10, <3>4, <4>1
    <3> QED BY <3>2, <3>3, <3>4
  <2>3. ASSUME NEW l \in 1 .. n + made, NEW g \in 1 .. m + 1, NEW i \in DOMAIN g2.gates[g].inputs,
               g2.gates[g].inputs[i] = l
        PROVE  [gate |-> g, idx |-> i] \in Range(g2.lines[l].dests)
    <3>1. l \in 1 .. n
      BY <1>10, <1>16, <1>17, <1>21, <2>3 DEF GatesSound
    <3>2. CASE g = k
      BY <1>8, <1>10, <1>13, <2>3, <3>1, <3>2
    <3>3. CASE g \in 1 .. m
      <4>1. i \in DOMAIN g1.gates[g].inputs /\ g1.gates[g].inputs[i] = l
        BY <1>10, <2>3, <3>3
      <4>2. [gate |-> g, idx |-> i] \in Range(g1.lines[l].dests)
        BY <1>4, <1>5, <3>1, <3>3, <4>1 DEF DestsSound
      <4> QED BY <1>13, <3>1, <4>2
    <3> QED BY <1>11, <3>2, <3>3
  <2> QED BY <1>10, <1>13, <2>1, <2>2, <2>3 DEF DestsSound
<1>26. OutsSound(g2)
  <2>1. ASSUME NEW l \in 1 .. n + made
        PROVE  g2.lines[l].is_output <=> l \in Range(g2.outs)
    <3>1. CASE l \in 1 .. n
      BY <1>4, <1>5, <1>10, <1>13, <3>1 DEF OutsSound
    <3>2. CASE l \in (n + 1) .. (n + made)
      <4>1. \A o \in Range(g1.outs) : o \in 1 .. n
        BY <1>4, <1>17 DEF OutsSound
      <4> QED BY <1>10, <1>13, <1>15, <3>2, <4>1
    <3> QED BY <1>14, <3>1, <3>2
  <2> QED BY <1>4, <1>10, <1>13, <1>16, <2>1 DEF OutsSound
<1>27. GraphSound(g2, Names)
  BY <1>20, <1>21, <1>22, <1>24, <1>25, <1>26 DEF GraphSound
<1>28. NamesKnown(g2, M)
  BY <1>16, <1>17 DEF Built, NamesKnown
<1>29. GatesKnown(g2, S \cup {st})
  <2>1. Realizes(g2, k, st)
    BY <1>8, <1>9, <1>10, <1>17, <1>18 DEF Realizes
  <2>2. ASSUME NEW g \in 1 .. m, NEW s
        PROVE  Realizes(g1, g, s) <=> Realizes(g2, g, s)
    <3>1. g2.gates[g] = g1.gates[g]
      BY <1>10
    <3>2. g2.lines[g1.gates[g].output].name = g1.lines[g1.gates[g].output].name
      BY <1>4, <1>5, <1>17 DEF GatesSound
    <3>3. \A i \in DOMAIN g1.gates[g].inputs :
            g2.lines[g1.gates[g].inputs[i]].name = g1.lines[g1.gates[g].inputs[i]].name
      BY <1>4, <1>5, <1>17 DEF GatesSound
    <3> QED BY <3>1, <3>2, <3>3 DEF Realizes
  <2>3. k \in 1 .. m + 1 /\ \A g \in 1 .. m : g \in 1 .. m + 1
    BY <1>5, <1>6
  <2>4. /\ \A g \in 1 .. m : \E s \in S : Realizes(g1, g, s)
        /\ \A s \in S : \E g \in 1 .. m : Realizes(g1, g, s)
    BY <1>5 DEF Built, GatesKnown
  <2> QED BY <1>10, <1>11, <2>1, <2>2, <2>3, <2>4 DEF GatesKnown
<1>30. InsKnown(g2, nm)
  BY <1>10, <1>16, <1>17 DEF Built, InsKnown
<1>31. OutsKnown(g2, O)
  <2>1. \A l \in Range(g1.outs) : g2.lines[l].name = g1.lines[l].name
    BY <1>4, <1>17 DEF OutsSound
  <2> QED BY <1>10, <2>1 DEF Built, OutsKnown
<1> QED BY <1>27, <1>28, <1>29, <1>30, <1>31 DEF Built

------------------------------------------------------------------------------
\* The names in a statement, and the part of it that is a gate or an output.
Mentioned(st) == {st.name} \cup (IF st.kind \in {"gate", "dff"} THEN Range(st.ins) ELSE {})

GatePart(st) == IF st.kind = "gate" THEN {st} ELSE {}

OutPart(st) ==
  (IF st.kind = "output" THEN {st.name} ELSE {})
  \cup (IF st.kind = "dff" THEN {st.ins[1]} ELSE {})

InPart(nm, st) == IF st.kind \in {"input", "dff"} THEN Append(nm, st.name) ELSE nm

LEMMA StatementKinds ==
  ASSUME NEW Names, NEW st \in Statement(Names)
  PROVE  /\ st.kind \in {"input", "output", "dff", "gate"} /\ st.name \in Names
         /\ st.kind = "gate" => st \in GateStatement(Names)
         /\ st.kind \in {"gate", "dff"} => st.ins \in Seq(Names)
<1>1. CASE st \in [kind : {"input", "output"}, name : Names]
  BY <1>1
<1>2. CASE st \in [kind : {"dff"}, name : Names, ins : Seq(Names)]
  BY <1>2
<1>3. CASE st \in [kind : {"gate"}, name : Names, type : GateTypes, ins : Seq(Names)]
  BY <1>3 DEF GateStatement
<1> QED BY <1>1, <1>2, <1>3 DEF Statement

\* One statement of a legal file more.
LEMMA StatementBuilds ==
  ASSUME NEW Names, NEW gr, NEW M, NEW S, NEW nm \in Seq(Names), NEW O,
         Built(gr, Names, M, S, nm, O), NEW st \in Statement(Names),
         st.kind = "gate" => ArityOk(st.type, Len(st.ins)),
         st.kind = "dff" => Len(st.ins) = 1,
         st.kind = "gate" => \A s \in S : s.name # st.name
  PROVE  Built(AddStatement(gr, st), Names, M \cup Mentioned(st), S \cup GatePart(st),
               InPart(nm, st), O \cup OutPart(st))
<1>1. /\ st.kind \in {"input", "output", "dff", "gate"} /\ st.name \in Names
      /\ st.kind = "gate" => st \in GateStatement(Names)
      /\ st.kind \in {"gate", "dff"} => st.ins \in Seq(Names)
  BY StatementKinds
<1>2. CASE st.kind = "input"
  <2>1. Built(AddInput(gr, st.name), Names, M \cup {st.name}, S, Append(nm, st.name), O)
    BY <1>1, AddInputBuilds
  <2>2. AddStatement(gr, st) = AddInput(gr, st.name)
    BY <1>2 DEF AddStatement
  <2>3. /\ M \cup Mentioned(st) = M \cup {st.name} /\ S \cup GatePart(st) = S
        /\ InPart(nm, st) = Append(nm, st.name) /\ O \cup OutPart(st) = O
    BY <1>2 DEF Mentioned, GatePart, InPart, OutPart
  <2> QED BY <2>1, <2>2, <2>3
<1>3. CASE st.kind = "output"
  <2>1. Built(AddOutput(gr, st.name), Names, M \cup {st.name}, S, nm, O \cup {st.name})
    BY <1>1, AddOutputBuilds
  <2>2. AddStatement(gr, st) = AddOutput(gr, st.name)
    BY <1>3 DEF AddStatement
  <2>3. /\ M \cup Mentioned(st) = M \cup {st.name} /\ S \cup GatePart(st) = S
        /\ InPart(nm, st) = nm /\ O \cup OutPart(st) = O \cup {st.name}
    BY <1>3 DEF Mentioned, GatePart, InPart, OutPart
  <2> QED BY <2>1, <2>2, <2>3
<1>4. CASE st.kind = "dff"
  <2>1. PICK g1 : g1 = AddInput(gr, st.name)
    OBVIOUS
  <2>2. PICK a : a = st.ins[1]
    OBVIOUS
  <2>3. a \in Names /\ Range(st.ins) = {a}
    <3>1. st.ins \in Seq(Names) /\ Len(st.ins) = 1
      BY <1>1, <1>4
    <3>2. DOMAIN st.ins = {1}
      BY <3>1
    <3> QED BY <2>2, <3>1, <3>2 DEF Range
  <2>4. Built(g1, Names, M \cup {st.name}, S, Append(nm, st.name), O)
    BY <1>1, <2>1, AddInputBuilds
  <2>5. Built(AddOutput(g1, a), Names, (M \cup {st.name}) \cup {a}, S, Append(nm, st.name),
              O \cup {a})
    BY <2>3, <2>4, AddOutputBuilds
  <2>6. AddStatement(gr, st) = AddOutput(g1, a)
    BY <1>4, <2>1, <2>2 DEF AddStatement
  <2>7. M \cup Mentioned(st) = (M \cup {st.name}) \cup {a}
    BY <1>4, <2>3 DEF Mentioned
  <2>8. /\ S \cup GatePart(st) = S /\ InPart(nm, st) = Append(nm, st.name)
        /\ O \cup OutPart(st) = O \cup {a}
    BY <1>4, <2>2 DEF GatePart, InPart, OutPart
  <2> QED BY <2>5, <2>6, <2>7, <2>8
<1>5. CASE st.kind = "gate"
  <2>1. PICK g2 : g2 = AddGate(gr, st.type, st.ins, st.name)
    OBVIOUS
  <2>2. st \in GateStatement(Names) /\ ArityOk(st.type, Len(st.ins))
    BY <1>1, <1>5
  <2>3. PICK A : A = (M \cup Range(st.ins)) \cup {st.name}
    OBVIOUS
  <2>4. PICK g1, gate :
          /\ Built(g1, Names, A, S, nm, O) /\ GateSaid(g1, gate, st)
          /\ g2 \in GraphType(Names) /\ GateAdded(g1, g2, gate, st.name)
    BY <2>1, <2>2, <2>3, AddGateIs
  <2>5. st.name \in A /\ \A s \in S : s.name # st.name
    BY <1>5, <2>3
  <2>6. Built(g2, Names, A, S \cup {st}, nm, O)
    BY <2>2, <2>4, <2>5, GateAddedBuilds
  <2>7. AddStatement(gr, st) = g2
    BY <1>5, <2>1 DEF AddStatement
  <2>8. /\ M \cup Mentioned(st) = A /\ S \cup GatePart(st) = S \cup {st}
        /\ InPart(nm, st) = nm /\ O \cup OutPart(st) = O
    BY <1>5, <2>3 DEF Mentioned, GatePart, InPart, OutPart
  <2> QED BY <2>6, <2>7, <2>8
<1> QED BY <1>1, <1>2, <1>3, <1>4, <1>5

LEMMA EmptyIsBuilt ==
  ASSUME NEW Names
  PROVE  Built(EmptyGraph, Names, {}, {}, <<>>, {})
<1>1. PICK gr : gr = EmptyGraph
  OBVIOUS
<1>2. gr.lines = <<>> /\ gr.gates = <<>> /\ gr.ins = <<>> /\ gr.outs = <<>>
  BY <1>1 DEF EmptyGraph
<1>3. DOMAIN <<>> = {} /\ Len(<<>>) = 0
  OBVIOUS
<1>4. gr \in GraphType(Names)
  <2>1. <<>> \in Seq(LineType(Names)) /\ <<>> \in Seq(GateType) /\ <<>> \in Seq(Nat)
    OBVIOUS
  <2> QED BY <1>1, <2>1 DEF EmptyGraph, GraphType
<1>5. DOMAIN gr.lines = {} /\ DOMAIN gr.gates = {} /\ Range(gr.outs) = {} /\ DOMAIN gr.ins = {}
  BY <1>2, <1>3 DEF Range
<1>6. NamedLines(gr) = {}
  BY <1>5 DEF NamedLines
<1>7. OneName(gr) /\ GatesSound(gr) /\ LinesSound(gr) /\ DestsSound(gr)
  BY <1>5, <1>6 DEF OneName, GatesSound, LinesSound, DestsSound
<1>8. ChainsSound(gr)
  <2>1. \E first \in [{} -> Nat] : TRUE
    <3>1. [x \in {} |-> 0] \in [{} -> Nat]
      OBVIOUS
    <3> QED BY <3>1
  <2>2. \A first \in [{} -> Nat] : Chains(gr, first)
    BY <1>5 DEF Chains
  <2> QED BY <1>5, <2>1, <2>2 DEF ChainsSound
<1>9. OutsSound(gr)
  BY <1>2, <1>3, <1>5 DEF OutsSound, IsInjective
<1>10. GraphSound(gr, Names)
  BY <1>4, <1>7, <1>8, <1>9 DEF GraphSound
<1>11. NamesKnown(gr, {}) /\ GatesKnown(gr, {}) /\ InsKnown(gr, <<>>) /\ OutsKnown(gr, {})
  BY <1>2, <1>3, <1>5, <1>6 DEF NamesKnown, GatesKnown, InsKnown, OutsKnown
<1> QED BY <1>1, <1>10, <1>11 DEF Built

\* GraphOf, one statement after the other.
GraphBy(statements, f) ==
  /\ DOMAIN f = 0 .. Len(statements) /\ f[0] = EmptyGraph
  /\ \A k \in 1 .. Len(statements) : f[k] = AddStatement(f[k - 1], statements[k])
  /\ GraphOf(statements) = f[Len(statements)]

LEMMA GraphSteps ==
  ASSUME NEW statements, Len(statements) \in Nat
  PROVE  \E f : GraphBy(statements, f)
<1> DEFINE Upto(f, m) == f = [k \in 0 .. m |-> IF k = 0 THEN EmptyGraph ELSE AddStatement(f[k - 1], statements[k])]
           Found == {m \in Nat : \E f : Upto(f, m)}
<1>1. 0 \in Found
  <2> DEFINE f == [k \in 0 .. 0 |-> EmptyGraph]
  <2>1. Upto(f, 0)
    OBVIOUS
  <2> QED BY <2>1
<1>2. ASSUME NEW m \in Found
      PROVE  m + 1 \in Found
  <2>1. PICK f : Upto(f, m)
    OBVIOUS
  <2> DEFINE more == [k \in 0 .. m + 1 |-> IF k = m + 1 THEN AddStatement(f[m], statements[m + 1]) ELSE f[k]]
  <2>2. \A k \in 0 .. m + 1 : more[k] = IF k = 0 THEN EmptyGraph ELSE AddStatement(more[k - 1], statements[k])
    BY <2>1
  <2>3. more = [k \in 0 .. m + 1 |-> more[k]]
    OBVIOUS
  <2> HIDE DEF more
  <2>4. Upto(more, m + 1)
    BY <2>2, <2>3
  <2>5. m + 1 \in Nat
    OBVIOUS
  <2> HIDE DEF Upto
  <2> QED BY <2>4, <2>5
<1>3. Found = Nat
  <2>1. Found \in SUBSET Nat
    OBVIOUS
  <2> HIDE DEF Found
  <2> QED BY <1>1, <1>2, <2>1, InductionOverNat
<1>4. PICK f : Upto(f, Len(statements))
  BY <1>3
<1> DEFINE whole == CHOOSE f_1 : Upto(f_1, Len(statements))
<1>5. Upto(whole, Len(statements))
  <2> HIDE DEF Upto
  <2> QED BY <1>4
<1>6. GraphOf(statements) = whole[Len(statements)]
  BY DEF GraphOf
<1> HIDE DEF whole
<1>7. GraphBy(statements, whole)
  BY <1>5, <1>6 DEF GraphBy
<1> QED BY <1>7

\* InputNames, one statement after the other.
InputNamesBy(statements, f) ==
  /\ DOMAIN f = 0 .. Len(statements) /\ f[0] = <<>>
  /\ \A k \in 1 .. Len(statements) : f[k] = InPart(f[k - 1], statements[k])
  /\ InputNames(statements) = f[Len(statements)]

LEMMA InputNamesSteps ==
  ASSUME NEW statements, Len(statements) \in Nat
  PROVE  \E f : InputNamesBy(statements, f)
<1> DEFINE Upto(f, m) == f = [k \in 0 .. m |-> IF k = 0 THEN <<>> ELSE InPart(f[k - 1], statements[k])]
           Found == {m \in Nat : \E f : Upto(f, m)}
<1>1. 0 \in Found
  <2> DEFINE f == [k \in 0 .. 0 |-> <<>>]
  <2>1. Upto(f, 0)
    OBVIOUS
  <2> QED BY <2>1
<1>2. ASSUME NEW m \in Found
      PROVE  m + 1 \in Found
  <2>1. PICK f : Upto(f, m)
    OBVIOUS
  <2> DEFINE more == [k \in 0 .. m + 1 |-> IF k = m + 1 THEN InPart(f[m], statements[m + 1]) ELSE f[k]]
  <2>2. \A k \in 0 .. m + 1 : more[k] = IF k = 0 THEN <<>> ELSE InPart(more[k - 1], statements[k])
    BY <2>1
  <2>3. more = [k \in 0 .. m + 1 |-> more[k]]
    OBVIOUS
  <2> HIDE DEF more
  <2>4. Upto(more, m + 1)
    BY <2>2, <2>3
  <2>5. m + 1 \in Nat
    OBVIOUS
  <2> HIDE DEF Upto
  <2> QED BY <2>4, <2>5
<1>3. Found = Nat
  <2>1. Found \in SUBSET Nat
    OBVIOUS
  <2> HIDE DEF Found
  <2> QED BY <1>1, <1>2, <2>1, InductionOverNat
<1>4. PICK f : Upto(f, Len(statements))
  BY <1>3
<1> DEFINE whole == CHOOSE f_1 : Upto(f_1, Len(statements))
<1>5. Upto(whole, Len(statements))
  <2> HIDE DEF Upto
  <2> QED BY <1>4
<1>6. InputNames(statements) = whole[Len(statements)]
  BY DEF InputNames, InPart
<1> HIDE DEF whole
<1>7. InputNamesBy(statements, whole)
  BY <1>5, <1>6 DEF InputNamesBy
<1> QED BY <1>7

\* What the first k statements say.
SaidBy(f, k) == UNION {Mentioned(f[i]) : i \in 1 .. k}

GatesBy(f, k) == UNION {GatePart(f[i]) : i \in 1 .. k}

OutsBy(f, k) == UNION {OutPart(f[i]) : i \in 1 .. k}

LEMMA GraphIsBuilt ==
  ASSUME NEW Names, NEW f \in Seq(Statement(Names)), WellDriven(f)
  PROVE  /\ Built(GraphOf(f), Names, SaidBy(f, Len(f)), GatesBy(f, Len(f)), InputNames(f),
                  OutsBy(f, Len(f)))
         /\ InputNames(f) \in Seq(Names)
<1>1. /\ Len(f) \in Nat /\ DOMAIN f = 1 .. Len(f)
      /\ \A k \in 1 .. Len(f) : f[k] \in Statement(Names)
  BY SeqElements
<1>2. PICK u : GraphBy(f, u)
  BY <1>1, GraphSteps
<1>3. /\ u[0] = EmptyGraph
      /\ \A k \in 1 .. Len(f) : u[k] = AddStatement(u[k - 1], f[k])
      /\ GraphOf(f) = u[Len(f)]
  BY <1>2 DEF GraphBy
<1>4. PICK w : InputNamesBy(f, w)
  BY <1>1, InputNamesSteps
<1>5. /\ w[0] = <<>>
      /\ \A k \in 1 .. Len(f) : w[k] = InPart(w[k - 1], f[k])
      /\ InputNames(f) = w[Len(f)]
  BY <1>4 DEF InputNamesBy
<1> DEFINE Fine(k) == /\ Built(u[k], Names, SaidBy(f, k), GatesBy(f, k), w[k], OutsBy(f, k))
                      /\ w[k] \in Seq(Names)
           B == {k \in Nat : k <= Len(f) => Fine(k)}
<1>6. 0 \in B
  <2>1. SaidBy(f, 0) = {} /\ GatesBy(f, 0) = {} /\ OutsBy(f, 0) = {}
    BY DEF SaidBy, GatesBy, OutsBy
  <2>2. <<>> \in Seq(Names)
    OBVIOUS
  <2>3. Built(u[0], Names, {}, {}, w[0], {})
    BY <1>3, <1>5, EmptyIsBuilt
  <2> QED BY <1>5, <2>1, <2>2, <2>3
<1>7. ASSUME NEW k \in B
      PROVE  k + 1 \in B
  <2>1. SUFFICES ASSUME k + 1 <= Len(f)
                 PROVE  Fine(k + 1)
    OBVIOUS
  <2>2. k \in Nat /\ Fine(k) /\ k + 1 \in 1 .. Len(f)
    BY <1>1, <2>1
  <2>3. (k + 1) - 1 = k /\ \A i \in 1 .. k : i \in 1 .. Len(f) /\ i # k + 1
    BY <1>1, <2>1, <2>2
  <2> HIDE DEF Fine
  <2>4. PICK st : st = f[k + 1]
    OBVIOUS
  <2>5. st \in Statement(Names) /\ u[k + 1] = AddStatement(u[k], st) /\ w[k + 1] = InPart(w[k], st)
    BY <1>1, <1>3, <1>5, <2>2, <2>3, <2>4
  <2>6. /\ st.kind = "gate" => ArityOk(st.type, Len(st.ins))
        /\ st.kind = "dff" => Len(st.ins) = 1
    BY <1>1, <2>2, <2>4 DEF WellDriven
  <2>7. ASSUME st.kind = "gate", NEW s \in GatesBy(f, k)
        PROVE  s.name # st.name
    <3>1. PICK i \in 1 .. k : s \in GatePart(f[i])
      BY DEF GatesBy
    <3>2. s = f[i] /\ s.kind = "gate"
      BY <3>1 DEF GatePart
    <3>3. i \in DOMAIN f /\ k + 1 \in DOMAIN f /\ i # k + 1
      BY <1>1, <2>2, <2>3
    <3> QED BY <2>4, <2>7, <3>2, <3>3 DEF WellDriven, Drives
  <2>8. /\ Built(u[k], Names, SaidBy(f, k), GatesBy(f, k), w[k], OutsBy(f, k))
        /\ w[k] \in Seq(Names)
    BY <2>2 DEF Fine
  <2>9. Built(u[k + 1], Names, SaidBy(f, k) \cup Mentioned(st), GatesBy(f, k) \cup GatePart(st),
              w[k + 1], OutsBy(f, k) \cup OutPart(st))
    BY <2>5, <2>6, <2>7, <2>8, StatementBuilds
  <2>10. \A i : i \in 1 .. k + 1 <=> i \in 1 .. k \/ i = k + 1
    BY <2>2
  <2>11. SaidBy(f, k + 1) = SaidBy(f, k) \cup Mentioned(st)
    BY <2>4, <2>10 DEF SaidBy
  <2>12. GatesBy(f, k + 1) = GatesBy(f, k) \cup GatePart(st)
    BY <2>4, <2>10 DEF GatesBy
  <2>13. OutsBy(f, k + 1) = OutsBy(f, k) \cup OutPart(st)
    BY <2>4, <2>10 DEF OutsBy
  <2>14. w[k + 1] \in Seq(Names)
    <3>1. st.name \in Names
      BY <2>5, StatementKinds
    <3>2. Append(w[k], st.name) \in Seq(Names)
      BY <2>8, <3>1
    <3> QED BY <2>5, <2>8, <3>2 DEF InPart
  <2> QED BY <2>9, <2>11, <2>12, <2>13, <2>14 DEF Fine
<1>8. Fine(Len(f))
  <2>1. B = Nat
    <3>1. B \in SUBSET Nat
      OBVIOUS
    <3> HIDE DEF B
    <3> QED BY <1>6, <1>7, <3>1, InductionOverNat
  <2>2. Len(f) \in B
    <3> HIDE DEF B
    <3> QED BY <1>1, <2>1
  <2> HIDE DEF Fine
  <2> QED BY <1>1, <2>2
<1> QED BY <1>3, <1>5, <1>8

------------------------------------------------------------------------------
\* No cycle: a gate comes after those that drive its inputs.
Ordered(gr, rank) ==
  \A g \in DOMAIN gr.gates : \A i \in DOMAIN gr.gates[g].inputs :
    gr.lines[gr.gates[g].inputs[i]].source # NoGate =>
      rank[gr.lines[gr.gates[g].inputs[i]].source] < rank[g]

\* Every named line is an input or driven by a gate, not both, and leads somewhere.
LinesLead(gr) ==
  /\ \A l \in Range(gr.ins) : l \in NamedLines(gr) /\ gr.lines[l].source = NoGate
  /\ \A l \in NamedLines(gr) :
       /\ gr.lines[l].source = NoGate => l \in Range(gr.ins)
       /\ gr.lines[l].dests # <<>> \/ gr.lines[l].is_output

LegalFile(f, Names) ==
  f \in Seq(Statement(Names)) /\ WellDriven(f) /\ AcyclicFile(f) /\ EveryNameIsRead(f)

LEMMA FileStatements ==
  ASSUME NEW Names, NEW f \in Seq(Statement(Names))
  PROVE  /\ \A i \in DOMAIN f : f[i] \in Statement(Names)
         /\ DOMAIN f = 1 .. Len(f) /\ Len(f) \in Nat
         /\ \A s : s \in GatesBy(f, Len(f)) <=> \E i \in GateNumbers(f) : s = f[i]
         /\ \A a : a \in SaidBy(f, Len(f)) <=> \E i \in DOMAIN f : a \in Mentioned(f[i])
         /\ \A a : a \in OutsBy(f, Len(f)) <=> \E i \in DOMAIN f : a \in OutPart(f[i])
<1>1. DOMAIN f = 1 .. Len(f) /\ Len(f) \in Nat /\ \A i \in DOMAIN f : f[i] \in Statement(Names)
  BY SeqElements
<1>2. \A s : s \in GatesBy(f, Len(f)) <=> \E i \in GateNumbers(f) : s = f[i]
  BY <1>1 DEF GatesBy, GateNumbers, GatePart
<1>3. \A a : a \in SaidBy(f, Len(f)) <=> \E i \in DOMAIN f : a \in Mentioned(f[i])
  BY <1>1 DEF SaidBy
<1>4. \A a : a \in OutsBy(f, Len(f)) <=> \E i \in DOMAIN f : a \in OutPart(f[i])
  BY <1>1 DEF OutsBy
<1> QED BY <1>1, <1>2, <1>3, <1>4

\* The rank of the statements is one of the gates.
LEMMA GatesAreOrdered ==
  ASSUME NEW Names, NEW f, LegalFile(f, Names)
  PROVE  \E rank \in [DOMAIN GraphOf(f).gates -> 1 .. Len(f)] : Ordered(GraphOf(f), rank)
<1>1. f \in Seq(Statement(Names)) /\ WellDriven(f) /\ AcyclicFile(f)
  BY DEF LegalFile
<1>2. PICK gr : gr = GraphOf(f)
  OBVIOUS
<1>3. Built(gr, Names, SaidBy(f, Len(f)), GatesBy(f, Len(f)), InputNames(f), OutsBy(f, Len(f)))
  BY <1>1, <1>2, GraphIsBuilt
<1>4. gr \in GraphType(Names) /\ GatesSound(gr) /\ LinesSound(gr)
  BY <1>3 DEF Built, GraphSound
<1>5. PICK rank \in [GateNumbers(f) -> DOMAIN f] :
        \A i, j \in GateNumbers(f) : f[i].name \in ReadBy(f[j]) => rank[i] < rank[j]
  BY <1>1 DEF AcyclicFile
<1>6. \A g \in DOMAIN gr.gates : \E i \in GateNumbers(f) : Realizes(gr, g, f[i])
  BY <1>1, <1>3, FileStatements DEF Built, GatesKnown
<1> DEFINE at(g) == CHOOSE i \in GateNumbers(f) : Realizes(gr, g, f[i])
<1>7. \A g \in DOMAIN gr.gates : at(g) \in GateNumbers(f) /\ Realizes(gr, g, f[at(g)])
  BY <1>6
<1>8. PICK r : r = [g \in DOMAIN gr.gates |-> rank[at(g)]]
  OBVIOUS
<1> HIDE DEF at
<1>9. r \in [DOMAIN gr.gates -> DOMAIN f]
  BY <1>5, <1>7, <1>8
<1>10. ASSUME NEW g \in DOMAIN gr.gates, NEW i \in DOMAIN gr.gates[g].inputs,
              gr.lines[gr.gates[g].inputs[i]].source # NoGate
       PROVE  r[gr.lines[gr.gates[g].inputs[i]].source] < r[g]
  <2>1. PICK l : l = gr.gates[g].inputs[i]
    OBVIOUS
  <2>2. PICK h : h = gr.lines[l].source
    OBVIOUS
  <2>3. l \in DOMAIN gr.lines
    BY <1>4, <2>1 DEF GatesSound, NamedLines
  <2>4. h \in DOMAIN gr.gates /\ gr.gates[h].output = l
    BY <1>4, <1>10, <2>1, <2>2, <2>3, SMTT(30) DEF LinesSound
  <2>5. gr.lines[l].name = f[at(h)].name
    BY <1>7, <2>4 DEF Realizes
  <2>6. i \in DOMAIN f[at(g)].ins /\ gr.lines[l].name = f[at(g)].ins[i]
    BY <1>7, <2>1 DEF Realizes
  <2>7. f[at(h)].name \in Range(f[at(g)].ins)
    BY <2>5, <2>6 DEF Range
  <2>8. f[at(g)].kind = "gate"
    BY <1>7 DEF GateNumbers
  <2>9. f[at(h)].name \in ReadBy(f[at(g)])
    BY <2>7, <2>8 DEF ReadBy
  <2>10. rank[at(h)] < rank[at(g)]
    BY <1>5, <1>7, <2>4, <2>9
  <2> QED BY <1>8, <2>1, <2>2, <2>4, <2>10
<1>11. Ordered(gr, r)
  BY <1>10 DEF Ordered
<1>12. DOMAIN f = 1 .. Len(f)
  BY <1>1, FileStatements
<1> QED BY <1>2, <1>9, <1>11, <1>12

\* The names of the inputs are those of the input and flip-flop statements.
LEMMA NamesOfInputs ==
  ASSUME NEW Names, NEW f \in Seq(Statement(Names))
  PROVE  \A a : a \in Range(InputNames(f)) <=>
                  \E i \in DOMAIN f : f[i].kind \in {"input", "dff"} /\ f[i].name = a
<1>1. /\ Len(f) \in Nat /\ DOMAIN f = 1 .. Len(f)
      /\ \A k \in 1 .. Len(f) : f[k] \in Statement(Names)
  BY SeqElements
<1>2. PICK w : InputNamesBy(f, w)
  BY <1>1, InputNamesSteps
<1>3. /\ w[0] = <<>>
      /\ \A k \in 1 .. Len(f) : w[k] = InPart(w[k - 1], f[k])
      /\ InputNames(f) = w[Len(f)]
  BY <1>2 DEF InputNamesBy
<1> DEFINE In(k, a) == \E i \in 1 .. k : f[i].kind \in {"input", "dff"} /\ f[i].name = a
           Fine(k) == w[k] \in Seq(Names) /\ \A a : a \in Range(w[k]) <=> In(k, a)
           B == {k \in Nat : k <= Len(f) => Fine(k)}
<1>4. 0 \in B
  <2>1. Range(<<>>) = {} /\ <<>> \in Seq(Names)
    BY DEF Range
  <2>2. \A a : ~In(0, a)
    OBVIOUS
  <2> HIDE DEF In
  <2>3. Fine(0)
    BY <1>3, <2>1, <2>2
  <2> QED BY <2>3
<1>5. ASSUME NEW k \in B
      PROVE  k + 1 \in B
  <2>1. SUFFICES ASSUME k + 1 <= Len(f)
                 PROVE  Fine(k + 1)
    OBVIOUS
  <2>2. k \in Nat /\ Fine(k) /\ k + 1 \in 1 .. Len(f)
    BY <1>1, <2>1
  <2>3. (k + 1) - 1 = k /\ \A i : i \in 1 .. k + 1 <=> i \in 1 .. k \/ i = k + 1
    BY <2>2
  <2>4. PICK st : st = f[k + 1]
    OBVIOUS
  <2>5. st \in Statement(Names) /\ w[k + 1] = InPart(w[k], st)
    BY <1>1, <1>3, <2>2, <2>3, <2>4
  <2>6. CASE st.kind \in {"input", "dff"}
    <3>1. w[k + 1] = Append(w[k], st.name) /\ st.name \in Names /\ w[k] \in Seq(Names)
      BY <2>2, <2>5, <2>6, StatementKinds DEF InPart
    <3>2. w[k + 1] \in Seq(Names)
      BY <3>1
    <3>3. \A a : a \in Range(Append(w[k], st.name)) <=> a \in Range(w[k]) \/ a = st.name
      BY <3>1, AppendRange
    <3>4. \A a : In(k + 1, a) <=> In(k, a) \/ a = st.name
      BY <2>3, <2>4, <2>6
    <3> QED BY <2>2, <3>1, <3>2, <3>3, <3>4
  <2>7. CASE st.kind \notin {"input", "dff"}
    <3>1. w[k + 1] = w[k]
      BY <2>5, <2>7 DEF InPart
    <3>2. \A a : In(k + 1, a) <=> In(k, a)
      BY <2>3, <2>4, <2>7
    <3> QED BY <2>2, <3>1, <3>2
  <2> QED BY <2>6, <2>7
<1>6. Fine(Len(f))
  <2>1. B = Nat
    <3>1. B \in SUBSET Nat
      OBVIOUS
    <3> HIDE DEF B
    <3> QED BY <1>4, <1>5, <3>1, InductionOverNat
  <2>2. Len(f) \in B
    <3> HIDE DEF B
    <3> QED BY <1>1, <2>1
  <2> HIDE DEF Fine
  <2> QED BY <1>1, <2>2
<1> QED BY <1>1, <1>3, <1>6

LEMMA LegalGraph ==
  ASSUME NEW Names, NEW f, LegalFile(f, Names)
  PROVE  GraphSound(GraphOf(f), Names) /\ LinesLead(GraphOf(f))
<1>1. f \in Seq(Statement(Names)) /\ WellDriven(f) /\ AcyclicFile(f) /\ EveryNameIsRead(f)
  BY DEF LegalFile
<1>2. PICK gr : gr = GraphOf(f)
  OBVIOUS
<1>3. PICK nm : nm = InputNames(f)
  OBVIOUS
<1>4. /\ Built(gr, Names, SaidBy(f, Len(f)), GatesBy(f, Len(f)), nm, OutsBy(f, Len(f)))
      /\ nm \in Seq(Names)
  BY <1>1, <1>2, <1>3, GraphIsBuilt
<1>5. /\ gr \in GraphType(Names) /\ OneName(gr) /\ GatesSound(gr) /\ LinesSound(gr)
      /\ DestsSound(gr) /\ OutsSound(gr) /\ GraphSound(gr, Names)
      /\ NamesKnown(gr, SaidBy(f, Len(f))) /\ GatesKnown(gr, GatesBy(f, Len(f)))
      /\ InsKnown(gr, nm) /\ OutsKnown(gr, OutsBy(f, Len(f)))
  BY <1>4 DEF Built, GraphSound
<1>6. \A i \in DOMAIN f : f[i] \in Statement(Names)
  BY <1>1, FileStatements
\* The inputs are the names of the input statements.
<1>7. \A a : a \in Range(nm) <=> \E i \in DOMAIN f : f[i].kind \in {"input", "dff"} /\ f[i].name = a
  BY <1>1, <1>3, NamesOfInputs
<1>8. ASSUME NEW l \in Range(gr.ins)
      PROVE  /\ l \in NamedLines(gr)
             /\ \E i \in DOMAIN f : f[i].kind \in {"input", "dff"} /\ f[i].name = gr.lines[l].name
  <2>1. PICK p \in DOMAIN gr.ins : l = gr.ins[p]
    BY DEF Range
  <2>2. l \in NamedLines(gr) /\ gr.lines[l].name = nm[p]
    BY <1>5, <2>1 DEF InsKnown
  <2>3. p \in DOMAIN nm
    <3>1. gr.ins \in Seq(Nat)
      BY <1>5 DEF GraphType
    <3>2. DOMAIN gr.ins = 1 .. Len(gr.ins) /\ DOMAIN nm = 1 .. Len(nm)
      BY <1>4, <3>1
    <3> QED BY <1>5, <3>2 DEF InsKnown
  <2>4. gr.lines[l].name \in Range(nm)
    BY <2>2, <2>3 DEF Range
  <2> QED BY <1>7, <2>2, <2>4
<1>9. \A g \in DOMAIN gr.gates : \E i \in GateNumbers(f) : Realizes(gr, g, f[i])
  BY <1>1, <1>5, FileStatements DEF GatesKnown
<1>10. \A i \in GateNumbers(f) : \E g \in DOMAIN gr.gates : Realizes(gr, g, f[i])
  BY <1>1, <1>5, FileStatements DEF GatesKnown
<1>11. ASSUME NEW l \in Range(gr.ins)
       PROVE  gr.lines[l].source = NoGate
  <2>1. SUFFICES ASSUME gr.lines[l].source # NoGate
                 PROVE  FALSE
    OBVIOUS
  <2>2. l \in DOMAIN gr.lines
    BY <1>8 DEF NamedLines
  <2>3. PICK h \in DOMAIN gr.gates : gr.lines[l].source = h
    BY <1>5, <2>1, <2>2 DEF LinesSound
  <2>4. gr.gates[h].output = l
    BY <1>5, <2>2, <2>3 DEF LinesSound
  <2>5. PICK i \in GateNumbers(f) : Realizes(gr, h, f[i])
    BY <1>9
  <2>6. PICK j \in DOMAIN f : f[j].kind \in {"input", "dff"} /\ f[j].name = gr.lines[l].name
    BY <1>8
  <2>7. f[i].name = f[j].name /\ f[i].kind = "gate" /\ i \in DOMAIN f
    BY <2>4, <2>5, <2>6 DEF Realizes, GateNumbers
  <2>8. i = j
    BY <1>1, <2>6, <2>7 DEF WellDriven, Drives
  <2> QED BY <2>6, <2>7, <2>8
\* A name is driven, and read.
<1>12. ASSUME NEW a \in SaidBy(f, Len(f))
       PROVE  /\ \E j \in DOMAIN f : Drives(f[j]) /\ f[j].name = a
              /\ \E j \in DOMAIN f : a \in ReadBy(f[j])
  <2>1. PICK i \in DOMAIN f : a \in Mentioned(f[i])
    BY <1>1, FileStatements
  <2>2. CASE a = f[i].name
    <3>1. \E j \in DOMAIN f : a \in ReadBy(f[j])
      BY <1>1, <2>2 DEF EveryNameIsRead
    <3> QED BY <1>1, <3>1 DEF AcyclicFile
  <2>3. CASE a # f[i].name
    <3>1. f[i].kind \in {"gate", "dff"} /\ a \in Range(f[i].ins)
      BY <2>1, <2>3 DEF Mentioned
    <3>2. a \in ReadBy(f[i])
      BY <3>1 DEF ReadBy
    <3> QED BY <1>1, <3>2 DEF AcyclicFile
  <2> QED BY <2>2, <2>3
<1>13. ASSUME NEW l \in NamedLines(gr), gr.lines[l].source = NoGate
       PROVE  l \in Range(gr.ins)
  <2>1. PICK j \in DOMAIN f : Drives(f[j]) /\ f[j].name = gr.lines[l].name
    BY <1>5, <1>12 DEF NamesKnown
  <2>2. CASE f[j].kind = "gate"
    <3>1. PICK g \in DOMAIN gr.gates : Realizes(gr, g, f[j])
      BY <1>10, <2>2 DEF GateNumbers
    <3>2. gr.gates[g].output \in NamedLines(gr) /\ gr.lines[gr.gates[g].output].name = gr.lines[l].name
      BY <1>5, <2>1, <3>1 DEF GatesSound, Realizes
    <3>3. gr.gates[g].output = l /\ l \in DOMAIN gr.lines
      BY <1>5, <3>2 DEF OneName, NamedLines
    <3>4. gr.lines[l].source = g
      BY <1>5, <3>3 DEF LinesSound
    <3>5. g # NoGate
      BY <1>5, GraphParts DEF NoGate
    <3> QED BY <1>13, <3>4, <3>5
  <2>3. CASE f[j].kind \in {"input", "dff"}
    <3>1. gr.lines[l].name \in Range(nm)
      BY <1>7, <2>1, <2>3
    <3>2. PICK p \in DOMAIN nm : nm[p] = gr.lines[l].name
      BY <3>1 DEF Range
    <3>3. p \in DOMAIN gr.ins
      <4>1. gr.ins \in Seq(Nat)
        BY <1>5 DEF GraphType
      <4>2. DOMAIN gr.ins = 1 .. Len(gr.ins) /\ DOMAIN nm = 1 .. Len(nm)
        BY <1>4, <4>1
      <4> QED BY <1>5, <4>2 DEF InsKnown
    <3>4. gr.ins[p] \in NamedLines(gr) /\ gr.lines[gr.ins[p]].name = gr.lines[l].name
      BY <1>5, <3>2, <3>3 DEF InsKnown
    <3>5. gr.ins[p] = l
      BY <1>5, <3>4 DEF OneName
    <3> QED BY <3>3, <3>5 DEF Range
  <2> QED BY <2>1, <2>2, <2>3 DEF Drives
<1>14. ASSUME NEW l \in NamedLines(gr), ~gr.lines[l].is_output
       PROVE  gr.lines[l].dests # <<>>
  <2>0. l \in DOMAIN gr.lines
    BY DEF NamedLines
  <2>1. PICK j \in DOMAIN f : gr.lines[l].name \in ReadBy(f[j])
    BY <1>5, <1>12 DEF NamesKnown
  <2>2. /\ f[j].kind \in {"input", "output", "dff", "gate"}
        /\ f[j].kind \in {"gate", "dff"} => f[j].ins \in Seq(Names)
    BY <1>6, StatementKinds
  <2>3. CASE f[j].kind = "gate"
    <3>1. gr.lines[l].name \in Range(f[j].ins)
      BY <2>1, <2>3 DEF ReadBy
    <3>2. PICK i \in DOMAIN f[j].ins : f[j].ins[i] = gr.lines[l].name
      BY <3>1 DEF Range
    <3>3. PICK g \in DOMAIN gr.gates : Realizes(gr, g, f[j])
      BY <1>10, <2>3 DEF GateNumbers
    <3>4. i \in DOMAIN gr.gates[g].inputs /\ gr.lines[gr.gates[g].inputs[i]].name = gr.lines[l].name
      BY <3>2, <3>3 DEF Realizes
    <3>5. gr.gates[g].inputs[i] = l
      BY <1>5, <3>4 DEF OneName, GatesSound
    <3>6. [gate |-> g, idx |-> i] \in Range(gr.lines[l].dests)
      BY <1>5, <2>0, <3>4, <3>5 DEF DestsSound
    <3>7. Range(<<>>) = {}
      BY DEF Range
    <3> QED BY <3>6, <3>7
  <2>4. CASE f[j].kind \in {"output", "dff"}
    <3>1. gr.lines[l].name \in OutPart(f[j])
      <4>1. CASE f[j].kind = "output"
        BY <2>1, <4>1 DEF ReadBy, OutPart
      <4>2. CASE f[j].kind = "dff"
        <5>1. gr.lines[l].name \in Range(f[j].ins)
          BY <2>1, <4>2 DEF ReadBy
        <5>2. Len(f[j].ins) = 1 /\ f[j].ins \in Seq(Names)
          BY <1>1, <2>2, <4>2 DEF WellDriven
        <5>3. DOMAIN f[j].ins = {1}
          BY <5>2
        <5>4. gr.lines[l].name = f[j].ins[1]
          BY <5>1, <5>3 DEF Range
        <5> QED BY <4>2, <5>4 DEF OutPart
      <4> QED BY <2>4, <4>1, <4>2
    <3>2. gr.lines[l].name \in OutsBy(f, Len(f))
      BY <1>1, <3>1, FileStatements
    <3>3. PICK o \in Range(gr.outs) : gr.lines[o].name = gr.lines[l].name
      BY <1>5, <3>2 DEF OutsKnown
    <3>4. o = l
      BY <1>5, <3>3 DEF OneName, OutsSound
    <3> QED BY <1>5, <1>14, <2>0, <3>3, <3>4 DEF OutsSound
  <2>5. CASE f[j].kind = "input"
    BY <2>1, <2>5 DEF ReadBy
  <2> QED BY <2>2, <2>3, <2>4, <2>5
<1>15. LinesLead(gr)
  BY <1>8, <1>11, <1>13, <1>14 DEF LinesLead
<1> QED BY <1>2, <1>5, <1>15
==============================================================================
