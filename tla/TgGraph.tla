------------------------------- MODULE TgGraph -------------------------------
(***************************************************************************)
(* tg-pro's CircuitGraph and Iscas89Parser: the second circuit the tool    *)
(* builds from the netlist file, on which the SAT oracle works.            *)
(*                                                                         *)
(* A line is named by its literal, line_to_literal(id) = id + 1. As the    *)
(* ids are handed out in order, lines[l] is the line with literal l; the   *)
(* lines inside expanded gates are among them (generated) and are not in   *)
(* m_lines. A gate is its place in m_gates.                                *)
(*                                                                         *)
(* A file is a sequence of statements [kind, name] or, for gates, [kind,   *)
(* name, type, ins]; BUF stands for both spellings of that type.           *)
(***************************************************************************)
EXTENDS Integers, Sequences, FiniteSets, SequencesExt

EmptyGraph == [lines |-> <<>>, gates |-> <<>>, ins |-> <<>>, outs |-> <<>>]

NoGate == 0      \* Line::source of an input

NewLine(name, generated) ==
  [name |-> name, generated |-> generated, source |-> NoGate, dests |-> <<>>,
   is_output |-> FALSE]

\* get_line: the line of that name.
LineOf(gr, name) ==
  CHOOSE l \in DOMAIN gr.lines :
    gr.lines[l].name = name /\ ~gr.lines[l].generated

HasLine(gr, name) ==
  \E l \in DOMAIN gr.lines : gr.lines[l].name = name /\ ~gr.lines[l].generated

EnsureLine(gr, name) ==
  IF HasLine(gr, name) THEN gr
  ELSE [gr EXCEPT !.lines = Append(@, NewLine(name, FALSE))]

EnsureLines(gr, names) ==
  LET upto[k \in 0 .. Len(names)] ==
        IF k = 0 THEN gr ELSE EnsureLine(upto[k - 1], names[k])
  IN  upto[Len(names)]

\* Mutant: the newest input comes first.
AddInputFirst(gr, name) ==
  LET g1 == EnsureLine(gr, name) IN
  [g1 EXCEPT !.ins = <<LineOf(g1, name)>> \o @]

AddInput(gr, name) ==
  LET g1 == EnsureLine(gr, name) IN
  [g1 EXCEPT !.ins = Append(@, LineOf(g1, name))]

AddOutput(gr, name) ==
  LET g1 == EnsureLine(gr, name)
      l  == LineOf(g1, name)
  IN  IF g1.lines[l].is_output THEN g1
      ELSE [g1 EXCEPT !.outs = Append(@, l), !.lines[l].is_output = TRUE]

------------------------------------------------------------------------------
\* The type of the gates below the top one.
InnerType(type) ==
  CASE type \in {"AND", "NAND"} -> "AND"
    [] type \in {"OR", "NOR"}   -> "OR"

\* Gate::Gate: a gate of more than two inputs becomes a chain that starts with
\* its last two and ends in its output; first is the literal of the first new
\* line. Of n inputs, link k of the chain reads input n - 1 - k.
Expand(type, ins, out, first) ==
  LET n == Len(ins) IN
  IF n <= 2 THEN <<[type |-> type, inputs |-> ins, output |-> out]>>
  ELSE [k \in 1 .. n - 1 |->
          [type   |-> IF k = n - 1 THEN type ELSE InnerType(type),
           inputs |-> <<ins[n - k], IF k = 1 THEN ins[n] ELSE first + k - 2>>,
           output |-> IF k = n - 1 THEN out ELSE first + k - 1]]

\* Mutant: the new lines get the literal of the line made last.
FirstGeneratedTaken(gr) == Len(gr.lines)

FirstGenerated(gr) == Len(gr.lines) + 1

\* Mutant: a line enters a gate once, however often the gate reads it.
ConnectOnce(lines, g, ins) ==
  [l \in DOMAIN lines |->
     IF \E i \in DOMAIN ins : ins[i] = l
     THEN [lines[l] EXCEPT !.dests = Append(@, [gate |-> g, idx |-> 1])]
     ELSE lines[l]]

\* connect_as_input: input i of gate g reads line l.
ConnectAsInput(lines, g, l, i) ==
  [lines EXCEPT ![l].dests = Append(@, [gate |-> g, idx |-> i])]

\* The new gate g is connected to each of its inputs.
Connect(lines, g, ins) ==
  LET upto[i \in 0 .. Len(ins)] ==
        IF i = 0 THEN lines
        ELSE ConnectAsInput(upto[i - 1], g, ins[i], i)
  IN  upto[Len(ins)]

\* The assertions on the number of inputs, those of the expansion included.
ArityOk(type, n) ==
  CASE type \in {"AND", "NAND", "OR", "NOR"} -> n >= 2
    [] type \in {"XOR", "XNOR"}              -> n = 2
    [] type \in {"NOT", "BUF"}              -> n = 1

AddGate(gr, type, names, name) ==
  LET g1   == EnsureLine(EnsureLines(gr, names), name)
      ins  == [i \in DOMAIN names |-> LineOf(g1, names[i])]
      out  == LineOf(g1, name)
      g    == Len(g1.gates) + 1
      made == IF Len(ins) > 2 THEN Len(ins) - 2 ELSE 0
      gate == [type |-> type, inputs |-> ins, output |-> out,
               expanded |-> Expand(type, ins, out, FirstGenerated(g1))]
      lines == [g1.lines EXCEPT ![out].source = g]
               \o [k \in 1 .. made |-> NewLine(name, TRUE)]
  IN  [g1 EXCEPT !.gates = Append(@, gate), !.lines = Connect(lines, g, ins)]

------------------------------------------------------------------------------
GateTypes == {"BUF", "NOT", "AND", "NAND", "OR", "NOR", "XOR", "XNOR"}

\* The statements over a set of names.
Statement(Names) ==
  [kind : {"input", "output"}, name : Names]
  \cup [kind : {"dff"}, name : Names, ins : Seq(Names)]
  \cup [kind : {"gate"}, name : Names, type : GateTypes, ins : Seq(Names)]

Drives(st) == st.kind \in {"input", "gate", "dff"}

\* A legal file drives a name once and respects the arities of the gates.
WellDriven(f) ==
  /\ \A i, j \in DOMAIN f :
       Drives(f[i]) /\ Drives(f[j]) /\ f[i].name = f[j].name => i = j
  /\ \A i \in DOMAIN f :
       /\ f[i].kind = "gate" => ArityOk(f[i].type, Len(f[i].ins))
       /\ f[i].kind = "dff" => Len(f[i].ins) = 1

GateNumbers(f) == {i \in DOMAIN f : f[i].kind = "gate"}

\* The names a statement reads.
ReadBy(st) == CASE st.kind = "input"           -> {}
                [] st.kind = "output"          -> {st.name}
                [] st.kind \in {"gate", "dff"} -> Range(st.ins)

\* A name is driven if it is read. No cycle goes through gates alone.
AcyclicFile(f) ==
  /\ \A i \in DOMAIN f : \A a \in ReadBy(f[i]) :
       \E j \in DOMAIN f : Drives(f[j]) /\ f[j].name = a
  /\ \E rank \in [GateNumbers(f) -> DOMAIN f] :
       \A i, j \in GateNumbers(f) : f[i].name \in ReadBy(f[j]) => rank[i] < rank[j]

\* A line that leads nowhere makes the program exit (FaultManager).
EveryNameIsRead(f) ==
  \A i \in DOMAIN f : \E j \in DOMAIN f : f[i].name \in ReadBy(f[j])

\* The names of the inputs in the order of their statements.
InputNames(f) ==
  LET upto[k \in 0 .. Len(f)] ==
        IF k = 0 THEN <<>>
        ELSE IF f[k].kind \in {"input", "dff"} THEN Append(upto[k - 1], f[k].name)
        ELSE upto[k - 1]
  IN  upto[Len(f)]

\* One line of the file: match_input, match_output, match_gate. A flip-flop is
\* cut open: its output is an input of the circuit, its input an output.
AddStatement(gr, st) ==
  CASE st.kind = "input"  -> AddInput(gr, st.name)
    [] st.kind = "output" -> AddOutput(gr, st.name)
    [] st.kind = "dff"    -> AddOutput(AddInput(gr, st.name), st.ins[1])
    [] st.kind = "gate"   -> AddGate(gr, st.type, st.ins, st.name)

\* Iscas89Parser::parse on a whole file.
GraphOf(statements) ==
  LET upto[k \in 0 .. Len(statements)] ==
        IF k = 0 THEN EmptyGraph ELSE AddStatement(upto[k - 1], statements[k])
  IN  upto[Len(statements)]

------------------------------------------------------------------------------
DestinationGates(gr, l) == {c.gate : c \in Range(gr.lines[l].dests)}

\* get_lines(): the lines that were named in the file.
NamedLines(gr) == {l \in DOMAIN gr.lines : ~gr.lines[l].generated}
==============================================================================
