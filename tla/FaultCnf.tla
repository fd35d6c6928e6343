------------------------------ MODULE FaultCnf -------------------------------
(***************************************************************************)
(* tg-pro's circuit, read from a file by Iscas89Parser::parse with its     *)
(* statements in any order, and sat_atpg with tg-pro's FaultCnfMaker on    *)
(* it: the formula that is satisfiable                                     *)
(* iff a fault has a test, and the vector read off a model of it. Beside   *)
(* the circuit the formula has a sensitization literal for each line the   *)
(* fault can reach: the line differs between the good and the faulty       *)
(* circuit.                                                                *)
(*                                                                         *)
(* One maker and one solver serve all faults, in any order. A formula is a *)
(* set of clauses, a clause a set of literals; the order of both is the    *)
(* solver's business. The literal of line l is l.                          *)
(***************************************************************************)
EXTENDS FaultManager, FiniteSetsExt

N == INSTANCE Netlist

CONSTANTS
  Files,          \* netlists as statements, in any order
  ThresholdRatio  \* set_threshold_ratio, in percent

ASSUME RatioAssumption == ThresholdRatio \in 0 .. 100

\* The files that get as far as the formula.
ASSUME FileAssumption ==
  \A f \in Files :
    /\ f \in Seq(Statement(STRING))
    /\ WellDriven(f)
    /\ AcyclicFile(f)
    /\ EveryNameIsRead(f)

VARIABLES
  file,           \* the statements read, which only the properties look at again
  graph,
  target,         \* the fault sat_atpg is asked for
  stage,          \* idle, or the part of the formula that comes next
  cone,           \* make_fanout_cone of the fault
  context,        \* FaultCnfMaker::m_context
  m_circuit_cnf,  \* the formula of the whole circuit, once it was needed
  cnf,            \* the clauses the solver has
  answer          \* what sat_atpg returned last

circuit == <<file, graph>>

vars == <<circuit, target, stage, cone, context, m_circuit_cnf, cnf, answer>>

Gates == DOMAIN graph.gates

Expanded(g) == Range(graph.gates[g].expanded)

------------------------------------------------------------------------------
\* make_standard_gate, with the signs of the output and the inputs in the short
\* clauses; both are turned round in the long one.
StandardGate(gate, out, in) ==
  {{out * gate.output, in * l} : l \in Range(gate.inputs)}
  \cup {{-out * gate.output} \cup {-in * l : l \in Range(gate.inputs)}}

XorGate(x, y, z) == {{-x, -y, -z}, {x, y, -z}, {x, -y, z}, {-x, y, z}}

\* CircuitToCnfTransformer::make_clauses
MakeClauses(gate) ==
  CASE gate.type \in {"BUF", "AND"}  -> StandardGate(gate, -1, 1)
    [] gate.type \in {"NOT", "NAND"} -> StandardGate(gate, 1, 1)
    [] gate.type = "OR"   -> StandardGate(gate, 1, -1)
    [] gate.type = "NOR"  -> StandardGate(gate, -1, -1)
    [] gate.type = "XOR"  -> XorGate(gate.inputs[1], gate.inputs[2], gate.output)
    [] gate.type = "XNOR" -> XorGate(gate.inputs[1], gate.inputs[2], -gate.output)

\* The clauses of the gates in gs, expanded.
ClausesOf(gs) == UNION {MakeClauses(e) : e \in UNION {Expanded(g) : g \in gs}}

------------------------------------------------------------------------------
\* walk_gates_breadth_first: the gates met from those in from, next[g] being the
\* neighbours of g on one side.
Walked(from, next) ==
  LET met[k \in 0 .. Len(graph.gates)] ==
        IF k = 0 THEN from
        ELSE met[k - 1] \cup UNION {next[g] : g \in met[k - 1]}
  IN  met[Len(graph.gates)]

TowardOutputs == [g \in Gates |-> DestinationGates(graph, graph.gates[g].output)]

TowardInputs ==
  [g \in Gates |-> {graph.lines[l].source : l \in Range(graph.gates[g].inputs)} \ {NoGate}]

\* The boundary lines gate g adds: its inputs from outside, and the fault's own
\* line if g is not the gate the faulty branch enters. The inner gates of an
\* expanded gate are never that gate.
AroundBranch(f, g, inside) ==
  LET inputs == UNION {Range(e.inputs) : e \in Expanded(g)}
      apart  == g # f.connection.gate \/ Len(graph.gates[g].inputs) > 2
  IN  (inputs \ inside)
      \cup IF ~f.is_stem /\ apart THEN inputs \cap {f.line} ELSE {}

\* make_fanout_cone
MakeFanoutCone(f) ==
  LET from == CASE f.is_stem -> DestinationGates(graph, f.line)
                [] ~f.is_stem /\ f.is_primary_output -> {}
                [] OTHER -> {f.connection.gate}
      gs      == Walked(from, TowardOutputs)
      outputs == {e.output : e \in UNION {Expanded(g) : g \in gs}}
      inside  == {f.line} \cup outputs
  IN  [lines_inside    |-> inside,
       boundary_lines  |-> UNION {AroundBranch(f, g, inside) : g \in gs},
       primary_outputs_inside |->
         IF from = {} THEN {f.line} ELSE {l \in outputs : graph.lines[l].is_output}]

------------------------------------------------------------------------------
\* Context: sens[l] is the sensitization literal of line l, 0 if it has none yet;
\* sens[Spec] is spec_lit, for the branches of the fault's line without the fault.
SpecLine == 0

NoFault == [line |-> 0, connection |-> NoConnection]

NoLiterals(gr) == [l \in {SpecLine} \cup DOMAIN gr.lines |-> 0]

\* Context::reset
Reset(c) == [fault |-> NoFault, sens |-> NoLiterals(graph), max_literal |-> 0]

\* get_sensitization_lit and get_spec_lit for each of ls, in order.
Allocated(c, l) ==
  IF c.sens[l] # 0 THEN c
  ELSE [c EXCEPT !.sens[l] = c.max_literal, !.max_literal = @ + 1]

Allocate(c, ls) ==
  LET upto[k \in 0 .. Len(ls)] ==
        IF k = 0 THEN c ELSE Allocated(upto[k - 1], ls[k])
  IN  upto[Len(ls)]

\* Mutant: one clause has a wrong sign.
AndSensitizationSign(x, xs, y, ys, zs) ==
  {{xs, ys, -zs}, {-xs, -y, ys, zs}, {-x, xs, -ys, zs}, {x, -xs, y, -ys, -zs},
   {-x, -xs, y, -zs}, {x, xs, -zs}, {x, -y, -ys, -zs}, {-x, -y, -ys, zs},
   {y, ys, -zs}}

\* Sensitization of z = AND(x, y); with all of x, y negated, of OR.
AndSensitization(x, xs, y, ys, zs) ==
  {{xs, ys, -zs}, {-xs, -y, ys, zs}, {-x, xs, -ys, zs}, {x, -xs, y, -ys, zs},
   {-x, -xs, y, -zs}, {x, xs, -zs}, {x, -y, -ys, -zs}, {-x, -y, -ys, zs},
   {y, ys, -zs}}

\* add_gate_sensitization: xs and ys are SpecLine for a branch without the fault.
GateSensitization(c, gate, xs, ys) ==
  LET s == c.sens
      x == Head(gate.inputs)
      y == Last(gate.inputs)
      z == s[gate.output]
  IN  CASE gate.type \in {"BUF", "NOT"}  -> {{-s[xs], z}, {s[xs], -z}}
        [] gate.type \in {"AND", "NAND"} -> AndSensitization(x, s[xs], y, s[ys], z)
        [] gate.type \in {"OR", "NOR"}   -> AndSensitization(-x, s[xs], -y, s[ys], z)
        [] gate.type \in {"XOR", "XNOR"} -> XorGate(s[xs], s[ys], z)

\* Mutant: the faulty branch is told by its gate alone.
ReadsSpecGateOnly(f, g, l, k) == l = f.line /\ f.connection.gate # g

\* Input k of gate g reads line l, but not through the faulty branch.
ReadsSpec(f, g, l, k) == l = f.line /\ f.connection # [gate |-> g, idx |-> k]

\* The line that tells whether input k of gate g differs, which reads line l.
Side(f, g, l, k) == IF ReadsSpec(f, g, l, k) THEN SpecLine ELSE l

\* add_gate_sensitization_with_expansion: link k of the chain reads input n - k,
\* and the first one input n beside it.
SensitizedLink(acc, g, k) ==
  LET n    == Len(graph.gates[g].inputs)
      gate == graph.gates[g].expanded[k]
      f    == acc.context.fault
      xs   == Side(f, g, Head(gate.inputs), IF n > 1 THEN n - k ELSE 1)
      ys   == Side(f, g, Last(gate.inputs), IF n > 1 THEN n - k + 1 ELSE 1)
      c    == Allocate(acc.context, <<xs, ys, gate.output>>)
  IN  [context |-> c, cnf |-> acc.cnf \cup GateSensitization(c, gate, xs, ys)]

Sensitized(acc, g) ==
  LET upto[k \in 0 .. Len(graph.gates[g].expanded)] ==
        IF k = 0 THEN acc ELSE SensitizedLink(upto[k - 1], g, k)
  IN  upto[Len(graph.gates[g].expanded)]

SensitizedAll(acc, gs) ==
  LET upto[k \in 0 .. Len(gs)] ==
        IF k = 0 THEN acc ELSE Sensitized(upto[k - 1], gs[k])
  IN  upto[Len(gs)]

------------------------------------------------------------------------------
Ascending(S) ==
  LET upto[k \in 0 .. Max(S \cup {0})] ==
        IF k = 0 THEN <<>>
        ELSE IF k \in S THEN Append(upto[k - 1], k) ELSE upto[k - 1]
  IN  upto[Max(S \cup {0})]

\* The sequence s without repetitions.
Once(s) ==
  LET upto[k \in 0 .. Len(s)] ==
        IF k = 0 THEN <<>>
        ELSE IF s[k] \in Range(upto[k - 1]) THEN upto[k - 1] ELSE Append(upto[k - 1], s[k])
  IN  upto[Len(s)]

\* make_cnf(m_circuit, true)
WholeCircuit(gr) == ClausesOf(DOMAIN gr.gates)

Init ==
  /\ file \in Files
  /\ graph = GraphOf(file)
  /\ target = NoFault
  /\ stage = "idle"
  /\ cone = <<>>
  /\ context = Reset([sens |-> NoLiterals(graph)])
  /\ m_circuit_cnf = {}
  /\ cnf = {}
  /\ answer = <<>>

\* The first part of make_fault: the solver is reset, the cone is made, and the
\* solver gets either the gates the outputs in the cone depend on or, if the cone
\* reaches many outputs, the whole circuit.
MakeFault(f) ==
  LET reached == MakeFanoutCone(f)
      few == Cardinality(reached.primary_outputs_inside)
               < (Len(graph.outs) * ThresholdRatio) \div 100
      from == {graph.lines[l].source : l \in reached.primary_outputs_inside} \ {NoGate}
      whole == IF m_circuit_cnf = {} THEN WholeCircuit(graph) ELSE m_circuit_cnf
  IN  /\ stage = "idle"
      /\ target' = f
      /\ cone' = reached
      /\ context' = [context EXCEPT !.fault = f, !.max_literal = Len(graph.lines) + 1]
      /\ m_circuit_cnf' = IF few THEN m_circuit_cnf ELSE whole
      /\ cnf' = IF few THEN ClausesOf(Walked(from, TowardInputs)) ELSE whole
      /\ answer' = <<>>
      /\ stage' = "sensitization"
      /\ UNCHANGED circuit

\* sat_atpg for one of the faults in fault_map.
Ask == \E f \in Range(ManagedFaults(graph)) : MakeFault(f)

\* add_sensitization: first the gate the faulty branch enters, then the readers
\* of the lines inside, each gate once. The order of the lines inside, a set of
\* pointers, only decides which new literal goes to which line.
AddSensitization ==
  LET f      == context.fault
      first  == IF f.is_stem \/ f.is_primary_output THEN <<>> ELSE <<f.connection.gate>>
      lines  == Ascending({l \in cone.lines_inside : f.is_stem \/ l # f.line})
      GatesOf(l) == [k \in DOMAIN graph.lines[l].dests |-> graph.lines[l].dests[k].gate]
      behind == FlattenSeq([k \in DOMAIN lines |-> GatesOf(lines[k])])
      result == SensitizedAll([context |-> context, cnf |-> cnf], Once(first \o behind))
  IN  /\ stage = "sensitization"
      /\ context' = result.context
      /\ cnf' = result.cnf
      /\ stage' = "activation"
      /\ UNCHANGED <<circuit, target, cone, m_circuit_cnf, answer>>

\* Mutant: the line is set to the stuck value.
ActivatedStuck(f) == IF f.stuck_at = 0 THEN -f.line ELSE f.line

Activated(f) == IF f.stuck_at = 0 THEN f.line ELSE -f.line

\* add_fault_activation: the line differs and has the other value.
AddFaultActivation ==
  LET f == context.fault
      c == Allocate(context, <<f.line>>)
  IN  /\ stage = "activation"
      /\ context' = c
      /\ cnf' = cnf \cup {{c.sens[f.line]}, {Activated(f)}}
      /\ stage' = "boundary"
      /\ UNCHANGED <<circuit, target, cone, m_circuit_cnf, answer>>

\* add_boundary_scan: what enters the cone from outside does not differ, nor do
\* the other branches of the fault's line, into the cone or into the same gate.
AddBoundaryScan ==
  LET f     == context.fault
      again == Cardinality({d \in Range(graph.lines[f.line].dests) :
                              d.gate = f.connection.gate}) >= 2
      around == Ascending(cone.boundary_lines)
      outer == [k \in DOMAIN around |-> IF around[k] = f.line THEN SpecLine ELSE around[k]]
      quiet == outer \o IF ~f.is_stem /\ again THEN <<SpecLine>> ELSE <<>>
      c     == Allocate(context, quiet)
  IN  /\ stage = "boundary"
      /\ context' = c
      /\ cnf' = cnf \cup {{-c.sens[l]} : l \in Range(quiet)}
      /\ stage' = "presentation"
      /\ UNCHANGED <<circuit, target, cone, m_circuit_cnf, answer>>

\* add_fault_presentation, some output of the cone differs, and the context is
\* given up.
AddFaultPresentation ==
  LET c == Allocate(context, Ascending(cone.primary_outputs_inside)) IN
  /\ stage = "presentation"
  /\ cnf' = cnf \cup {{c.sens[l] : l \in cone.primary_outputs_inside}}
  /\ context' = Reset(c)
  /\ cone' = <<>>
  /\ stage' = "solve"
  /\ UNCHANGED <<circuit, target, m_circuit_cnf, answer>>

Vars(clauses) == {IF l < 0 THEN -l ELSE l : l \in UNION clauses}

\* The models of a set of clauses, as sets of literals: the variables are given
\* values in turn, and a clause is looked at when its last variable has one.
Models(clauses) ==
  LET vs == Ascending(Vars(clauses))
      Due(k) == {c \in clauses : Max(Vars({c})) = vs[k]}
      upto[k \in 0 .. Len(vs)] ==
        IF k = 0 THEN {{}}
        ELSE {m \in {n \cup {x} : n \in upto[k - 1], x \in {vs[k], -vs[k]}} :
                \A c \in Due(k) : c \cap m # {}}
  IN  IF {} \in clauses THEN {} ELSE upto[Len(vs)]

\* An input's value in a model; one the formula does not mention may have any.
Reads(m, l, x) == IF x = 1 THEN -l \notin m ELSE l \notin m

InputVectors == [Range(graph.ins) -> {0, 1}]

\* solve_prepared returns any model, or says that there is none.
Solve ==
  LET models == Models(cnf) IN
  /\ stage = "solve"
  /\ IF models = {} THEN answer' = [sat |-> FALSE]
     ELSE \E m \in models, v \in InputVectors :
            /\ \A l \in Range(graph.ins) : Reads(m, l, v[l])
            /\ answer' = [sat |-> TRUE, vector |-> v]
  /\ stage' = "idle"
  /\ UNCHANGED <<circuit, target, cone, context, m_circuit_cnf, cnf>>

Next ==
  \/ Ask \/ AddSensitization \/ AddFaultActivation \/ AddBoundaryScan
  \/ AddFaultPresentation \/ Solve

Spec == Init /\ [][Next]_vars /\ WF_vars(Next)

------------------------------------------------------------------------------
\* The circuit as it stands before the first fault is asked for.
Parsed == stage = "idle" /\ target = NoFault

\* The graph can be walked both ways, whatever the order of the statements:
\* a line lists exactly the gate inputs it is connected to, each of them once,
\* and knows the gate that drives it. Cones are built along destinations, the
\* circuit part of a formula along sources; inputs have no source.
WalksAgree ==
  \A l \in DOMAIN graph.lines :
    LET line == graph.lines[l] IN
    /\ IsInjective(line.dests)
    /\ Range(line.dests) =
         UNION {{[gate |-> g, idx |-> k] :
                   k \in {i \in DOMAIN graph.gates[g].inputs : graph.gates[g].inputs[i] = l}} :
                g \in Gates}
    /\ \A g \in Gates : graph.gates[g].output = l <=> line.source = g
    /\ l \in Range(graph.ins) => line.source = NoGate

\* The ports follow the file: the inputs stand in the order of their statements,
\* since sat_atpg returns its vector in that order and ls_main matches it to the
\* generator's inputs by position, and an output is listed once, although a
\* flip-flop may read a line that is an output too.
PortsFollowFile ==
  LET NamesOf(ls) == [k \in DOMAIN ls |-> graph.lines[ls[k]].name]
      Outputs     == {st.name : st \in {s \in Range(file) : s.kind = "output"}}
                     \cup {st.ins[1] : st \in {s \in Range(file) : s.kind = "dff"}}
  IN  /\ NamesOf(graph.ins) = InputNames(file)
      /\ IsInjective(graph.outs)
      /\ Range(NamesOf(graph.outs)) = Outputs
      /\ \A l \in DOMAIN graph.lines :
           graph.lines[l].is_output <=> l \in Range(graph.outs)

\* What the parser builds follows the file, in connections and in ports.
GraphFollowsFile == Parsed => WalksAgree /\ PortsFollowFile

Consistent(gate, val) ==
  val[gate.output] = N!CalValue(gate.type, [k \in DOMAIN gate.inputs |-> val[gate.inputs[k]]])

\* The expanded gates say of the named lines what the file says: values fit the
\* gates of the file iff they can be extended to the generated lines so that
\* they fit all expanded gates, and then in one way only.
ExpansionIsFaithful ==
  LET Named     == [NamedLines(graph) -> {0, 1}]
      Generated == [DOMAIN graph.lines \ NamedLines(graph) -> {0, 1}]
      Both(val, gen) == [l \in DOMAIN graph.lines |->
                           IF l \in NamedLines(graph) THEN val[l] ELSE gen[l]]
      Fits(val) == \A g \in Gates : \A e \in Expanded(g) : Consistent(e, val)
      FileSays(val) ==
        \A st \in {s \in Range(file) : s.kind = "gate"} :
          val[LineOf(graph, st.name)] =
            N!CalValue(st.type, [k \in DOMAIN st.ins |-> val[LineOf(graph, st.ins[k])]])
  IN  Parsed =>
        \A val \in Named :
          Cardinality({gen \in Generated : Fits(Both(val, gen))})
            = IF FileSays(val) THEN 1 ELSE 0

\* Values of the named lines under v with the fault f, or none. A faulty line
\* keeps the value it would have; its readers see the stuck one.
Seen(f, l, here, val) ==
  IF l = f.line /\ (f.is_stem \/ here) THEN f.stuck_at ELSE val[l]

LineValues(v, f) ==
  LET val[l \in NamedLines(graph)] ==
        LET g    == graph.lines[l].source
            gate == graph.gates[g]
        IN  IF g = NoGate THEN v[l]
            ELSE N!CalValue(gate.type,
                   [k \in DOMAIN gate.inputs |->
                      Seen(f, gate.inputs[k], f.connection = [gate |-> g, idx |-> k], val)])
  IN  val

Healthy == [line |-> 0, is_stem |-> FALSE, connection |-> NoConnection]

\* The vector shows the fault at some output.
Detects(v, f) ==
  LET good == LineValues(v, Healthy)
      bad  == LineValues(v, f)
  IN  \E o \in Range(graph.outs) : good[o] # Seen(f, o, f.is_primary_output, bad)

\* A vector sat_atpg returns detects the fault it was asked for: ls_main starts
\* its search from it and asserts check_fault(pattern, f) in the end.
AnswersAreTests ==
  stage = "idle" /\ answer # <<>> /\ answer.sat => Detects(answer.vector, target)

\* A stem that is an output and has fanouts.
OutputStem(f) ==
  f.is_stem /\ graph.lines[f.line].is_output /\ graph.lines[f.line].dests # <<>>

\* A fault that is given up as unsat has no test, unless it is the stem fault of an
\* output with fanouts.
UnsatMeansUntestable ==
  stage = "idle" /\ answer # <<>> /\ ~answer.sat /\ ~OutputStem(target) =>
    \A v \in InputVectors : ~Detects(v, target)

\* A fault that is given up as unsat has no test, whichever it is: the formula
\* asks that "at least one primary output should become sensitized".
UnsatMeansRedundant ==
  stage = "idle" /\ answer # <<>> /\ ~answer.sat =>
    \A v \in InputVectors : ~Detects(v, target)

\* What the sensitization literals mean: in every model of the clauses before the
\* presentation, for the inputs it stands for, a line inside the cone differs
\* between the circuits iff its literal is true. spec_lit tells whether the
\* other branches of the fault's line see the fault, as those of a stem do.
SensitizedIsDifferent ==
  stage = "presentation" =>
    \A m \in Models(cnf) :
      LET v    == CHOOSE w \in InputVectors : \A l \in Range(graph.ins) : Reads(m, l, w[l])
          good == LineValues(v, Healthy)
          bad  == LineValues(v, target)
          spec == context.sens[SpecLine]
          seen == (cone.lines_inside \ {target.line}) \cap NamedLines(graph)
      IN  (spec # 0 => (spec \in m <=> target.is_stem)) =>
            \A l \in seen : context.sens[l] \in m <=> good[l] # bad[l]
==============================================================================
