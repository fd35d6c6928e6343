--------------------------- MODULE FaultCnfProofs ----------------------------
(***************************************************************************)
(* The circuit FaultCnf reads, for every set of files: the values of its   *)
(* lines, the faults of its list, and the gates that a fault can reach.    *)
(* Then the formula sat_atpg makes of it for a fault: each part says of    *)
(* the circuit what it is to say, and so the answers are right.            *)
(***************************************************************************)
EXTENDS FaultCnf, TgGraphProofs

------------------------------------------------------------------------------
\* The circuit is read once.
CircuitIsRead == file \in Files /\ graph = GraphOf(file)

LEMMA SpecKeepsCircuit == Spec => []CircuitIsRead
<1>1. Init => CircuitIsRead
  BY DEF Init, CircuitIsRead
<1>2. CircuitIsRead /\ [Next]_vars => CircuitIsRead'
  BY DEF CircuitIsRead, Next, vars, circuit, Ask, MakeFault, AddSensitization,
         AddFaultActivation, AddBoundaryScan, AddFaultPresentation, Solve
<1> QED BY <1>1, <1>2, PTL DEF Spec

LEMMA FilesAreLegal ==
  ASSUME NEW f \in Files
  PROVE  LegalFile(f, STRING)
BY FileAssumption DEF LegalFile

LEMMA CircuitFacts ==
  ASSUME CircuitIsRead
  PROVE  /\ GraphSound(graph, STRING) /\ LinesLead(graph)
         /\ InsKnown(graph, InputNames(file)) /\ InputNames(file) \in Seq(STRING)
         /\ GatesKnown(graph, GatesBy(file, Len(file)))
         /\ OutsKnown(graph, OutsBy(file, Len(file)))
<1>1. file \in Files /\ graph = GraphOf(file)
  BY DEF CircuitIsRead
<1>2. LegalFile(file, STRING)
  BY <1>1, FilesAreLegal
<1>3. GraphSound(graph, STRING) /\ LinesLead(graph)
  BY <1>1, <1>2, LegalGraph
<1>4. file \in Seq(Statement(STRING)) /\ WellDriven(file)
  BY <1>2 DEF LegalFile
<1>5. /\ Built(graph, STRING, SaidBy(file, Len(file)), GatesBy(file, Len(file)),
               InputNames(file), OutsBy(file, Len(file)))
      /\ InputNames(file) \in Seq(STRING)
  BY <1>1, <1>4, GraphIsBuilt
<1> QED BY <1>3, <1>5 DEF Built

LEMMA ReadCircuitWalks == CircuitIsRead => WalksAgree
<1> SUFFICES ASSUME CircuitIsRead
             PROVE  WalksAgree
  OBVIOUS
<1>1. GraphSound(graph, STRING) /\ LinesLead(graph)
  BY CircuitFacts
<1>2. graph \in GraphType(STRING) /\ LinesSound(graph) /\ DestsSound(graph)
  BY <1>1 DEF GraphSound
<1> SUFFICES ASSUME NEW l \in DOMAIN graph.lines
             PROVE  LET line == graph.lines[l] IN
                    /\ IsInjective(line.dests)
                    /\ Range(line.dests) =
                         UNION {{[gate |-> g, idx |-> k] :
                                   k \in {i \in DOMAIN graph.gates[g].inputs :
                                            graph.gates[g].inputs[i] = l}} : g \in Gates}
                    /\ \A g \in Gates : graph.gates[g].output = l <=> line.source = g
                    /\ l \in Range(graph.ins) => line.source = NoGate
  BY DEF WalksAgree
<1>3. IsInjective(graph.lines[l].dests)
  BY <1>2 DEF DestsSound
<1>4. \A g \in Gates : graph.gates[g].output = l <=> graph.lines[l].source = g
  BY <1>2 DEF LinesSound, Gates
<1>5. l \in Range(graph.ins) => graph.lines[l].source = NoGate
  BY <1>1 DEF LinesLead
<1>6. \A c \in Range(graph.lines[l].dests) : c \in [gate : Nat, idx : Nat]
  <2>1. graph.lines[l] \in LineType(STRING)
    BY <1>2, GraphParts
  <2>2. graph.lines[l].dests \in Seq([gate : Nat, idx : Nat])
    BY <2>1 DEF LineType
  <2>3. PICK C : C = [gate : Nat, idx : Nat]
    OBVIOUS
  <2>4. PICK ds : ds = graph.lines[l].dests
    OBVIOUS
  <2>5. ds \in Seq(C)
    BY <2>2, <2>3, <2>4
  <2>6. \A i \in DOMAIN ds : ds[i] \in C
    BY <2>5, SeqElements
  <2>7. \A c \in Range(ds) : c \in C
    BY <2>6 DEF Range
  <2> QED BY <2>3, <2>4, <2>7
<1> DEFINE Links(g) == {[gate |-> g, idx |-> k] :
                          k \in {i \in DOMAIN graph.gates[g].inputs : graph.gates[g].inputs[i] = l}}
<1>7. ASSUME NEW c \in Range(graph.lines[l].dests)
      PROVE  \E g \in Gates : c \in Links(g)
  <2>1. /\ c.gate \in DOMAIN graph.gates /\ c.idx \in DOMAIN graph.gates[c.gate].inputs
        /\ graph.gates[c.gate].inputs[c.idx] = l
    BY <1>2 DEF DestsSound
  <2>2. c = [gate |-> c.gate, idx |-> c.idx]
    BY <1>6
  <2>3. c \in Links(c.gate)
    BY <2>1, <2>2
  <2> QED BY <2>1, <2>3 DEF Gates
<1>8. ASSUME NEW g \in Gates, NEW c \in Links(g)
      PROVE  c \in Range(graph.lines[l].dests)
  BY <1>2 DEF DestsSound, Gates
<1>9. Range(graph.lines[l].dests) = UNION {Links(g) : g \in Gates}
  <2> HIDE DEF Links
  <2> QED BY <1>7, <1>8
<1> QED BY <1>3, <1>4, <1>5, <1>9

LEMMA ReadCircuitPorts == CircuitIsRead => PortsFollowFile
<1> SUFFICES ASSUME CircuitIsRead
             PROVE  PortsFollowFile
  OBVIOUS
<1>1. PICK nm : nm = InputNames(file)
  OBVIOUS
<1>2. /\ GraphSound(graph, STRING) /\ InsKnown(graph, nm) /\ nm \in Seq(STRING)
      /\ OutsKnown(graph, OutsBy(file, Len(file)))
  BY <1>1, CircuitFacts
<1>3. graph \in GraphType(STRING) /\ OutsSound(graph)
  BY <1>2 DEF GraphSound
<1>4. file \in Seq(Statement(STRING))
  BY FilesAreLegal DEF CircuitIsRead, LegalFile
<1> DEFINE NamesOf(ls) == [k \in DOMAIN ls |-> graph.lines[ls[k]].name]
           Outputs == {st.name : st \in {s \in Range(file) : s.kind = "output"}}
                      \cup {st.ins[1] : st \in {s \in Range(file) : s.kind = "dff"}}
<1>5. NamesOf(graph.ins) = nm
  <2>1. DOMAIN graph.ins = DOMAIN nm
    <3>1. DOMAIN nm = 1 .. Len(nm) /\ DOMAIN graph.ins = 1 .. Len(graph.ins)
      BY <1>2, <1>3, GraphParts
    <3> QED BY <1>2, <3>1 DEF InsKnown
  <2>2. \A k \in DOMAIN graph.ins : graph.lines[graph.ins[k]].name = nm[k]
    BY <1>2 DEF InsKnown
  <2>3. nm = [k \in DOMAIN nm |-> nm[k]]
    BY <1>2
  <2> QED BY <2>1, <2>2, <2>3
<1>6. Range(NamesOf(graph.outs)) = {graph.lines[l].name : l \in Range(graph.outs)}
  BY DEF Range
<1>7. OutsBy(file, Len(file)) = Outputs
  <2>1. \A a : a \in OutsBy(file, Len(file)) <=> \E i \in DOMAIN file : a \in OutPart(file[i])
    BY <1>4, FileStatements
  <2>2. \A s : \A a : a \in OutPart(s) <=> (s.kind = "output" /\ a = s.name)
                                             \/ (s.kind = "dff" /\ a = s.ins[1])
    BY DEF OutPart
  <2>3. \A a : a \in Outputs <=> \E s \in Range(file) : a \in OutPart(s)
    BY <2>2
  <2>4. \A a : a \in Outputs <=> \E i \in DOMAIN file : a \in OutPart(file[i])
    <3> HIDE DEF Outputs
    <3> QED BY <2>3 DEF Range
  <2> HIDE DEF Outputs
  <2> QED BY <2>1, <2>4
<1>8. /\ IsInjective(graph.outs)
      /\ \A l \in DOMAIN graph.lines : graph.lines[l].is_output <=> l \in Range(graph.outs)
  BY <1>3 DEF OutsSound
<1>9. Range(NamesOf(graph.outs)) = Outputs
  BY <1>2, <1>6, <1>7 DEF OutsKnown
<1> QED BY <1>1, <1>5, <1>8, <1>9 DEF PortsFollowFile

\* The circuit tg-pro walks follows the file: for every file whose names are all
\* driven and read, in any order of the statements, a line lists the gate inputs
\* it is connected to, knows its source, and the inputs and outputs stand as the
\* parser met them.
THEOREM SpecFollowsFile == Spec => []GraphFollowsFile
<1>1. CircuitIsRead => GraphFollowsFile
  BY ReadCircuitWalks, ReadCircuitPorts DEF GraphFollowsFile
<1> QED BY <1>1, SpecKeepsCircuit, PTL

------------------------------------------------------------------------------
Bits == {0, 1}

BitOf(p) == IF p THEN 1 ELSE 0

\* The value of a gate, type by type.
Gives(type, pins) ==
  CASE type = "NOT"  -> 1 - pins[1]
    [] type = "BUF"  -> pins[1]
    [] type = "AND"  -> BitOf(\A i \in DOMAIN pins : pins[i] = 1)
    [] type = "NAND" -> BitOf(~\A i \in DOMAIN pins : pins[i] = 1)
    [] type = "OR"   -> BitOf(\E i \in DOMAIN pins : pins[i] = 1)
    [] type = "NOR"  -> BitOf(~\E i \in DOMAIN pins : pins[i] = 1)
    [] type = "XOR"  -> BitOf(pins[1] # pins[2])
    [] type = "XNOR" -> BitOf(pins[1] = pins[2])

LEMMA OnesOfTwo ==
  ASSUME NEW pins, DOMAIN pins = 1 .. 2, pins[1] \in Bits, pins[2] \in Bits
  PROVE  Cardinality({i \in DOMAIN pins : pins[i] = 1}) % 2 = BitOf(pins[1] # pins[2])
<1>1. PICK ones : ones = {i \in DOMAIN pins : pins[i] = 1}
  OBVIOUS
<1>2. \A i : i \in 1 .. 2 <=> i = 1 \/ i = 2
  OBVIOUS
<1>3. CASE pins[1] = 0 /\ pins[2] = 0
  <2>1. ones = {}
    BY <1>1, <1>2, <1>3
  <2>2. Cardinality(ones) = 0
    BY <2>1, FS_EmptySet
  <2> QED BY <1>1, <1>3, <2>2 DEF BitOf
<1>4. CASE pins[1] = 1 /\ pins[2] = 0
  <2>1. ones = {1}
    BY <1>1, <1>2, <1>4
  <2>2. Cardinality(ones) = 1
    BY <2>1, FS_Singleton
  <2> QED BY <1>1, <1>4, <2>2 DEF BitOf
<1>5. CASE pins[1] = 0 /\ pins[2] = 1
  <2>1. ones = {2}
    BY <1>1, <1>2, <1>5
  <2>2. Cardinality(ones) = 1
    BY <2>1, FS_Singleton
  <2> QED BY <1>1, <1>5, <2>2 DEF BitOf
<1>6. CASE pins[1] = 1 /\ pins[2] = 1
  <2>1. ones = 1 .. 2
    BY <1>1, <1>2, <1>6
  <2>2. Cardinality(1 .. 2) = 2
    <3>1. Cardinality({1}) = 1 /\ IsFiniteSet({1})
      BY FS_Singleton
    <3>2. Cardinality({1} \cup {2}) = 1 + 1
      <4>1. 2 \notin {1}
        OBVIOUS
      <4> QED BY <3>1, <4>1, FS_AddElement
    <3>3. 1 .. 2 = {1} \cup {2}
      BY <1>2
    <3> QED BY <3>2, <3>3
  <2> QED BY <1>1, <1>6, <2>1, <2>2 DEF BitOf
<1> QED BY <1>3, <1>4, <1>5, <1>6 DEF Bits

LEMMA SameCount == \A S : N!Cardinality(S) = Cardinality(S)
BY Zenon DEF Cardinality, N!Cardinality

LEMMA CalValueIs ==
  ASSUME NEW type \in GateTypes, NEW pins \in Seq(Bits), ArityOk(type, Len(pins))
  PROVE  N!CalValue(type, pins) = Gives(type, pins) /\ Gives(type, pins) \in Bits
<1>1. DOMAIN pins = 1 .. Len(pins) /\ Len(pins) \in Nat /\ \A i \in DOMAIN pins : pins[i] \in Bits
  BY SeqElements
<1>2. PICK ones : ones = {i \in DOMAIN pins : pins[i] = 1}
  OBVIOUS
<1>3. /\ (ones = DOMAIN pins) <=> \A i \in DOMAIN pins : pins[i] = 1
      /\ (ones = {}) <=> ~\E i \in DOMAIN pins : pins[i] = 1
  BY <1>2
<1>4. CASE type \in {"AND", "NAND", "OR", "NOR"}
  <2>1. N!CalValue(type, pins) =
          CASE type = "AND"  -> N!Bit(ones = DOMAIN pins)
            [] type = "NAND" -> N!Bit(ones # DOMAIN pins)
            [] type = "OR"   -> N!Bit(ones # {})
            [] type = "NOR"  -> N!Bit(ones = {})
    BY <1>2, <1>4 DEF N!CalValue
  <2> QED BY <1>3, <1>4, <2>1 DEF N!Bit, Gives, BitOf, Bits
<1>5. CASE type \in {"NOT", "BUF"}
  <2>1. pins[1] \in Bits
    BY <1>1, <1>5, ArityMeans
  <2>2. N!CalValue(type, pins) = IF type = "NOT" THEN 1 - pins[1] ELSE pins[1]
    BY <1>5 DEF N!CalValue
  <2>3. CASE type = "NOT"
    BY <2>1, <2>2, <2>3 DEF Gives, Bits
  <2>4. CASE type = "BUF"
    BY <2>1, <2>2, <2>4 DEF Gives, Bits
  <2> QED BY <1>5, <2>3, <2>4
<1>6. CASE type \in {"XOR", "XNOR"}
  <2>1. DOMAIN pins = 1 .. 2 /\ pins[1] \in Bits /\ pins[2] \in Bits
    <3>1. Len(pins) = 2
      BY <1>6, ArityMeans
    <3> QED BY <1>1, <3>1
  <2>2. Cardinality(ones) % 2 = BitOf(pins[1] # pins[2])
    BY <1>2, <2>1, OnesOfTwo
  <2>3. CASE type = "XOR"
    <3>1. N!CalValue(type, pins) = Cardinality({i \in DOMAIN pins : pins[i] = 1}) % 2
      BY <2>3, SameCount DEF N!CalValue
    <3> QED BY <1>2, <2>2, <2>3, <3>1 DEF Gives, BitOf, Bits
  <2>4. CASE type = "XNOR"
    <3>1. N!CalValue(type, pins) = 1 - (Cardinality({i \in DOMAIN pins : pins[i] = 1}) % 2)
      BY <2>4, SameCount DEF N!CalValue
    <3> QED BY <1>2, <2>2, <2>4, <3>1 DEF Gives, BitOf, Bits
  <2> QED BY <1>6, <2>3, <2>4
<1> QED BY <1>4, <1>5, <1>6 DEF GateTypes

\* A link of a chain: a gate of one or two inputs.
Link2(type, x, y) ==
  CASE type = "NOT"  -> 1 - x
    [] type = "BUF"  -> x
    [] type = "AND"  -> BitOf(x = 1 /\ y = 1)
    [] type = "NAND" -> BitOf(~(x = 1 /\ y = 1))
    [] type = "OR"   -> BitOf(x = 1 \/ y = 1)
    [] type = "NOR"  -> BitOf(~(x = 1 \/ y = 1))
    [] type = "XOR"  -> BitOf(x # y)
    [] type = "XNOR" -> BitOf(x = y)

LEMMA SmallGate ==
  ASSUME NEW type \in GateTypes, NEW pins \in Seq(Bits), ArityOk(type, Len(pins)), Len(pins) <= 2
  PROVE  N!CalValue(type, pins) = Link2(type, pins[1], pins[Len(pins)])
<1>1. DOMAIN pins = 1 .. Len(pins) /\ Len(pins) \in Nat
  BY SeqElements
<1>2. N!CalValue(type, pins) = Gives(type, pins)
  BY CalValueIs
<1>3. CASE type \in {"NOT", "BUF"}
  BY <1>2, <1>3 DEF Gives, Link2
<1>4. CASE type \notin {"NOT", "BUF"}
  <2>1. Len(pins) = 2
    BY <1>1, <1>4, ArityMeans DEF GateTypes
  <2>2. \A i : i \in DOMAIN pins <=> i = 1 \/ i = 2
    BY <1>1, <2>1
  <2>3. /\ (\A i \in DOMAIN pins : pins[i] = 1) <=> (pins[1] = 1 /\ pins[2] = 1)
        /\ (\E i \in DOMAIN pins : pins[i] = 1) <=> (pins[1] = 1 \/ pins[2] = 1)
    BY <2>2
  <2> QED BY <1>2, <1>4, <2>1, <2>3 DEF Gives, Link2, GateTypes
<1> QED BY <1>3, <1>4

------------------------------------------------------------------------------
\* A chain for a gate of n inputs whose pins have the values in pins, its made
\* lines those in made, and its output the value z.
Below(pins, made, k) == IF k = 1 THEN pins[Len(pins)] ELSE made[k - 1]

LinkFits(type, pins, made, z, k) ==
  IF k = Len(pins) - 1
  THEN z = Link2(type, pins[Len(pins) - k], Below(pins, made, k))
  ELSE made[k] = Link2(InnerType(type), pins[Len(pins) - k], Below(pins, made, k))

\* What the made line k of the chain is to have: the last k + 1 pins joined.
Joined(type, pins, k) ==
  IF type \in {"AND", "NAND"}
  THEN BitOf(\A i \in (Len(pins) - k) .. Len(pins) : pins[i] = 1)
  ELSE BitOf(\E i \in (Len(pins) - k) .. Len(pins) : pins[i] = 1)

LEMMA JoinedSteps ==
  ASSUME NEW type \in {"AND", "NAND", "OR", "NOR"}, NEW pins \in Seq(Bits), Len(pins) > 2,
         NEW k \in 1 .. Len(pins) - 2
  PROVE  /\ Joined(type, pins, k) \in Bits
         /\ k = 1 => Joined(type, pins, k)
                       = Link2(InnerType(type), pins[Len(pins) - k], pins[Len(pins)])
         /\ k > 1 => Joined(type, pins, k)
                       = Link2(InnerType(type), pins[Len(pins) - k], Joined(type, pins, k - 1))
<1>1. PICK n : n = Len(pins)
  OBVIOUS
<1>2. n \in Nat /\ n > 2 /\ k \in Nat /\ k >= 1 /\ k <= n - 2
  BY <1>1
<1>3. CASE k = 1
  <2>1. \A i : i \in (n - k) .. n <=> i = n - k \/ i = n
    BY <1>2, <1>3
  <2>2. /\ (\A i \in (n - k) .. n : pins[i] = 1) <=> (pins[n - k] = 1 /\ pins[n] = 1)
        /\ (\E i \in (n - k) .. n : pins[i] = 1) <=> (pins[n - k] = 1 \/ pins[n] = 1)
    BY <2>1
  <2> QED BY <1>1, <1>3, <2>2 DEF Joined, Link2, InnerType, BitOf, Bits
<1>4. CASE k > 1
  <2>1. PICK j : j = k - 1
    OBVIOUS
  <2>2. \A i : i \in (n - k) .. n <=> i = n - k \/ i \in (n - j) .. n
    BY <1>2, <1>4, <2>1
  <2>3. /\ (\A i \in (n - k) .. n : pins[i] = 1)
             <=> (pins[n - k] = 1 /\ \A i \in (n - j) .. n : pins[i] = 1)
        /\ (\E i \in (n - k) .. n : pins[i] = 1)
             <=> (pins[n - k] = 1 \/ \E i \in (n - j) .. n : pins[i] = 1)
    BY <2>2
  <2> QED BY <1>1, <1>4, <2>1, <2>3, SMTT(30) DEF Joined, Link2, InnerType, BitOf, Bits
<1> QED BY <1>2, <1>3, <1>4

LEMMA LastLink ==
  ASSUME NEW type \in {"AND", "NAND", "OR", "NOR"}, NEW pins \in Seq(Bits), Len(pins) > 2
  PROVE  N!CalValue(type, pins) = Link2(type, pins[1], Joined(type, pins, Len(pins) - 2))
<1>1. PICK n : n = Len(pins)
  OBVIOUS
<1>2. n \in Nat /\ n > 2 /\ DOMAIN pins = 1 .. n
  BY <1>1
<1>3. ArityOk(type, n)
  <2>1. type \in {"AND", "NAND", "OR", "NOR"} /\ n >= 2
    BY <1>2
  <2> HIDE <1>1, <1>2
  <2> QED BY <2>1 DEF ArityOk
<1>4. N!CalValue(type, pins) = Gives(type, pins)
  <2>1. type \in GateTypes
    BY DEF GateTypes
  <2> QED BY <1>1, <1>3, <2>1, CalValueIs
<1>5. \A i : i \in 1 .. n <=> i = 1 \/ i \in (n - (n - 2)) .. n
  BY <1>2
<1>6. /\ (\A i \in 1 .. n : pins[i] = 1)
           <=> (pins[1] = 1 /\ \A i \in (n - (n - 2)) .. n : pins[i] = 1)
      /\ (\E i \in 1 .. n : pins[i] = 1)
           <=> (pins[1] = 1 \/ \E i \in (n - (n - 2)) .. n : pins[i] = 1)
  BY <1>5
<1>7. CASE type \in {"AND", "NAND"}
  <2>1. (Joined(type, pins, n - 2) = 1) <=> \A i \in (n - (n - 2)) .. n : pins[i] = 1
    BY <1>1, <1>7 DEF Joined, BitOf
  <2> QED BY <1>1, <1>2, <1>4, <1>6, <1>7, <2>1 DEF Link2, Gives, BitOf
<1>8. CASE type \in {"OR", "NOR"}
  <2>1. (Joined(type, pins, n - 2) = 1) <=> \E i \in (n - (n - 2)) .. n : pins[i] = 1
    BY <1>1, <1>8 DEF Joined, BitOf
  <2> QED BY <1>1, <1>2, <1>4, <1>6, <1>8, <2>1 DEF Link2, Gives, BitOf
<1> QED BY <1>7, <1>8

\* A chain holds together iff its made lines have the joined values and its
\* output has the value of the gate.
LinksFit(type, pins, made, z) ==
  \A k \in 1 .. Len(pins) - 1 : LinkFits(type, pins, made, z, k)

ChainJoins(type, pins, made, z) ==
  /\ \A k \in 1 .. Len(pins) - 2 : made[k] = Joined(type, pins, k)
  /\ z = N!CalValue(type, pins)

LEMMA ChainMeans ==
  ASSUME NEW type \in {"AND", "NAND", "OR", "NOR"}, NEW pins \in Seq(Bits), Len(pins) > 2,
         NEW made, NEW z
  PROVE  LinksFit(type, pins, made, z) <=> ChainJoins(type, pins, made, z)
<1>1. PICK n : n = Len(pins)
  OBVIOUS
<1>2. n \in Nat /\ n > 2
  BY <1>1
<1>3. ASSUME \A k \in 1 .. n - 1 : LinkFits(type, pins, made, z, k)
      PROVE  /\ \A k \in 1 .. n - 2 : made[k] = Joined(type, pins, k)
             /\ z = N!CalValue(type, pins)
  <2> DEFINE B == {k \in Nat : k \in 1 .. n - 2 => made[k] = Joined(type, pins, k)}
  <2>1. 0 \in B
    OBVIOUS
  <2>2. ASSUME NEW k \in B
        PROVE  k + 1 \in B
    <3>1. SUFFICES ASSUME k + 1 \in 1 .. n - 2
                   PROVE  made[k + 1] = Joined(type, pins, k + 1)
      OBVIOUS
    <3>2. k + 1 \in 1 .. n - 1 /\ k + 1 # n - 1 /\ (k + 1) - 1 = k /\ k \in Nat
      BY <1>2, <3>1
    <3>3. made[k + 1] = Link2(InnerType(type), pins[n - (k + 1)], Below(pins, made, k + 1))
      BY <1>1, <1>3, <3>2 DEF LinkFits
    <3>4. CASE k = 0
      <4>1. Below(pins, made, k + 1) = pins[n]
        BY <1>1, <3>4 DEF Below
      <4> QED BY <1>1, <1>2, <3>1, <3>3, <3>4, <4>1, JoinedSteps
    <3>5. CASE k # 0
      <4>1. Below(pins, made, k + 1) = made[k]
        BY <3>2, <3>5 DEF Below
      <4>2. k \in 1 .. n - 2 /\ k + 1 > 1
        BY <1>2, <3>1, <3>2, <3>5
      <4>3. made[k] = Joined(type, pins, k)
        BY <2>2, <4>2
      <4>4. Joined(type, pins, k + 1) = Link2(InnerType(type), pins[n - (k + 1)], Joined(type, pins, k))
        BY <1>1, <1>2, <3>1, <3>2, <4>2, JoinedSteps, SMTT(30)
      <4> QED BY <3>3, <4>1, <4>3, <4>4
    <3> QED BY <3>4, <3>5
  <2>3. B = Nat
    <3>1. B \in SUBSET Nat
      OBVIOUS
    <3> HIDE DEF B
    <3> QED BY <2>1, <2>2, <3>1, InductionOverNat
  <2>4. ASSUME NEW k \in 1 .. n - 2
        PROVE  made[k] = Joined(type, pins, k)
    <3>1. k \in Nat
      OBVIOUS
    <3>2. k \in B
      <4> HIDE DEF B
      <4> QED BY <2>3, <3>1
    <3> QED BY <3>2
  <2>5. n - 1 \in 1 .. n - 1 /\ n - 2 \in 1 .. n - 2 /\ (n - 1) - 1 = n - 2 /\ n - (n - 1) = 1
        /\ n - 1 # 1
    BY <1>2
  <2>6. z = Link2(type, pins[1], made[n - 2])
    BY <1>1, <1>3, <2>5 DEF LinkFits, Below
  <2>7. z = N!CalValue(type, pins)
    BY <1>1, <1>2, <2>4, <2>5, <2>6, LastLink
  <2> QED BY <2>4, <2>7
<1>4. ASSUME \A k \in 1 .. n - 2 : made[k] = Joined(type, pins, k),
             z = N!CalValue(type, pins), NEW k \in 1 .. n - 1
      PROVE  LinkFits(type, pins, made, z, k)
  <2>1. CASE k = n - 1
    <3>1. n - 2 \in 1 .. n - 2 /\ (n - 1) - 1 = n - 2 /\ n - (n - 1) = 1 /\ n - 1 # 1
      BY <1>2
    <3>2. Below(pins, made, k) = Joined(type, pins, n - 2)
      BY <1>4, <2>1, <3>1 DEF Below
    <3> QED BY <1>1, <1>2, <1>4, <2>1, <3>1, <3>2, LastLink DEF LinkFits
  <2>2. CASE k # n - 1 /\ k = 1
    <3>1. k \in 1 .. n - 2
      BY <1>2, <2>2
    <3>2. Below(pins, made, k) = pins[n]
      BY <1>1, <2>2 DEF Below
    <3> QED BY <1>1, <1>2, <1>4, <2>2, <3>1, <3>2, JoinedSteps DEF LinkFits
  <2>3. CASE k # n - 1 /\ k # 1
    <3>1. k \in 1 .. n - 2 /\ k - 1 \in 1 .. n - 2 /\ k > 1
      BY <1>2, <2>3
    <3>2. Below(pins, made, k) = Joined(type, pins, k - 1)
      BY <1>4, <2>3, <3>1 DEF Below
    <3> QED BY <1>1, <1>2, <1>4, <2>3, <3>1, <3>2, JoinedSteps, SMTT(30) DEF LinkFits
  <2> QED BY <2>1, <2>2, <2>3
<1> QED BY <1>1, <1>3, <1>4 DEF LinksFit, ChainJoins

------------------------------------------------------------------------------
\* A circuit whose gates can be ordered.
Walkable(gr, rank) ==
  /\ GraphSound(gr, STRING) /\ LinesLead(gr)
  /\ rank \in [DOMAIN gr.gates -> Nat] /\ Ordered(gr, rank)

LEMMA ReadCircuitIsWalkable == CircuitIsRead => \E rank : Walkable(graph, rank)
<1> SUFFICES ASSUME CircuitIsRead
             PROVE  \E rank : Walkable(graph, rank)
  OBVIOUS
<1>1. file \in Files /\ graph = GraphOf(file)
  BY DEF CircuitIsRead
<1>2. LegalFile(file, STRING)
  BY <1>1, FilesAreLegal
<1>3. PICK rank \in [DOMAIN graph.gates -> 1 .. Len(file)] : Ordered(graph, rank)
  BY <1>1, <1>2, GatesAreOrdered
<1>4. 1 .. Len(file) \subseteq Nat
  OBVIOUS
<1>5. rank \in [DOMAIN graph.gates -> Nat]
  BY <1>4
<1> QED BY <1>3, <1>5, CircuitFacts DEF Walkable

LEMMA GateShape ==
  ASSUME NEW gr, NEW rank, Walkable(gr, rank), NEW g \in DOMAIN gr.gates
  PROVE  /\ gr.gates[g].type \in GateTypes /\ gr.gates[g].inputs \in Seq(NamedLines(gr))
         /\ Len(gr.gates[g].inputs) \in Nat /\ Len(gr.gates[g].inputs) >= 1
         /\ DOMAIN gr.gates[g].inputs = 1 .. Len(gr.gates[g].inputs)
         /\ \A k \in DOMAIN gr.gates[g].inputs : gr.gates[g].inputs[k] \in NamedLines(gr)
         /\ ArityOk(gr.gates[g].type, Len(gr.gates[g].inputs))
         /\ gr.gates[g].output \in NamedLines(gr)
         /\ gr.lines[gr.gates[g].output].source = g
         /\ g \in Nat \ {0}
<1>1. /\ gr \in GraphType(STRING) /\ GatesSound(gr) /\ LinesSound(gr)
  BY DEF Walkable, GraphSound
<1>2. gr.gates[g] \in GateType /\ DOMAIN gr.gates = 1 .. Len(gr.gates) /\ Len(gr.gates) \in Nat
  BY <1>1, GraphParts
<1>3. gr.gates[g].type \in GateTypes /\ gr.gates[g].inputs \in Seq(Nat)
  BY <1>2 DEF GateType
<1>4. PICK is : is = gr.gates[g].inputs
  OBVIOUS
<1>5. /\ Len(is) \in Nat /\ DOMAIN is = 1 .. Len(is) /\ is = [k \in 1 .. Len(is) |-> is[k]]
  BY <1>3, <1>4
<1>6. /\ ArityOk(gr.gates[g].type, Len(is)) /\ gr.gates[g].output \in NamedLines(gr)
      /\ \A k \in DOMAIN is : is[k] \in NamedLines(gr)
  BY <1>1, <1>4 DEF GatesSound
<1>7. PICK S : S = NamedLines(gr)
  OBVIOUS
<1>8. is \in Seq(S)
  <2>1. \A k \in 1 .. Len(is) : is[k] \in S
    BY <1>5, <1>6, <1>7
  <2>2. is \in [1 .. Len(is) -> S]
    BY <1>5, <2>1
  <2> QED BY <1>5, <2>2
<1>9. Len(is) >= 1
  BY <1>3, <1>5, <1>6, ArityMeans DEF GateTypes
<1>10. gr.gates[g].output \in DOMAIN gr.lines
  BY <1>6 DEF NamedLines
<1>11. gr.lines[gr.gates[g].output].source = g
  BY <1>1, <1>10 DEF LinesSound
<1> QED BY <1>2, <1>3, <1>4, <1>5, <1>6, <1>7, <1>8, <1>9, <1>11

LEMMA LineShape ==
  ASSUME NEW gr, NEW rank, Walkable(gr, rank), NEW l \in NamedLines(gr)
  PROVE  /\ l \in DOMAIN gr.lines /\ l \in Nat \ {0} /\ l <= Len(gr.lines) /\ Len(gr.lines) \in Nat
         /\ gr.lines[l].source \in DOMAIN gr.gates \cup {NoGate}
         /\ gr.lines[l].source # NoGate =>
              /\ gr.lines[l].source \in DOMAIN gr.gates
              /\ gr.gates[gr.lines[l].source].output = l
         /\ (l \in Range(gr.ins)) <=> (gr.lines[l].source = NoGate)
<1>1. /\ gr \in GraphType(STRING) /\ LinesSound(gr) /\ LinesLead(gr)
  BY DEF Walkable, GraphSound
<1>2. l \in DOMAIN gr.lines /\ DOMAIN gr.lines = 1 .. Len(gr.lines) /\ Len(gr.lines) \in Nat
  BY <1>1, GraphParts DEF NamedLines
<1>3. gr.lines[l].source = NoGate \/ gr.lines[l].source \in DOMAIN gr.gates
  BY <1>1, <1>2 DEF LinesSound
<1>4. gr.lines[l].source # NoGate => gr.gates[gr.lines[l].source].output = l
  BY <1>1, <1>2, <1>3 DEF LinesSound
<1>5. (l \in Range(gr.ins)) <=> (gr.lines[l].source = NoGate)
  BY <1>1 DEF LinesLead
<1> QED BY <1>2, <1>3, <1>4, <1>5

\* The inputs come first.
LineRank(gr, rank, l) ==
  IF gr.lines[l].source = NoGate THEN 0 ELSE rank[gr.lines[l].source] + 1

LEMMA LineRanks ==
  ASSUME NEW gr, NEW rank, Walkable(gr, rank)
  PROVE  /\ \A l \in NamedLines(gr) : LineRank(gr, rank, l) \in Nat
         /\ \A l \in NamedLines(gr) : gr.lines[l].source # NoGate =>
              \A k \in DOMAIN gr.gates[gr.lines[l].source].inputs :
                LineRank(gr, rank, gr.gates[gr.lines[l].source].inputs[k]) < LineRank(gr, rank, l)
<1>1. rank \in [DOMAIN gr.gates -> Nat] /\ Ordered(gr, rank)
  BY DEF Walkable
<1>2. ASSUME NEW l \in NamedLines(gr)
      PROVE  LineRank(gr, rank, l) \in Nat
  BY <1>1, LineShape DEF LineRank
<1>3. ASSUME NEW l \in NamedLines(gr), gr.lines[l].source # NoGate,
             NEW k \in DOMAIN gr.gates[gr.lines[l].source].inputs
      PROVE  LineRank(gr, rank, gr.gates[gr.lines[l].source].inputs[k]) < LineRank(gr, rank, l)
  <2>1. PICK g : g = gr.lines[l].source
    OBVIOUS
  <2>2. g \in DOMAIN gr.gates
    BY <1>3, <2>1, LineShape
  <2>3. PICK i : i = gr.gates[g].inputs[k]
    OBVIOUS
  <2>4. i \in NamedLines(gr)
    BY <1>3, <2>1, <2>2, <2>3, GateShape
  <2>5. gr.lines[i].source # NoGate => rank[gr.lines[i].source] < rank[g]
    BY <1>1, <1>3, <2>1, <2>2, <2>3 DEF Ordered
  <2>6. LineRank(gr, rank, l) = rank[g] + 1 /\ rank[g] \in Nat
    BY <1>1, <1>3, <2>1, <2>2 DEF LineRank
  <2>7. gr.lines[i].source # NoGate => rank[gr.lines[i].source] \in Nat
    BY <1>1, <2>4, LineShape
  <2>8. LineRank(gr, rank, i) < LineRank(gr, rank, l)
    BY <2>5, <2>6, <2>7 DEF LineRank
  <2> QED BY <2>1, <2>3, <2>8
<1> QED BY <1>2, <1>3

\* What holds of a line if it holds of the lines its gate reads holds of all lines.
LEMMA LineInduction ==
  ASSUME NEW gr, NEW rank, Walkable(gr, rank), NEW B,
         \A l \in NamedLines(gr) :
           (gr.lines[l].source # NoGate =>
              \A k \in DOMAIN gr.gates[gr.lines[l].source].inputs :
                gr.gates[gr.lines[l].source].inputs[k] \in B) => l \in B
  PROVE  NamedLines(gr) \subseteq B
<1> DEFINE Bad == {l \in NamedLines(gr) : l \notin B}
           R == {LineRank(gr, rank, l) : l \in Bad}
<1>1. SUFFICES ASSUME R # {} PROVE FALSE
  OBVIOUS
<1>2. R \in SUBSET Nat
  BY LineRanks
<1>3. PICK n \in R : \A m \in R : n <= m
  <2> HIDE DEF R
  <2> QED BY <1>1, <1>2, LeastNatural
<1>4. PICK l \in Bad : n = LineRank(gr, rank, l)
  BY <1>3
<1>5. l \in NamedLines(gr) /\ l \notin B
  BY <1>4
<1>6. gr.lines[l].source # NoGate
      /\ \E k \in DOMAIN gr.gates[gr.lines[l].source].inputs :
           gr.gates[gr.lines[l].source].inputs[k] \notin B
  BY <1>5
<1>7. PICK k \in DOMAIN gr.gates[gr.lines[l].source].inputs :
        gr.gates[gr.lines[l].source].inputs[k] \notin B
  BY <1>6
<1>8. PICK i : i = gr.gates[gr.lines[l].source].inputs[k]
  OBVIOUS
<1>9. gr.lines[l].source \in DOMAIN gr.gates
  BY <1>5, <1>6, LineShape
<1>10. i \in NamedLines(gr)
  BY <1>7, <1>8, <1>9, GateShape
<1>11. LineRank(gr, rank, i) < LineRank(gr, rank, l)
  BY <1>5, <1>6, <1>7, <1>8, LineRanks
<1>12. LineRank(gr, rank, i) \in R
  BY <1>7, <1>8, <1>10
<1>13. n <= LineRank(gr, rank, i)
  BY <1>3, <1>12
<1>14. LineRank(gr, rank, i) \in Nat /\ n \in Nat
  BY <1>2, <1>12, <1>3
<1> QED BY <1>4, <1>11, <1>13, <1>14

------------------------------------------------------------------------------
\* The values the pins of gate g see, and what line l is to have then.
PinsUnder(gr, f, val, g) ==
  [k \in DOMAIN gr.gates[g].inputs |->
     Seen(f, gr.gates[g].inputs[k], f.connection = [gate |-> g, idx |-> k], val)]

ValueOf(gr, v, f, val, l) ==
  IF gr.lines[l].source = NoGate THEN v[l]
  ELSE N!CalValue(gr.gates[gr.lines[l].source].type, PinsUnder(gr, f, val, gr.lines[l].source))

HasValues(gr, v, f, val) ==
  /\ val \in [NamedLines(gr) -> Bits]
  /\ \A l \in NamedLines(gr) : val[l] = ValueOf(gr, v, f, val, l)

\* The stuck value of a line is a value.
StuckIsBit(gr, f) == f.line \in NamedLines(gr) => f.stuck_at \in Bits

LEMMA PinsAreBits ==
  ASSUME NEW gr, NEW rank, Walkable(gr, rank), NEW f, StuckIsBit(gr, f),
         NEW val \in [NamedLines(gr) -> Bits], NEW g \in DOMAIN gr.gates
  PROVE  /\ PinsUnder(gr, f, val, g) \in Seq(Bits)
         /\ Len(PinsUnder(gr, f, val, g)) = Len(gr.gates[g].inputs)
         /\ DOMAIN PinsUnder(gr, f, val, g) = DOMAIN gr.gates[g].inputs
         /\ N!CalValue(gr.gates[g].type, PinsUnder(gr, f, val, g)) \in Bits
<1>1. PICK is : is = gr.gates[g].inputs
  OBVIOUS
<1>2. PICK n : n = Len(is)
  OBVIOUS
<1>3. /\ gr.gates[g].type \in GateTypes /\ n \in Nat /\ DOMAIN is = 1 .. n
      /\ \A k \in DOMAIN is : is[k] \in NamedLines(gr)
      /\ ArityOk(gr.gates[g].type, n)
  BY <1>1, <1>2, GateShape
<1>4. PICK pins : pins = PinsUnder(gr, f, val, g)
  OBVIOUS
<1>5. ASSUME NEW k \in DOMAIN is
      PROVE  pins[k] \in Bits
  <2>1. pins[k] = Seen(f, is[k], f.connection = [gate |-> g, idx |-> k], val)
    BY <1>1, <1>4 DEF PinsUnder
  <2>2. is[k] \in NamedLines(gr) /\ val[is[k]] \in Bits
    BY <1>3
  <2> QED BY <2>1, <2>2 DEF Seen, StuckIsBit
<1>6. pins = [k \in DOMAIN is |-> pins[k]]
  <2>1. \A k \in DOMAIN is : pins[k] = Seen(f, is[k], f.connection = [gate |-> g, idx |-> k], val)
    BY <1>1, <1>4 DEF PinsUnder
  <2>2. DOMAIN pins = DOMAIN is
    BY <1>1, <1>4 DEF PinsUnder
  <2>3. pins = [k \in DOMAIN pins |-> pins[k]]
    BY <1>4 DEF PinsUnder
  <2> QED BY <2>2, <2>3
<1>7. pins \in [1 .. n -> Bits]
  BY <1>3, <1>5, <1>6
<1>8. pins \in Seq(Bits) /\ Len(pins) = n /\ DOMAIN pins = 1 .. n
  BY <1>3, <1>7
<1>9. N!CalValue(gr.gates[g].type, pins) \in Bits
  BY <1>3, <1>8, CalValueIs
<1> QED BY <1>1, <1>2, <1>3, <1>4, <1>8, <1>9

\* A recursive definition of the values of the lines has a solution.
LEMMA ValuesExist ==
  ASSUME NEW gr, NEW rank, Walkable(gr, rank), NEW f, StuckIsBit(gr, f),
         NEW v \in [Range(gr.ins) -> Bits]
  PROVE  \E val : HasValues(gr, v, f, val)
<1> DEFINE S == NamedLines(gr)
           V(l, val) == ValueOf(gr, v, f, val, l)
           D == [l \in S |-> [val \in [S -> Bits] |-> V(l, val)]]
           lr == [l \in S |-> LineRank(gr, rank, l)]
<1>1. lr \in [S -> Nat] /\ Bits # {}
  BY LineRanks DEF Bits
<1>2. ASSUME NEW l \in S, NEW val \in [S -> Bits]
      PROVE  V(l, val) \in Bits
  <2>1. CASE gr.lines[l].source = NoGate
    <3>1. l \in Range(gr.ins)
      BY <2>1, LineShape
    <3> QED BY <2>1, <3>1 DEF ValueOf
  <2>2. CASE gr.lines[l].source # NoGate
    <3>1. gr.lines[l].source \in DOMAIN gr.gates
      BY <2>2, LineShape
    <3> QED BY <2>2, <3>1, PinsAreBits DEF ValueOf
  <2> QED BY <2>1, <2>2
<1>3. ASSUME NEW l \in S, NEW p \in [S -> Bits], NEW q \in [S -> Bits],
             \A m \in S : lr[m] < lr[l] => p[m] = q[m]
      PROVE  V(l, p) = V(l, q)
  <2>1. CASE gr.lines[l].source = NoGate
    BY <2>1 DEF ValueOf
  <2>2. CASE gr.lines[l].source # NoGate
    <3>1. PICK g : g = gr.lines[l].source
      OBVIOUS
    <3>2. g \in DOMAIN gr.gates
      BY <2>2, <3>1, LineShape
    <3>3. ASSUME NEW k \in DOMAIN gr.gates[g].inputs
          PROVE  p[gr.gates[g].inputs[k]] = q[gr.gates[g].inputs[k]]
      <4>1. PICK i : i = gr.gates[g].inputs[k]
        OBVIOUS
      <4>2. i \in S
        BY <3>2, <4>1, GateShape
      <4>3. LineRank(gr, rank, i) < LineRank(gr, rank, l)
        BY <2>2, <3>1, <4>1, LineRanks
      <4> QED BY <1>3, <4>1, <4>2, <4>3
    <3>4. PinsUnder(gr, f, p, g) = PinsUnder(gr, f, q, g)
      BY <3>3 DEF PinsUnder, Seen
    <3> QED BY <3>1, <3>4 DEF ValueOf
  <2> QED BY <2>1, <2>2
<1> HIDE DEF V, lr, S
<1>4. Delivers(D, S, Bits)
  BY <1>2 DEF Delivers
<1>5. ReadsBelow(D, S, Bits, lr)
  <2> SUFFICES ASSUME NEW l \in S, NEW p \in [S -> Bits], NEW q \in [S -> Bits],
                      \A m \in S : lr[m] < lr[l] => p[m] = q[m]
               PROVE  D[l][p] = D[l][q]
    BY DEF ReadsBelow
  <2>1. V(l, p) = V(l, q)
    BY <1>3
  <2> QED BY <2>1
<1>6. \A l \in S : \A val \in [S -> Bits] : D[l][val] = V(l, val)
  OBVIOUS
<1>7. \E val \in [S -> Bits] : Solves(val, D, S)
  <2> HIDE DEF D
  <2> QED BY <1>1, <1>4, <1>5, RankedRecursion
<1>8. PICK val \in [S -> Bits] : Solves(val, D, S)
  BY <1>7
<1>9. \A l \in S : val[l] = V(l, val)
  <2> HIDE DEF D
  <2> QED BY <1>6, <1>8 DEF Solves
<1> QED BY <1>9 DEF HasValues, S, V

LEMMA LineValuesAre ==
  ASSUME NEW rank, Walkable(graph, rank), NEW f, StuckIsBit(graph, f), NEW v \in InputVectors
  PROVE  HasValues(graph, v, f, LineValues(v, f))
<1>1. v \in [Range(graph.ins) -> Bits]
  BY DEF InputVectors, Bits
<1>2. PICK val : HasValues(graph, v, f, val)
  BY <1>1, ValuesExist
<1>3. \A l \in NamedLines(graph) :
        val[l] = LET g    == graph.lines[l].source
                     gate == graph.gates[g]
                 IN  IF g = NoGate THEN v[l]
                     ELSE N!CalValue(gate.type,
                            [k \in DOMAIN gate.inputs |->
                               Seen(f, gate.inputs[k], f.connection = [gate |-> g, idx |-> k], val)])
  BY <1>2 DEF HasValues, ValueOf, PinsUnder
<1> DEFINE Step(w) == [l \in NamedLines(graph) |->
                         LET g    == graph.lines[l].source
                             gate == graph.gates[g]
                         IN  IF g = NoGate THEN v[l]
                             ELSE N!CalValue(gate.type,
                                    [k \in DOMAIN gate.inputs |->
                                       Seen(f, gate.inputs[k],
                                            f.connection = [gate |-> g, idx |-> k], w)])]
           whole == CHOOSE w : w = Step(w)
<1>4. val = [l \in NamedLines(graph) |-> val[l]]
  BY <1>2 DEF HasValues
<1>5. val = Step(val)
  BY <1>3, <1>4
<1>6. whole = Step(whole)
  <2> HIDE DEF Step
  <2> QED BY <1>5
<1>7. LineValues(v, f) = whole
  BY DEF LineValues
<1>8. \A l \in NamedLines(graph) : whole[l] = ValueOf(graph, v, f, whole, l)
  <2>1. whole = [l \in NamedLines(graph) |-> ValueOf(graph, v, f, whole, l)]
    <3> HIDE DEF whole
    <3> QED BY <1>6 DEF ValueOf, PinsUnder
  <2> HIDE DEF whole
  <2>2. PICK q : q = [l \in NamedLines(graph) |-> ValueOf(graph, v, f, whole, l)]
    OBVIOUS
  <2> QED BY <2>1, <2>2
<1> DEFINE Same == {l \in NamedLines(graph) : whole[l] = val[l]}
<1>9. ASSUME NEW l \in NamedLines(graph),
             graph.lines[l].source # NoGate =>
               \A k \in DOMAIN graph.gates[graph.lines[l].source].inputs :
                 graph.gates[graph.lines[l].source].inputs[k] \in Same
      PROVE  l \in Same
  <2>1. val[l] = ValueOf(graph, v, f, val, l)
    BY <1>2 DEF HasValues
  <2>2. whole[l] = ValueOf(graph, v, f, whole, l)
    BY <1>8
  <2> HIDE DEF whole
  <2>3. CASE graph.lines[l].source = NoGate
    BY <2>1, <2>2, <2>3 DEF ValueOf
  <2>4. CASE graph.lines[l].source # NoGate
    <3>1. PICK g : g = graph.lines[l].source
      OBVIOUS
    <3>2. \A k \in DOMAIN graph.gates[g].inputs :
            whole[graph.gates[g].inputs[k]] = val[graph.gates[g].inputs[k]]
      BY <1>9, <2>4, <3>1
    <3>3. PinsUnder(graph, f, whole, g) = PinsUnder(graph, f, val, g)
      BY <3>2 DEF PinsUnder, Seen
    <3> QED BY <2>1, <2>2, <3>1, <3>3 DEF ValueOf
  <2> QED BY <2>3, <2>4
<1>10. NamedLines(graph) \subseteq Same
  <2> HIDE DEF Same
  <2> QED BY <1>9, LineInduction
<1>11. whole = [l \in NamedLines(graph) |-> whole[l]]
  <2>1. whole = [l \in NamedLines(graph) |-> ValueOf(graph, v, f, whole, l)]
    <3> HIDE DEF whole
    <3> QED BY <1>6 DEF ValueOf, PinsUnder
  <2> HIDE DEF whole
  <2>2. PICK q : q = [l \in NamedLines(graph) |-> ValueOf(graph, v, f, whole, l)]
    OBVIOUS
  <2> QED BY <1>8, <2>1, <2>2
<1>12. whole = val
  <2> HIDE DEF whole
  <2> QED BY <1>4, <1>10, <1>11
<1>13. HasValues(graph, v, f, whole)
  <2> HIDE DEF whole
  <2> QED BY <1>2, <1>12
<1> QED BY <1>7, <1>13

------------------------------------------------------------------------------
\* A circuit with the first line made for each gate.
Chained(gr, rank, first) ==
  Walkable(gr, rank) /\ first \in [DOMAIN gr.gates -> Nat] /\ Chains(gr, first)

LEMMA WalkableIsChained ==
  ASSUME NEW gr, NEW rank, Walkable(gr, rank)
  PROVE  \E first : Chained(gr, rank, first)
BY DEF Walkable, GraphSound, ChainsSound, Chained

Size(gr, g) == Len(gr.gates[g].inputs)

MadeLine(first, g, k) == (first[g] + k) - 1

\* The second input of link k of gate g.
LowerLine(gr, first, g, k) ==
  IF k = 1 THEN gr.gates[g].inputs[Size(gr, g)] ELSE MadeLine(first, g, k - 1)

LinkOutput(gr, first, g, k) ==
  IF k = Size(gr, g) - 1 THEN gr.gates[g].output ELSE MadeLine(first, g, k)

LinkShaped(gr, first, g, k) ==
  LET e == gr.gates[g].expanded[k] IN
  /\ e.type = IF k = Size(gr, g) - 1 THEN gr.gates[g].type ELSE InnerType(gr.gates[g].type)
  /\ Len(e.inputs) = 2 /\ DOMAIN e.inputs = 1 .. 2
  /\ e.inputs[1] = gr.gates[g].inputs[Size(gr, g) - k]
  /\ e.inputs[2] = LowerLine(gr, first, g, k)
  /\ e.output = LinkOutput(gr, first, g, k)

LEMMA ChainShape ==
  ASSUME NEW gr, NEW rank, NEW first, Chained(gr, rank, first), NEW g \in DOMAIN gr.gates
  PROVE  /\ Size(gr, g) <= 2 =>
              /\ Len(gr.gates[g].expanded) = 1 /\ DOMAIN gr.gates[g].expanded = {1}
              /\ gr.gates[g].expanded[1].type = gr.gates[g].type
              /\ gr.gates[g].expanded[1].inputs = gr.gates[g].inputs
              /\ gr.gates[g].expanded[1].output = gr.gates[g].output
         /\ Size(gr, g) > 2 =>
              /\ gr.gates[g].type \in {"AND", "NAND", "OR", "NOR"}
              /\ Len(gr.gates[g].expanded) = Size(gr, g) - 1
              /\ DOMAIN gr.gates[g].expanded = 1 .. Size(gr, g) - 1
              /\ \A k \in 1 .. Size(gr, g) - 1 : LinkShaped(gr, first, g, k)
<1>1. PICK n : n = Size(gr, g)
  OBVIOUS
<1>2. PICK gate : gate = gr.gates[g]
  OBVIOUS
<1>3. /\ gate.type \in GateTypes /\ n = Len(gate.inputs) /\ n \in Nat /\ n >= 1
      /\ ArityOk(gate.type, n)
  BY <1>1, <1>2, GateShape DEF Chained, Size
<1>4. gate.expanded = Expand(gate.type, gate.inputs, gate.output, first[g]) /\ first[g] \in Nat
  BY <1>2 DEF Chained, Chains
<1>5. CASE n <= 2
  <2>1. gate.expanded = <<[type |-> gate.type, inputs |-> gate.inputs, output |-> gate.output]>>
    BY <1>3, <1>4, <1>5 DEF Expand
  <2> QED BY <1>1, <1>2, <1>3, <1>5, <2>1
<1>6. CASE n > 2
  <2>1. gate.type \in {"AND", "NAND", "OR", "NOR"}
    BY <1>3, <1>6, ArityMeans DEF GateTypes
  <2> DEFINE Link(k) == [type   |-> IF k = n - 1 THEN gate.type ELSE InnerType(gate.type),
                         inputs |-> <<gate.inputs[n - k],
                                      IF k = 1 THEN gate.inputs[n] ELSE first[g] + k - 2>>,
                         output |-> IF k = n - 1 THEN gate.output ELSE first[g] + k - 1]
  <2>2. gate.expanded = [k \in 1 .. n - 1 |-> Link(k)]
    BY <1>3, <1>4, <1>6 DEF Expand
  <2>3. DOMAIN gate.expanded = 1 .. n - 1 /\ n - 1 \in Nat
    BY <1>3, <1>6, <2>2
  <2>4. Len(gate.expanded) = n - 1
    <3> HIDE DEF Link
    <3> QED BY <2>2, <2>3
  <2>5. ASSUME NEW k \in 1 .. n - 1
        PROVE  LinkShaped(gr, first, g, k)
    <3>1. gate.expanded[k] = Link(k)
      <4> HIDE DEF Link
      <4> QED BY <2>2
    <3>2. PICK e : e = gate.expanded[k]
      OBVIOUS
    <3>3. /\ e.type = IF k = n - 1 THEN gate.type ELSE InnerType(gate.type)
          /\ Len(e.inputs) = 2 /\ DOMAIN e.inputs = 1 .. 2
          /\ e.inputs[1] = gate.inputs[n - k]
          /\ e.inputs[2] = IF k = 1 THEN gate.inputs[n] ELSE first[g] + k - 2
          /\ e.output = IF k = n - 1 THEN gate.output ELSE first[g] + k - 1
      BY <3>1, <3>2
    <3>4. first[g] + k - 2 = (first[g] + (k - 1)) - 1 /\ first[g] + k - 1 = (first[g] + k) - 1
      BY <1>4
    <3>5. e.inputs[2] = IF k = 1 THEN gate.inputs[n] ELSE (first[g] + (k - 1)) - 1
      BY <3>3, <3>4
    <3>6. e.output = IF k = n - 1 THEN gate.output ELSE (first[g] + k) - 1
      BY <3>3, <3>4
    <3> QED BY <1>1, <1>2, <3>2, <3>3, <3>5, <3>6
         DEF LinkShaped, LowerLine, LinkOutput, MadeLine
  <2>6. \A k \in 1 .. n - 1 : LinkShaped(gr, first, g, k)
    BY <2>5
  <2>7. PICK m : m = Size(gr, g) - 1
    OBVIOUS
  <2>8. m = n - 1 /\ ~(Size(gr, g) <= 2)
    <3>1. Size(gr, g) \in Nat /\ Size(gr, g) = n
      BY <1>1, <1>3
    <3> QED BY <1>6, <2>7, <3>1
  <2>9. /\ gr.gates[g].type \in {"AND", "NAND", "OR", "NOR"}
        /\ Len(gr.gates[g].expanded) = m /\ DOMAIN gr.gates[g].expanded = 1 .. m
        /\ \A k \in 1 .. m : LinkShaped(gr, first, g, k)
    BY <1>2, <2>1, <2>3, <2>4, <2>6, <2>8
  <2> QED BY <2>7, <2>8, <2>9
<1> QED BY <1>1, <1>3, <1>5, <1>6

LEMMA NamedAreLines == \A gr : NamedLines(gr) \subseteq DOMAIN gr.lines
BY DEF NamedLines

\* The lines of a chain are lines of the circuit, and the made ones are told apart.
LEMMA MadeLines ==
  ASSUME NEW gr, NEW rank, NEW first, Chained(gr, rank, first)
  PROVE  /\ \A g \in DOMAIN gr.gates : \A k \in 1 .. Size(gr, g) - 2 :
              MadeLine(first, g, k) \in DOMAIN gr.lines \ NamedLines(gr)
         /\ \A g, h \in DOMAIN gr.gates :
              \A k \in 1 .. Size(gr, g) - 2 : \A j \in 1 .. Size(gr, h) - 2 :
                MadeLine(first, g, k) = MadeLine(first, h, j) => g = h /\ k = j
         /\ \A l \in DOMAIN gr.lines \ NamedLines(gr) :
              \E g \in DOMAIN gr.gates : \E k \in 1 .. Size(gr, g) - 2 : l = MadeLine(first, g, k)
<1>1. Chains(gr, first) /\ \A g \in DOMAIN gr.gates : first[g] \in Nat /\ Size(gr, g) \in Nat
  BY GateShape DEF Chained, Size
<1>2. \A g \in DOMAIN gr.gates :
        MadeFor(gr.gates[g], first[g]) = first[g] .. (first[g] + Size(gr, g)) - 3
  BY DEF MadeFor, Size
<1>3. ASSUME NEW g \in DOMAIN gr.gates, NEW k \in 1 .. Size(gr, g) - 2
      PROVE  MadeLine(first, g, k) \in MadeFor(gr.gates[g], first[g])
  BY <1>1, <1>2 DEF MadeLine
<1>4. ASSUME NEW g \in DOMAIN gr.gates, NEW k \in 1 .. Size(gr, g) - 2
      PROVE  MadeLine(first, g, k) \in DOMAIN gr.lines \ NamedLines(gr)
  BY <1>1, <1>3 DEF Chains, NamedLines
<1>5. ASSUME NEW g \in DOMAIN gr.gates, NEW h \in DOMAIN gr.gates,
             NEW k \in 1 .. Size(gr, g) - 2, NEW j \in 1 .. Size(gr, h) - 2,
             MadeLine(first, g, k) = MadeLine(first, h, j)
      PROVE  g = h /\ k = j
  <2>1. MadeLine(first, g, k) \in MadeFor(gr.gates[g], first[g])
    BY <1>3
  <2>2. MadeLine(first, g, k) \in MadeFor(gr.gates[h], first[h])
    BY <1>3, <1>5
  <2>3. g = h
    BY <1>1, <2>1, <2>2 DEF Chains
  <2>4. k = j
    BY <1>1, <1>5, <2>3 DEF MadeLine
  <2> QED BY <2>3, <2>4
<1>6. ASSUME NEW l \in DOMAIN gr.lines \ NamedLines(gr)
      PROVE  \E g \in DOMAIN gr.gates : \E k \in 1 .. Size(gr, g) - 2 : l = MadeLine(first, g, k)
  <2>1. gr.lines[l].generated
    BY DEF NamedLines
  <2>2. PICK g \in DOMAIN gr.gates : l \in MadeFor(gr.gates[g], first[g])
    BY <1>1, <2>1 DEF Chains
  <2>3. l \in first[g] .. (first[g] + Size(gr, g)) - 3
    BY <1>2, <2>2
  <2>4. (l - first[g]) + 1 \in 1 .. Size(gr, g) - 2 /\ l = (first[g] + ((l - first[g]) + 1)) - 1
    BY <1>1, <2>3
  <2> QED BY <2>2, <2>4 DEF MadeLine
<1> QED BY <1>4, <1>5, <1>6

------------------------------------------------------------------------------
PinsIn(gr, w, g) == [k \in DOMAIN gr.gates[g].inputs |-> w[gr.gates[g].inputs[k]]]

\* The expanded gate g fits the values w.
GateFits(gr, w, g) == \A e \in Range(gr.gates[g].expanded) : Consistent(e, w)

\* Gate g and its chain under the values pins at its inputs: the output has the
\* value of the gate and the made lines what the chain joins.
ChainValues(gr, first, w, g, pins) ==
  /\ w[gr.gates[g].output] = N!CalValue(gr.gates[g].type, pins)
  /\ \A k \in 1 .. Size(gr, g) - 2 :
       w[MadeLine(first, g, k)] = Joined(gr.gates[g].type, pins, k)

LEMMA PinsInAreBits ==
  ASSUME NEW gr, NEW rank, Walkable(gr, rank), NEW g \in DOMAIN gr.gates, NEW w,
         \A l \in NamedLines(gr) : w[l] \in Bits
  PROVE  /\ PinsIn(gr, w, g) \in Seq(Bits) /\ Len(PinsIn(gr, w, g)) = Size(gr, g)
         /\ DOMAIN PinsIn(gr, w, g) = DOMAIN gr.gates[g].inputs
         /\ \A k \in DOMAIN gr.gates[g].inputs :
              PinsIn(gr, w, g)[k] = w[gr.gates[g].inputs[k]]
<1>1. PICK is : is = gr.gates[g].inputs
  OBVIOUS
<1>2. PICK n : n = Len(is)
  OBVIOUS
<1>3. n \in Nat /\ DOMAIN is = 1 .. n /\ \A k \in DOMAIN is : is[k] \in NamedLines(gr)
  BY <1>1, <1>2, GateShape
<1>4. PICK pins : pins = [k \in DOMAIN is |-> w[is[k]]]
  OBVIOUS
<1>5. \A k \in DOMAIN is : pins[k] = w[is[k]] /\ w[is[k]] \in Bits
  BY <1>3, <1>4
<1>6. pins \in [1 .. n -> Bits]
  BY <1>3, <1>4, <1>5
<1>7. pins \in Seq(Bits) /\ Len(pins) = n /\ DOMAIN pins = 1 .. n
  BY <1>3, <1>6
<1>8. PinsIn(gr, w, g) = pins
  BY <1>1, <1>4 DEF PinsIn
<1> QED BY <1>1, <1>2, <1>3, <1>5, <1>7, <1>8 DEF Size

\* A link fits iff it fits the pins.
LEMMA LinkFitsValues ==
  ASSUME NEW gr, NEW rank, NEW first, Chained(gr, rank, first), NEW g \in DOMAIN gr.gates,
         NEW w, \A l \in DOMAIN gr.lines : w[l] \in Bits,
         Size(gr, g) > 2, NEW k \in 1 .. Size(gr, g) - 1,
         NEW made, made = [j \in 1 .. Size(gr, g) - 2 |-> w[MadeLine(first, g, j)]]
  PROVE  Consistent(gr.gates[g].expanded[k], w)
           <=> LinkFits(gr.gates[g].type, PinsIn(gr, w, g), made, w[gr.gates[g].output], k)
<1>0. Walkable(gr, rank)
  BY DEF Chained
<1>1. PICK e : e = gr.gates[g].expanded[k]
  OBVIOUS
<1>2. PICK n : n = Size(gr, g)
  OBVIOUS
<1>3. PICK type : type = gr.gates[g].type
  OBVIOUS
<1>4. PICK pins : pins = PinsIn(gr, w, g)
  OBVIOUS
<1>5. /\ n \in Nat /\ n > 2 /\ k \in 1 .. n - 1
      /\ pins \in Seq(Bits) /\ Len(pins) = n /\ DOMAIN pins = 1 .. n
      /\ \A j \in 1 .. n : pins[j] = w[gr.gates[g].inputs[j]]
  BY <1>0, <1>2, <1>4, PinsInAreBits, GateShape, NamedAreLines DEF Size
<1>6. type \in {"AND", "NAND", "OR", "NOR"} /\ LinkShaped(gr, first, g, k)
  BY <1>2, <1>3, <1>5, ChainShape
<1>7. /\ e.type = (IF k = n - 1 THEN type ELSE InnerType(type))
      /\ Len(e.inputs) = 2 /\ DOMAIN e.inputs = 1 .. 2
      /\ e.inputs[1] = gr.gates[g].inputs[n - k]
      /\ e.inputs[2] = LowerLine(gr, first, g, k)
      /\ e.output = LinkOutput(gr, first, g, k)
  BY <1>1, <1>2, <1>3, <1>6 DEF LinkShaped
<1>8. n - k \in 1 .. n /\ n \in 1 .. n
  BY <1>5
<1>9. w[e.inputs[1]] = pins[n - k] /\ pins[n - k] \in Bits
  BY <1>5, <1>7, <1>8
<1>10. w[e.inputs[2]] = Below(pins, made, k) /\ Below(pins, made, k) \in Bits
  <2>1. CASE k = 1
    <3>1. Below(pins, made, k) = pins[n] /\ w[e.inputs[2]] = pins[n]
      BY <1>2, <1>5, <1>7, <1>8, <2>1 DEF Below, LowerLine
    <3> QED BY <1>5, <1>8, <3>1
  <2>2. CASE k # 1
    <3>1. k - 1 \in 1 .. n - 2
      BY <1>5, <2>2
    <3>2. made[k - 1] = w[MadeLine(first, g, k - 1)]
      BY <1>2, <3>1
    <3>3. MadeLine(first, g, k - 1) \in DOMAIN gr.lines
      BY <1>2, <3>1, MadeLines
    <3> QED BY <1>7, <2>2, <3>2, <3>3 DEF Below, LowerLine
  <2> QED BY <2>1, <2>2
<1>11. PICK two : two = [j \in DOMAIN e.inputs |-> w[e.inputs[j]]]
  OBVIOUS
<1>12. /\ two \in Seq(Bits) /\ Len(two) = 2
       /\ two[1] = pins[n - k] /\ two[2] = Below(pins, made, k)
  <2>1. two[1] = pins[n - k] /\ two[2] = Below(pins, made, k)
    BY <1>7, <1>9, <1>10, <1>11
  <2>2. \A j \in 1 .. 2 : two[j] \in Bits
    <3>1. \A j \in 1 .. 2 : j = 1 \/ j = 2
      OBVIOUS
    <3> QED BY <1>9, <1>10, <2>1, <3>1
  <2>3. two \in [1 .. 2 -> Bits]
    BY <1>7, <1>11, <2>2
  <2>4. two \in Seq(Bits) /\ Len(two) = 2
    <3>1. PICK m : m = 2
      OBVIOUS
    <3>2. m \in Nat /\ two \in [1 .. m -> Bits]
      BY <2>3, <3>1
    <3>3. two \in Seq(Bits) /\ Len(two) = m
      BY <3>2
    <3> QED BY <3>1, <3>3
  <2> QED BY <2>1, <2>4
<1>13. e.type \in GateTypes /\ ArityOk(e.type, 2)
  <2>1. e.type \in {"AND", "NAND", "OR", "NOR"}
    BY <1>6, <1>7 DEF InnerType
  <2>2. PICK t : t = e.type
    OBVIOUS
  <2>3. t \in {"AND", "NAND", "OR", "NOR"}
    BY <2>1, <2>2
  <2>4. ArityOk(t, 2)
    <3>1. PICK m : m = 2
      OBVIOUS
    <3>2. m >= 2
      BY <3>1
    <3>3. ArityOk(t, m)
      BY <2>3, <3>2 DEF ArityOk
    <3> QED BY <3>1, <3>3
  <2>5. t \in GateTypes
    BY <2>3 DEF GateTypes
  <2> QED BY <2>2, <2>4, <2>5
<1>14. N!CalValue(e.type, two) = Link2(e.type, pins[n - k], Below(pins, made, k))
  <2>1. PICK t : t = e.type
    OBVIOUS
  <2>2. t \in GateTypes /\ ArityOk(t, Len(two)) /\ Len(two) <= 2
    BY <1>12, <1>13, <2>1
  <2>3. N!CalValue(t, two) = Link2(t, two[1], two[Len(two)])
    BY <1>12, <2>2, SmallGate
  <2> QED BY <1>12, <2>1, <2>3
<1>15. Consistent(e, w) <=> w[e.output] = Link2(e.type, pins[n - k], Below(pins, made, k))
  BY <1>11, <1>14 DEF Consistent
<1>16. k # n - 1 => made[k] = w[MadeLine(first, g, k)]
  <2>1. k # n - 1 => k \in 1 .. n - 2
    BY <1>5
  <2> QED BY <1>2, <2>1
<1>17. w[e.output] = IF k = n - 1 THEN w[gr.gates[g].output] ELSE made[k]
  BY <1>2, <1>7, <1>16 DEF LinkOutput
<1>18. Consistent(e, w) <=> LinkFits(type, pins, made, w[gr.gates[g].output], k)
  BY <1>5, <1>7, <1>15, <1>17 DEF LinkFits
<1> QED BY <1>1, <1>3, <1>4, <1>18

\* The links of an expanded gate fit iff the gate does and its made lines have the
\* values the chain joins.
LEMMA GateMeans ==
  ASSUME NEW gr, NEW rank, NEW first, Chained(gr, rank, first), NEW g \in DOMAIN gr.gates,
         NEW w, \A l \in DOMAIN gr.lines : w[l] \in Bits
  PROVE  GateFits(gr, w, g) <=> ChainValues(gr, first, w, g, PinsIn(gr, w, g))
<1>0. Walkable(gr, rank)
  BY DEF Chained
<1>1. PICK n : n = Size(gr, g)
  OBVIOUS
<1>2. PICK pins : pins = PinsIn(gr, w, g)
  OBVIOUS
<1>3. PICK ex : ex = gr.gates[g].expanded
  OBVIOUS
<1>4. /\ n \in Nat /\ pins \in Seq(Bits) /\ Len(pins) = n
  BY <1>0, <1>1, <1>2, PinsInAreBits, GateShape, NamedAreLines DEF Size
<1>5. GateFits(gr, w, g) <=> \A k \in DOMAIN ex : Consistent(ex[k], w)
  BY <1>3 DEF GateFits, Range
<1>6. CASE n <= 2
  <2>1. /\ DOMAIN ex = {1} /\ ex[1].type = gr.gates[g].type
        /\ ex[1].inputs = gr.gates[g].inputs /\ ex[1].output = gr.gates[g].output
    BY <1>1, <1>3, <1>6, ChainShape
  <2>2. Consistent(ex[1], w) <=> w[gr.gates[g].output] = N!CalValue(gr.gates[g].type, pins)
    BY <1>2, <2>1 DEF Consistent, PinsIn
  <2>3. 1 .. n - 2 = {}
    BY <1>4, <1>6
  <2> QED BY <1>1, <1>2, <1>5, <2>1, <2>2, <2>3 DEF ChainValues
<1>7. CASE n > 2
  <2>1. gr.gates[g].type \in {"AND", "NAND", "OR", "NOR"} /\ DOMAIN ex = 1 .. n - 1
    BY <1>1, <1>3, <1>7, ChainShape
  <2>2. PICK made : made = [j \in 1 .. n - 2 |-> w[MadeLine(first, g, j)]]
    OBVIOUS
  <2>3. PICK z : z = w[gr.gates[g].output]
    OBVIOUS
  <2>4. \A k \in 1 .. n - 1 :
          Consistent(ex[k], w) <=> LinkFits(gr.gates[g].type, pins, made, z, k)
    BY <1>1, <1>2, <1>3, <1>7, <2>2, <2>3, LinkFitsValues
  <2>5. (\A k \in 1 .. n - 1 : LinkFits(gr.gates[g].type, pins, made, z, k))
          <=> /\ \A k \in 1 .. n - 2 : made[k] = Joined(gr.gates[g].type, pins, k)
              /\ z = N!CalValue(gr.gates[g].type, pins)
    <3>1. PICK t : t = gr.gates[g].type
      OBVIOUS
    <3>2. t \in {"AND", "NAND", "OR", "NOR"} /\ Len(pins) > 2
      BY <1>4, <1>7, <2>1, <3>1
    <3>3. LinksFit(t, pins, made, z) <=> ChainJoins(t, pins, made, z)
      BY <1>4, <3>2, ChainMeans
    <3> QED BY <1>4, <3>1, <3>3 DEF LinksFit, ChainJoins
  <2>6. \A k \in 1 .. n - 2 : made[k] = w[MadeLine(first, g, k)]
    BY <2>2
  <2> QED BY <1>1, <1>2, <1>5, <2>1, <2>3, <2>4, <2>5, <2>6 DEF ChainValues
<1> QED BY <1>4, <1>6, <1>7

\* Values at the inputs of all gates.
PinsOfAll(gr, pins) ==
  \A g \in DOMAIN gr.gates : pins[g] \in Seq(Bits) /\ Len(pins[g]) = Size(gr, g)

\* The made lines have the values that the pins of their gates join.
MadeJoin(gr, first, pins, made) ==
  \A g \in DOMAIN gr.gates : \A k \in 1 .. Size(gr, g) - 2 :
    made[MadeLine(first, g, k)] = Joined(gr.gates[g].type, pins[g], k)

LEMMA MadeExist ==
  ASSUME NEW gr, NEW rank, NEW first, Chained(gr, rank, first), NEW pins, PinsOfAll(gr, pins)
  PROVE  \E made \in [DOMAIN gr.lines \ NamedLines(gr) -> Bits] : MadeJoin(gr, first, pins, made)
<1> DEFINE M == DOMAIN gr.lines \ NamedLines(gr)
           At(l, g, k) == g \in DOMAIN gr.gates /\ k \in 1 .. Size(gr, g) - 2
                          /\ l = MadeLine(first, g, k)
           Gate(l) == CHOOSE g : \E k : At(l, g, k)
           Link(l) == CHOOSE k : At(l, Gate(l), k)
           V(l) == Joined(gr.gates[Gate(l)].type, pins[Gate(l)], Link(l))
           made == [l \in M |-> V(l)]
<1>1. ASSUME NEW g \in DOMAIN gr.gates, NEW k \in 1 .. Size(gr, g) - 2
      PROVE  Joined(gr.gates[g].type, pins[g], k) \in Bits
  BY DEF Joined, BitOf, Bits
<1>2. ASSUME NEW l \in M
      PROVE  \E g : \E k : At(l, g, k)
  <2>1. PICK g \in DOMAIN gr.gates : \E k \in 1 .. Size(gr, g) - 2 : l = MadeLine(first, g, k)
    BY MadeLines
  <2>2. PICK k \in 1 .. Size(gr, g) - 2 : l = MadeLine(first, g, k)
    BY <2>1
  <2>3. At(l, g, k)
    BY <2>2
  <2> HIDE DEF At
  <2> QED BY <2>3
<1>3. ASSUME NEW l \in M
      PROVE  At(l, Gate(l), Link(l))
  <2> HIDE DEF At
  <2>1. \E k : At(l, Gate(l), k)
    BY <1>2
  <2> HIDE DEF Gate
  <2> QED BY <2>1
<1>4. ASSUME NEW l \in M
      PROVE  V(l) \in Bits
  <2>1. Gate(l) \in DOMAIN gr.gates /\ Link(l) \in 1 .. Size(gr, Gate(l)) - 2
    BY <1>3
  <2> HIDE DEF Gate, Link
  <2> QED BY <1>1, <2>1
<1>5. ASSUME NEW g \in DOMAIN gr.gates, NEW k \in 1 .. Size(gr, g) - 2
      PROVE  made[MadeLine(first, g, k)] = Joined(gr.gates[g].type, pins[g], k)
  <2>1. PICK l : l = MadeLine(first, g, k)
    OBVIOUS
  <2>2. l \in M
    BY <2>1, MadeLines
  <2>3. At(l, Gate(l), Link(l))
    BY <1>3, <2>2
  <2>4. /\ Gate(l) \in DOMAIN gr.gates /\ Link(l) \in 1 .. Size(gr, Gate(l)) - 2
        /\ l = MadeLine(first, Gate(l), Link(l))
    BY <2>3
  <2> HIDE DEF Gate, Link
  <2>5. Gate(l) = g /\ Link(l) = k
    BY <2>1, <2>4, MadeLines
  <2> QED BY <2>1, <2>2, <2>5
<1>6. made \in [M -> Bits]
  <2> HIDE DEF V, M
  <2> QED BY <1>4
<1> HIDE DEF made
<1>7. MadeJoin(gr, first, pins, made)
  BY <1>5 DEF MadeJoin
<1> QED BY <1>6, <1>7

------------------------------------------------------------------------------
\* Values that fit all gates of the circuit.
GatesSay(gr, val) ==
  \A g \in DOMAIN gr.gates :
    val[gr.gates[g].output] = N!CalValue(gr.gates[g].type, PinsIn(gr, val, g))

StatementSays(gr, st, val) ==
  val[LineOf(gr, st.name)]
    = N!CalValue(st.type, [k \in DOMAIN st.ins |-> val[LineOf(gr, st.ins[k])]])

LEMMA NamesTell ==
  ASSUME NEW gr, OneName(gr), NEW l \in NamedLines(gr), NEW a, gr.lines[l].name = a
  PROVE  LineOf(gr, a) = l
<1>1. HasLine(gr, a)
  BY DEF HasLine, NamedLines
<1>2. LineOf(gr, a) \in NamedLines(gr) /\ gr.lines[LineOf(gr, a)].name = a
  BY <1>1, LineOfIs
<1> QED BY <1>2 DEF OneName

LEMMA GateOfStatement ==
  ASSUME NEW gr, NEW rank, Walkable(gr, rank), NEW g \in DOMAIN gr.gates,
         NEW st, Realizes(gr, g, st), NEW val
  PROVE  StatementSays(gr, st, val) <=>
           val[gr.gates[g].output] = N!CalValue(gr.gates[g].type, PinsIn(gr, val, g))
<1>1. PICK gate : gate = gr.gates[g]
  OBVIOUS
<1>2. OneName(gr)
  BY DEF Walkable, GraphSound
<1>3. /\ gate.output \in NamedLines(gr)
      /\ \A k \in DOMAIN gate.inputs : gate.inputs[k] \in NamedLines(gr)
  BY <1>1, GateShape
<1>4. /\ gate.type = st.type /\ DOMAIN gate.inputs = DOMAIN st.ins
      /\ \A k \in DOMAIN st.ins : gr.lines[gate.inputs[k]].name = st.ins[k]
      /\ gr.lines[gate.output].name = st.name
  BY <1>1 DEF Realizes
<1>5. LineOf(gr, st.name) = gate.output
  BY <1>2, <1>3, <1>4, NamesTell
<1>6. \A k \in DOMAIN st.ins : LineOf(gr, st.ins[k]) = gate.inputs[k]
  BY <1>2, <1>3, <1>4, NamesTell
<1>7. [k \in DOMAIN st.ins |-> val[LineOf(gr, st.ins[k])]]
        = [k \in DOMAIN gate.inputs |-> val[gate.inputs[k]]]
  BY <1>4, <1>6
<1>8. PinsIn(gr, val, g) = [k \in DOMAIN gate.inputs |-> val[gate.inputs[k]]]
  BY <1>1 DEF PinsIn
<1> QED BY <1>1, <1>4, <1>5, <1>7, <1>8 DEF StatementSays

LEMMA FileSaysGates ==
  ASSUME CircuitIsRead, NEW val
  PROVE  (\A st \in {s \in Range(file) : s.kind = "gate"} : StatementSays(graph, st, val))
           <=> GatesSay(graph, val)
<1>1. PICK rank : Walkable(graph, rank)
  BY ReadCircuitIsWalkable
<1>2. GatesKnown(graph, GatesBy(file, Len(file)))
  BY CircuitFacts
<1>3. file \in Seq(Statement(STRING))
  BY FilesAreLegal DEF CircuitIsRead, LegalFile
<1>4. \A s : s \in GatesBy(file, Len(file)) <=> \E i \in GateNumbers(file) : s = file[i]
  BY <1>3, FileStatements
<1>5. \A s : s \in {t \in Range(file) : t.kind = "gate"} <=> s \in GatesBy(file, Len(file))
  BY <1>4 DEF GateNumbers, Range
<1>6. \A g \in DOMAIN graph.gates : \E st \in GatesBy(file, Len(file)) : Realizes(graph, g, st)
  BY <1>2 DEF GatesKnown
<1>7. \A st \in GatesBy(file, Len(file)) : \E g \in DOMAIN graph.gates : Realizes(graph, g, st)
  BY <1>2 DEF GatesKnown
<1>8. ASSUME NEW g \in DOMAIN graph.gates, NEW st, Realizes(graph, g, st)
      PROVE  StatementSays(graph, st, val) <=>
               val[graph.gates[g].output]
                 = N!CalValue(graph.gates[g].type, PinsIn(graph, val, g))
  BY <1>1, <1>8, GateOfStatement
<1>9. ASSUME \A st \in GatesBy(file, Len(file)) : StatementSays(graph, st, val)
      PROVE  GatesSay(graph, val)
  BY <1>6, <1>8, <1>9 DEF GatesSay
<1>10. ASSUME GatesSay(graph, val), NEW st \in GatesBy(file, Len(file))
       PROVE  StatementSays(graph, st, val)
  BY <1>7, <1>8, <1>10 DEF GatesSay
<1> QED BY <1>5, <1>9, <1>10

\* Values for all lines, from those of the named and of the made ones.
AllLines(gr, val, gen) ==
  [l \in DOMAIN gr.lines |-> IF l \in NamedLines(gr) THEN val[l] ELSE gen[l]]

AllFit(gr, w) == \A g \in DOMAIN gr.gates : GateFits(gr, w, g)

AllPins(gr, val) == [g \in DOMAIN gr.gates |-> PinsIn(gr, val, g)]

\* Values of the named lines and of the made ones fit all expanded gates iff the
\* named ones fit the gates and the made ones are those the chains join.
LEMMA ExpandedFits ==
  ASSUME NEW gr, NEW rank, NEW first, Chained(gr, rank, first),
         NEW val \in [NamedLines(gr) -> Bits],
         NEW gen \in [DOMAIN gr.lines \ NamedLines(gr) -> Bits]
  PROVE  AllFit(gr, AllLines(gr, val, gen)) <=>
           GatesSay(gr, val) /\ MadeJoin(gr, first, AllPins(gr, val), gen)
<1>1. PICK w : w = AllLines(gr, val, gen)
  OBVIOUS
<1>2. \A l \in NamedLines(gr) : w[l] = val[l]
  BY <1>1, NamedAreLines DEF AllLines
<1>3. \A l \in DOMAIN gr.lines \ NamedLines(gr) : w[l] = gen[l]
  BY <1>1, NamedAreLines DEF AllLines
<1>4. \A l \in DOMAIN gr.lines : w[l] \in Bits
  BY <1>2, <1>3
<1>5. ASSUME NEW g \in DOMAIN gr.gates
      PROVE  /\ PinsIn(gr, w, g) = PinsIn(gr, val, g)
             /\ w[gr.gates[g].output] = val[gr.gates[g].output]
             /\ \A k \in 1 .. Size(gr, g) - 2 :
                  w[MadeLine(first, g, k)] = gen[MadeLine(first, g, k)]
  <2>1. /\ \A k \in DOMAIN gr.gates[g].inputs : gr.gates[g].inputs[k] \in NamedLines(gr)
        /\ gr.gates[g].output \in NamedLines(gr)
    BY GateShape DEF Chained
  <2>2. PinsIn(gr, w, g) = PinsIn(gr, val, g)
    BY <1>2, <2>1 DEF PinsIn
  <2>3. \A k \in 1 .. Size(gr, g) - 2 :
          MadeLine(first, g, k) \in DOMAIN gr.lines \ NamedLines(gr)
    BY MadeLines
  <2> QED BY <1>2, <1>3, <2>1, <2>2, <2>3
<1>6. \A g \in DOMAIN gr.gates :
        GateFits(gr, w, g) <=> ChainValues(gr, first, w, g, PinsIn(gr, w, g))
  BY <1>4, GateMeans
<1>7. \A g \in DOMAIN gr.gates : GateFits(gr, w, g) <=>
        /\ val[gr.gates[g].output] = N!CalValue(gr.gates[g].type, PinsIn(gr, val, g))
        /\ \A k \in 1 .. Size(gr, g) - 2 :
             gen[MadeLine(first, g, k)] = Joined(gr.gates[g].type, PinsIn(gr, val, g), k)
  BY <1>5, <1>6 DEF ChainValues
<1> QED BY <1>1, <1>7 DEF GatesSay, AllFit, MadeJoin, AllPins

\* A circuit's expanded gates say what its file says: values of the named lines
\* extend to the lines inside the chains in one way if they fit the file's gates,
\* and in none if they do not. The solver sees the expanded gates alone.
THEOREM SpecExpandsFaithfully == Spec => []ExpansionIsFaithful
<1>1. ASSUME CircuitIsRead
      PROVE  ExpansionIsFaithful
  <2> DEFINE Generated == [DOMAIN graph.lines \ NamedLines(graph) -> {0, 1}]
             Fits(w) == \A g \in Gates : \A e \in Expanded(g) : Consistent(e, w)
             Both(val, gen) == [l \in DOMAIN graph.lines |->
                                  IF l \in NamedLines(graph) THEN val[l] ELSE gen[l]]
             FileSays(val) ==
               \A st \in {s \in Range(file) : s.kind = "gate"} :
                 val[LineOf(graph, st.name)] =
                   N!CalValue(st.type, [k \in DOMAIN st.ins |-> val[LineOf(graph, st.ins[k])]])
  <2> SUFFICES ASSUME NEW val \in [NamedLines(graph) -> {0, 1}]
               PROVE  Cardinality({gen \in Generated : Fits(Both(val, gen))})
                        = IF FileSays(val) THEN 1 ELSE 0
    BY DEF ExpansionIsFaithful
  <2>1. PICK rank : Walkable(graph, rank)
    BY <1>1, ReadCircuitIsWalkable
  <2>2. PICK first : Chained(graph, rank, first)
    BY <2>1, WalkableIsChained
  <2>3. FileSays(val) <=> GatesSay(graph, val)
    BY <1>1, FileSaysGates DEF StatementSays
  <2>4. val \in [NamedLines(graph) -> Bits] /\ \A l \in NamedLines(graph) : val[l] \in Bits
    BY DEF Bits
  <2>5. Generated = [DOMAIN graph.lines \ NamedLines(graph) -> Bits]
    BY DEF Bits
  <2> DEFINE Joins(gen) == MadeJoin(graph, first, AllPins(graph, val), gen)
  <2>6. ASSUME NEW gen \in Generated
        PROVE  Fits(Both(val, gen)) <=> GatesSay(graph, val) /\ Joins(gen)
    <3>1. Fits(Both(val, gen)) <=> AllFit(graph, Both(val, gen))
      BY DEF Gates, Expanded, GateFits, AllFit
    <3>2. gen \in [DOMAIN graph.lines \ NamedLines(graph) -> Bits]
      BY <2>5
    <3>3. Both(val, gen) = AllLines(graph, val, gen)
      BY DEF AllLines
    <3> HIDE DEF Both
    <3>4. AllFit(graph, AllLines(graph, val, gen)) <=> GatesSay(graph, val) /\ Joins(gen)
      BY <2>2, <2>4, <3>2, ExpandedFits
    <3> QED BY <3>1, <3>3, <3>4
  <2>7. PICK good : good = {gen \in Generated : Fits(Both(val, gen))}
    OBVIOUS
  <2>8. CASE ~GatesSay(graph, val)
    <3>1. good = {}
      <4> HIDE DEF Fits, Both, Joins, Generated
      <4> QED BY <2>6, <2>7, <2>8
    <3> QED BY <2>3, <2>7, <2>8, <3>1, FS_EmptySet
  <2>9. CASE GatesSay(graph, val)
    <3>1. PinsOfAll(graph, AllPins(graph, val))
      BY <2>1, <2>4, PinsInAreBits DEF PinsOfAll, AllPins
    <3>2. PICK made \in [DOMAIN graph.lines \ NamedLines(graph) -> Bits] :
            MadeJoin(graph, first, AllPins(graph, val), made)
      BY <2>2, <3>1, MadeExist
    <3>3. made \in Generated /\ Joins(made)
      BY <2>5, <3>2
    <3>4. ASSUME NEW gen \in Generated, Joins(gen)
          PROVE  gen = made
      <4>1. ASSUME NEW l \in DOMAIN graph.lines \ NamedLines(graph)
            PROVE  gen[l] = made[l]
        <5>1. PICK g \in DOMAIN graph.gates :
                \E k \in 1 .. Size(graph, g) - 2 : l = MadeLine(first, g, k)
          BY <2>2, MadeLines
        <5> QED BY <3>3, <3>4, <5>1 DEF MadeJoin
      <4> HIDE DEF Joins
      <4> QED BY <3>3, <4>1
    <3>5. good = {made}
      <4> HIDE DEF Fits, Both, Joins, Generated
      <4> QED BY <2>6, <2>7, <2>9, <3>3, <3>4
    <3> QED BY <2>3, <2>7, <2>9, <3>5, FS_Singleton
  <2> QED BY <2>8, <2>9
<1> QED BY <1>1, SpecKeepsCircuit, PTL

------------------------------------------------------------------------------
Further(next, S) == S \cup UNION {next[g] : g \in S}

\* Walked, one step after the other.
WalkBy(from, next, f) ==
  /\ DOMAIN f = 0 .. Len(graph.gates) /\ f[0] = from
  /\ \A k \in 1 .. Len(graph.gates) : f[k] = Further(next, f[k - 1])
  /\ Walked(from, next) = f[Len(graph.gates)]

LEMMA WalkSteps ==
  ASSUME NEW from, NEW next, Len(graph.gates) \in Nat
  PROVE  \E f : WalkBy(from, next, f)
<1> DEFINE Upto(f, m) == f = [k \in 0 .. m |-> IF k = 0 THEN from ELSE Further(next, f[k - 1])]
           Found == {m \in Nat : \E f : Upto(f, m)}
<1>1. 0 \in Found
  <2> DEFINE f == [k \in 0 .. 0 |-> from]
  <2>1. Upto(f, 0)
    OBVIOUS
  <2> HIDE DEF Upto
  <2> QED BY <2>1
<1>2. ASSUME NEW m \in Found
      PROVE  m + 1 \in Found
  <2>1. PICK f : Upto(f, m)
    OBVIOUS
  <2> DEFINE more == [k \in 0 .. m + 1 |-> IF k = m + 1 THEN Further(next, f[m]) ELSE f[k]]
  <2>2. \A k \in 0 .. m + 1 : more[k] = IF k = 0 THEN from ELSE Further(next, more[k - 1])
    BY <2>1
  <2>3. more = [k \in 0 .. m + 1 |-> more[k]]
    OBVIOUS
  <2> HIDE DEF more
  <2>4. Upto(more, m + 1)
    BY <2>2, <2>3
  <2>5. m + 1 \in Nat
    OBVIOUS
  <2> HIDE DEF Upto
  <2> QED BY <2>4, <2>5
<1>3. Found = Nat
  <2>1. Found \in SUBSET Nat
    OBVIOUS
  <2> HIDE DEF Found
  <2> QED BY <1>1, <1>2, <2>1, InductionOverNat
<1>4. PICK f : Upto(f, Len(graph.gates))
  BY <1>3
<1> DEFINE whole == CHOOSE f_1 : Upto(f_1, Len(graph.gates))
<1>5. Upto(whole, Len(graph.gates))
  <2> HIDE DEF Upto
  <2> QED BY <1>4
<1>6. Walked(from, next) = whole[Len(graph.gates)]
  BY DEF Walked, Further
<1> HIDE DEF whole
<1>7. WalkBy(from, next, whole)
  <2>1. PICK m : m = Len(graph.gates)
    OBVIOUS
  <2>2. m \in Nat /\ Upto(whole, m)
    BY <1>5, <2>1
  <2>3. DOMAIN whole = 0 .. m
    BY <2>2
  <2>4. \A k \in 0 .. m : whole[k] = IF k = 0 THEN from ELSE Further(next, whole[k - 1])
    BY <2>2
  <2> HIDE DEF Upto
  <2>5. whole[0] = from
    BY <2>2, <2>4
  <2>6. \A k \in 1 .. m : whole[k] = Further(next, whole[k - 1])
    BY <2>2, <2>4
  <2> QED BY <1>6, <2>1, <2>3, <2>5, <2>6 DEF WalkBy
<1> QED BY <1>7


\* S is what can be reached from the set from, and nothing else.
WalkClosed(G, next, from, S) ==
  /\ S \subseteq G /\ from \subseteq S
  /\ \A g \in S : next[g] \subseteq S
  /\ \A g \in S : g \in from \/ \E h \in S : g \in next[h]

\* After k steps the walk is over, or it has met more than k gates.
WalkedSoFar(G, next, from, S, k) ==
  /\ S \subseteq G /\ from \subseteq S
  /\ (\A g \in S : next[g] \subseteq S) \/ Cardinality(S) > k
  /\ \A g \in S : g \in from \/ \E h \in S : g \in next[h]

LEMMA WalkOneMore ==
  ASSUME NEW G, IsFiniteSet(G), NEW next \in [G -> SUBSET G], NEW from \in SUBSET G,
         NEW S, NEW k \in Nat, WalkedSoFar(G, next, from, S, k)
  PROVE  WalkedSoFar(G, next, from, Further(next, S), k + 1)
<1> DEFINE R == Further(next, S)
<1>1. S \subseteq R /\ R \subseteq G
  BY DEF Further, WalkedSoFar
<1>2. CASE \A g \in S : next[g] \subseteq S
  <2>1. R = S
    BY <1>2 DEF Further
  <2> QED BY <1>2, <2>1 DEF WalkedSoFar
<1>3. CASE ~\A g \in S : next[g] \subseteq S
  <2>1. Cardinality(S) > k
    BY <1>3 DEF WalkedSoFar
  <2>2. PICK g \in S : ~(next[g] \subseteq S)
    BY <1>3
  <2>3. PICK x \in R : x \notin S
    BY <2>2 DEF Further
  <2>4. IsFiniteSet(R) /\ Cardinality(R) \in Nat
    BY <1>1, FS_Subset, FS_CardinalityType
  <2>5. Cardinality(S) \in Nat /\ Cardinality(S) < Cardinality(R)
    <3>1. S # R
      BY <2>3
    <3> HIDE DEF R
    <3> QED BY <1>1, <2>4, <3>1, FS_Subset, FS_CardinalityType
  <2>6. Cardinality(R) > k + 1
    BY <2>1, <2>4, <2>5
  <2>7. \A h \in R : h \in from \/ \E i \in R : h \in next[i]
    <3>1. SUFFICES ASSUME NEW h \in R PROVE h \in from \/ \E i \in R : h \in next[i]
      OBVIOUS
    <3>2. CASE h \in S
      BY <1>1, <3>2 DEF WalkedSoFar
    <3>3. CASE h \notin S
      <4>1. PICK i \in S : h \in next[i]
        BY <3>3 DEF Further
      <4> QED BY <1>1, <4>1
    <3> QED BY <3>2, <3>3
  <2> QED BY <1>1, <2>6, <2>7 DEF WalkedSoFar
<1> QED BY <1>2, <1>3

\* There are steps enough to reach everything.
LEMMA WalkCloses ==
  ASSUME Len(graph.gates) \in Nat, DOMAIN graph.gates = 1 .. Len(graph.gates),
         NEW next \in [DOMAIN graph.gates -> SUBSET DOMAIN graph.gates],
         NEW from \in SUBSET DOMAIN graph.gates
  PROVE  WalkClosed(DOMAIN graph.gates, next, from, Walked(from, next))
<1>1. PICK f : WalkBy(from, next, f)
  BY WalkSteps
<1>2. PICK n \in Nat : n = Len(graph.gates)
  OBVIOUS
<1>3. PICK G : G = DOMAIN graph.gates
  OBVIOUS
<1>4. G = 1 .. n /\ IsFiniteSet(G) /\ Cardinality(G) = n
  BY <1>2, <1>3, FS_Interval
<1>5. next \in [G -> SUBSET G] /\ from \in SUBSET G
  BY <1>3
<1>6. /\ f[0] = from /\ Walked(from, next) = f[n]
      /\ \A k \in 1 .. n : f[k] = Further(next, f[k - 1])
  BY <1>1, <1>2 DEF WalkBy
<1>7. CASE from = {}
  <2> DEFINE B == {k \in Nat : k <= n => f[k] = {}}
  <2>1. 0 \in B
    BY <1>6, <1>7
  <2>2. ASSUME NEW k \in B
        PROVE  k + 1 \in B
    <3>1. SUFFICES ASSUME k + 1 <= n PROVE f[k + 1] = {}
      OBVIOUS
    <3>2. f[k] = {} /\ k + 1 \in 1 .. n /\ (k + 1) - 1 = k
      BY <3>1
    <3>3. f[k + 1] = Further(next, {})
      BY <1>6, <3>2
    <3> QED BY <3>3 DEF Further
  <2>3. B \in SUBSET Nat
    OBVIOUS
  <2>4. n \in B
    <3> HIDE DEF B
    <3> QED BY <2>1, <2>2, <2>3, InductionOverNat
  <2>5. Walked(from, next) = {}
    BY <1>6, <2>4
  <2> QED BY <1>7, <2>5 DEF WalkClosed
<1>8. CASE from # {}
  <2> DEFINE B == {k \in Nat : k <= n => WalkedSoFar(G, next, from, f[k], k)}
  <2>1. 0 \in B
    <3>1. Cardinality(from) \in Nat /\ Cardinality(from) # 0
      BY <1>4, <1>5, <1>8, FS_Subset, FS_CardinalityType, FS_EmptySet
    <3>2. WalkedSoFar(G, next, from, from, 0)
      BY <1>5, <3>1 DEF WalkedSoFar
    <3> QED BY <1>6, <3>2
  <2>2. ASSUME NEW k \in B
        PROVE  k + 1 \in B
    <3>1. SUFFICES ASSUME k + 1 <= n PROVE WalkedSoFar(G, next, from, f[k + 1], k + 1)
      OBVIOUS
    <3>2. WalkedSoFar(G, next, from, f[k], k) /\ k + 1 \in 1 .. n /\ (k + 1) - 1 = k
      BY <3>1
    <3>3. f[k + 1] = Further(next, f[k])
      BY <1>6, <3>2
    <3> QED BY <1>4, <1>5, <3>2, <3>3, WalkOneMore
  <2>3. B \in SUBSET Nat
    OBVIOUS
  <2>4. n \in B
    <3> HIDE DEF B
    <3> QED BY <2>1, <2>2, <2>3, InductionOverNat
  <2>5. PICK S : S = Walked(from, next)
    OBVIOUS
  <2>6. WalkedSoFar(G, next, from, S, n)
    BY <1>6, <2>4, <2>5
  <2>7. ~(Cardinality(S) > n)
    <3>1. S \subseteq G
      BY <2>6 DEF WalkedSoFar
    <3>2. Cardinality(S) \in Nat /\ Cardinality(S) <= n
      BY <1>4, <3>1, FS_Subset, FS_CardinalityType
    <3> QED BY <3>2
  <2>8. WalkClosed(G, next, from, S)
    BY <2>6, <2>7 DEF WalkedSoFar, WalkClosed
  <2> QED BY <1>3, <2>5, <2>8
<1> QED BY <1>7, <1>8

------------------------------------------------------------------------------
TakenOnce(t, s, k) == IF s[k] \in Range(t) THEN t ELSE Append(t, s[k])

\* Once, one element after the other.
OnceBy(s, f) ==
  /\ DOMAIN f = 0 .. Len(s) /\ f[0] = <<>>
  /\ \A k \in 1 .. Len(s) : f[k] = TakenOnce(f[k - 1], s, k)
  /\ Once(s) = f[Len(s)]

LEMMA OnceSteps ==
  ASSUME NEW s, Len(s) \in Nat
  PROVE  \E f : OnceBy(s, f)
<1> DEFINE Upto(f, m) == f = [k \in 0 .. m |-> IF k = 0 THEN <<>> ELSE TakenOnce(f[k - 1], s, k)]
           Found == {m \in Nat : \E f : Upto(f, m)}
<1>1. 0 \in Found
  <2> DEFINE f == [k \in 0 .. 0 |-> <<>>]
  <2>1. Upto(f, 0)
    OBVIOUS
  <2> HIDE DEF Upto
  <2> QED BY <2>1
<1>2. ASSUME NEW m \in Found
      PROVE  m + 1 \in Found
  <2>1. PICK f : Upto(f, m)
    OBVIOUS
  <2> DEFINE more == [k \in 0 .. m + 1 |-> IF k = m + 1 THEN TakenOnce(f[m], s, m + 1) ELSE f[k]]
  <2>2. \A k \in 0 .. m + 1 : more[k] = IF k = 0 THEN <<>> ELSE TakenOnce(more[k - 1], s, k)
    BY <2>1
  <2>3. more = [k \in 0 .. m + 1 |-> more[k]]
    OBVIOUS
  <2> HIDE DEF more
  <2>4. Upto(more, m + 1)
    BY <2>2, <2>3
  <2>5. m + 1 \in Nat
    OBVIOUS
  <2> HIDE DEF Upto
  <2> QED BY <2>4, <2>5
<1>3. Found = Nat
  <2>1. Found \in SUBSET Nat
    OBVIOUS
  <2> HIDE DEF Found
  <2> QED BY <1>1, <1>2, <2>1, InductionOverNat
<1>4. PICK f : Upto(f, Len(s))
  BY <1>3
<1> DEFINE whole == CHOOSE f_1 : Upto(f_1, Len(s))
<1>5. Upto(whole, Len(s))
  <2> HIDE DEF Upto
  <2> QED BY <1>4
<1>6. Once(s) = whole[Len(s)]
  BY DEF Once, TakenOnce
<1> HIDE DEF whole
<1>7. OnceBy(s, whole)
  <2>1. PICK m : m = Len(s)
    OBVIOUS
  <2>2. m \in Nat /\ Upto(whole, m)
    BY <1>5, <2>1
  <2>3. DOMAIN whole = 0 .. m
    BY <2>2
  <2>4. \A k \in 0 .. m : whole[k] = IF k = 0 THEN <<>> ELSE TakenOnce(whole[k - 1], s, k)
    BY <2>2
  <2> HIDE DEF Upto
  <2>5. whole[0] = <<>>
    BY <2>2, <2>4
  <2>6. \A k \in 1 .. m : whole[k] = TakenOnce(whole[k - 1], s, k)
    BY <2>2, <2>4
  <2> QED BY <1>6, <2>1, <2>3, <2>5, <2>6 DEF OnceBy
<1> QED BY <1>7


LEMMA OnceHolds ==
  ASSUME NEW S, NEW s \in Seq(S)
  PROVE  Once(s) \in Seq(S) /\ Range(Once(s)) = Range(s)
<1>1. PICK n \in Nat : n = Len(s)
  OBVIOUS
<1>2. DOMAIN s = 1 .. n /\ \A k \in 1 .. n : s[k] \in S
  BY <1>1, SeqElements
<1>3. PICK f : OnceBy(s, f)
  BY OnceSteps
<1>4. /\ f[0] = <<>> /\ Once(s) = f[n]
      /\ \A k \in 1 .. n : f[k] = TakenOnce(f[k - 1], s, k)
  BY <1>1, <1>3 DEF OnceBy
<1> DEFINE Fine(k) == f[k] \in Seq(S) /\ \A x : x \in Range(f[k]) <=> \E i \in 1 .. k : x = s[i]
           B == {k \in Nat : k <= n => Fine(k)}
<1>5. 0 \in B
  <2>1. \A a : ~(a \in 1 .. 0)
    OBVIOUS
  <2>2. \A x : x \notin Range(<<>>)
    BY DEF Range
  <2>3. <<>> \in Seq(S)
    OBVIOUS
  <2>4. Fine(0)
    BY <1>4, <2>1, <2>2, <2>3
  <2> HIDE DEF Fine
  <2> QED BY <2>4
<1>6. ASSUME NEW k \in B
      PROVE  k + 1 \in B
  <2>1. SUFFICES ASSUME k + 1 <= n PROVE Fine(k + 1)
    OBVIOUS
  <2>2. Fine(k) /\ k + 1 \in 1 .. n /\ (k + 1) - 1 = k
    BY <2>1
  <2>3. PICK t \in Seq(S) : t = f[k] /\ \A x : x \in Range(t) <=> \E i \in 1 .. k : x = s[i]
    BY <2>2
  <2>4. PICK y \in S : y = s[k + 1]
    BY <1>2, <2>2
  <2>5. f[k + 1] = IF y \in Range(t) THEN t ELSE Append(t, y)
    BY <1>4, <2>2, <2>3, <2>4 DEF TakenOnce
  <2>6. \A x : (\E i \in 1 .. k + 1 : x = s[i]) <=> (\E i \in 1 .. k : x = s[i]) \/ x = y
    <3>1. \A i : i \in 1 .. k + 1 <=> i \in 1 .. k \/ i = k + 1
      OBVIOUS
    <3> QED BY <2>4, <3>1
  <2>7. CASE y \in Range(t)
    BY <2>3, <2>5, <2>6, <2>7
  <2>8. CASE y \notin Range(t)
    <3>1. Append(t, y) \in Seq(S)
      OBVIOUS
    <3>2. \A x : x \in Range(Append(t, y)) <=> x \in Range(t) \/ x = y
      BY AppendRange
    <3> QED BY <2>3, <2>5, <2>6, <2>8, <3>1, <3>2
  <2> QED BY <2>7, <2>8
<1>7. n \in B
  <2>1. B \in SUBSET Nat
    OBVIOUS
  <2> HIDE DEF B
  <2> QED BY <1>5, <1>6, <2>1, InductionOverNat
<1>8. Fine(n)
  BY <1>7
<1>9. \A x : x \in Range(s) <=> \E i \in 1 .. n : x = s[i]
  BY <1>2 DEF Range
<1> QED BY <1>4, <1>8, <1>9

------------------------------------------------------------------------------
\* The faults of the list: of a line, of an output with fanouts as an output, or of
\* a branch. The fault of a line that one gate reads has that connection.
FaultShape(gr, f) ==
  /\ f.line \in NamedLines(gr) /\ f.stuck_at \in Bits
  /\ f.is_stem \in BOOLEAN /\ f.is_primary_output \in BOOLEAN
  /\ f.is_primary_output =>
       ~f.is_stem /\ f.connection = NoConnection /\ gr.lines[f.line].is_output
  /\ f.is_stem /\ f.connection # NoConnection =>
       Range(gr.lines[f.line].dests) = {f.connection}
  /\ ~f.is_stem /\ ~f.is_primary_output => f.connection \in Range(gr.lines[f.line].dests)

FaultSet(gr) ==
  {x \in [line : Nat, stuck_at : Bits, is_stem : BOOLEAN, connection : [gate : Nat, idx : Nat],
          is_primary_output : BOOLEAN] : FaultShape(gr, x)}

LEMMA LineDests ==
  ASSUME NEW gr, NEW rank, Walkable(gr, rank), NEW l \in NamedLines(gr)
  PROVE  /\ gr.lines[l].dests \in Seq([gate : Nat, idx : Nat])
         /\ Len(gr.lines[l].dests) \in Nat
         /\ DOMAIN gr.lines[l].dests = 1 .. Len(gr.lines[l].dests)
         /\ gr.lines[l].is_output \in BOOLEAN
         /\ ~gr.lines[l].is_output => Len(gr.lines[l].dests) > 0
<1>1. gr \in GraphType(STRING) /\ l \in DOMAIN gr.lines
  BY NamedAreLines DEF Walkable, GraphSound
<1>2. gr.lines[l] \in LineType(STRING)
  BY <1>1, GraphParts
<1>3. PICK d : d = gr.lines[l].dests
  OBVIOUS
<1>4. d \in Seq([gate : Nat, idx : Nat]) /\ gr.lines[l].is_output \in BOOLEAN
  BY <1>2, <1>3 DEF LineType
<1>5. Len(d) \in Nat /\ DOMAIN d = 1 .. Len(d)
  BY <1>4, SeqElements
<1>6. ~gr.lines[l].is_output => d # <<>>
  BY <1>3 DEF Walkable, LinesLead
<1>7. d # <<>> => Len(d) > 0
  BY <1>4, <1>5
<1> QED BY <1>3, <1>4, <1>5, <1>6, <1>7

LEMMA TgFaultFits ==
  ASSUME NEW gr, NEW l \in NamedLines(gr), l \in Nat, NEW x \in Bits, NEW stem \in BOOLEAN,
         NEW c \in [gate : Nat, idx : Nat], NEW po \in BOOLEAN,
         po => ~stem /\ c = NoConnection /\ gr.lines[l].is_output,
         stem /\ c # NoConnection => Range(gr.lines[l].dests) = {c},
         ~stem /\ ~po => c \in Range(gr.lines[l].dests)
  PROVE  TgFault(l, x, stem, c, po) \in FaultSet(gr)
BY DEF TgFault, FaultSet, FaultShape

\* The faults of one connection.
LEMMA InputFaultsFit ==
  ASSUME NEW gr, NEW rank, Walkable(gr, rank), NEW l \in NamedLines(gr),
         NEW c \in Range(gr.lines[l].dests), NEW stem \in BOOLEAN,
         stem => Range(gr.lines[l].dests) = {c}
  PROVE  GateInputFaults(gr, l, c, stem) \in Seq(FaultSet(gr))
<1>1. l \in Nat /\ c \in [gate : Nat, idx : Nat]
  <2>1. PICK d : d = gr.lines[l].dests
    OBVIOUS
  <2>2. d \in Seq([gate : Nat, idx : Nat])
    BY <2>1, LineDests
  <2>3. PICK k \in DOMAIN d : c = d[k]
    BY <2>1 DEF Range
  <2>4. l \in Nat
    BY LineShape
  <2> QED BY <2>2, <2>3, <2>4, SeqElements
<1>2. l \in DOMAIN gr.lines
  BY NamedAreLines
<1>3. c.gate \in DOMAIN gr.gates
  BY <1>2 DEF Walkable, GraphSound, DestsSound
<1>4. PICK type \in GateTypes : type = gr.gates[c.gate].type
  BY <1>3, GateShape
<1> DEFINE stuck == CASE type \in {"NOT", "BUF"}  -> <<>>
                      [] type \in {"XOR", "XNOR"} -> <<1, 0>>
                      [] type \in {"AND", "NAND"} -> <<1>>
                      [] type \in {"OR", "NOR"}   -> <<0>>
<1>5. stuck \in Seq({0, 1})
  <2>1. <<>> \in Seq({0, 1}) /\ <<1, 0>> \in Seq({0, 1}) /\ <<1>> \in Seq({0, 1}) /\ <<0>> \in Seq({0, 1})
    OBVIOUS
  <2>2. CASE type = "NOT"
    BY <2>1, <2>2
  <2>3. CASE type = "BUF"
    BY <2>1, <2>3
  <2>4. CASE type = "XOR"
    BY <2>1, <2>4
  <2>5. CASE type = "XNOR"
    BY <2>1, <2>5
  <2>6. CASE type = "AND"
    BY <2>1, <2>6
  <2>7. CASE type = "NAND"
    BY <2>1, <2>7
  <2>8. CASE type = "OR"
    BY <2>1, <2>8
  <2>9. CASE type = "NOR"
    BY <2>1, <2>9
  <2> QED BY <2>2, <2>3, <2>4, <2>5, <2>6, <2>7, <2>8, <2>9 DEF GateTypes
<1>6. GateInputFaults(gr, l, c, stem) = [k \in DOMAIN stuck |-> TgFault(l, stuck[k], stem, c, FALSE)]
  BY <1>4 DEF GateInputFaults
<1> HIDE DEF stuck
<1>7. DOMAIN stuck = 1 .. Len(stuck) /\ Len(stuck) \in Nat /\ \A k \in DOMAIN stuck : stuck[k] \in Bits
  BY <1>5, SeqElements DEF Bits
<1>8. \A k \in DOMAIN stuck : TgFault(l, stuck[k], stem, c, FALSE) \in FaultSet(gr)
  BY <1>1, <1>7, TgFaultFits
<1>9. PICK n \in Nat : n = Len(stuck)
  BY <1>7
<1>10. GateInputFaults(gr, l, c, stem) \in [1 .. n -> FaultSet(gr)]
  BY <1>6, <1>7, <1>8, <1>9
<1> QED BY <1>9, <1>10, SeqDef

LEMMA LineFaultsFit ==
  ASSUME NEW gr, NEW rank, Walkable(gr, rank), NEW l \in NamedLines(gr)
  PROVE  LineFaults(gr, l) \in Seq(FaultSet(gr))
<1>1. l \in Nat
  BY LineShape
<1>2. PICK d : d = gr.lines[l].dests
  OBVIOUS
<1>3. /\ d \in Seq([gate : Nat, idx : Nat]) /\ Len(d) \in Nat /\ DOMAIN d = 1 .. Len(d)
      /\ gr.lines[l].is_output \in BOOLEAN /\ (~gr.lines[l].is_output => Len(d) > 0)
  BY <1>2, LineDests
<1>4. NoConnection \in [gate : Nat, idx : Nat]
  BY DEF NoConnection, NoGate
<1>5. ASSUME NEW po \in BOOLEAN, NEW x \in Bits, po => gr.lines[l].is_output
      PROVE  TgFault(l, x, ~po, NoConnection, po) \in FaultSet(gr)
  BY <1>1, <1>4, <1>5, TgFaultFits
<1>6. /\ <<TgFault(l, 0, TRUE, NoConnection, FALSE), TgFault(l, 1, TRUE, NoConnection, FALSE)>>
           \in Seq(FaultSet(gr))
      /\ gr.lines[l].is_output =>
           <<TgFault(l, 0, FALSE, NoConnection, TRUE), TgFault(l, 1, FALSE, NoConnection, TRUE)>>
             \in Seq(FaultSet(gr))
  <2>1. /\ TgFault(l, 0, TRUE, NoConnection, FALSE) \in FaultSet(gr)
        /\ TgFault(l, 1, TRUE, NoConnection, FALSE) \in FaultSet(gr)
    BY <1>1, <1>4, TgFaultFits DEF Bits
  <2>2. gr.lines[l].is_output =>
          /\ TgFault(l, 0, FALSE, NoConnection, TRUE) \in FaultSet(gr)
          /\ TgFault(l, 1, FALSE, NoConnection, TRUE) \in FaultSet(gr)
    BY <1>1, <1>4, TgFaultFits DEF Bits
  <2>3. \A S : \A x, y \in S : <<x, y>> \in Seq(S)
    OBVIOUS
  <2>4. <<TgFault(l, 0, TRUE, NoConnection, FALSE), TgFault(l, 1, TRUE, NoConnection, FALSE)>>
          \in Seq(FaultSet(gr))
    BY <2>1, <2>3
  <2>5. gr.lines[l].is_output =>
          <<TgFault(l, 0, FALSE, NoConnection, TRUE), TgFault(l, 1, FALSE, NoConnection, TRUE)>>
            \in Seq(FaultSet(gr))
    BY <2>2, <2>3
  <2> QED BY <2>4, <2>5
<1> DEFINE rows == [k \in DOMAIN d |-> GateInputFaults(gr, l, d[k], FALSE)]
<1>7. FlattenSeq(rows) \in Seq(FaultSet(gr))
  <2>1. \A k \in DOMAIN d : d[k] \in Range(gr.lines[l].dests)
    BY <1>2 DEF Range
  <2>2. \A k \in DOMAIN d : GateInputFaults(gr, l, d[k], FALSE) \in Seq(FaultSet(gr))
    BY <2>1, InputFaultsFit
  <2>3. rows \in [1 .. Len(d) -> Seq(FaultSet(gr))]
    BY <1>3, <2>2
  <2> HIDE DEF rows
  <2> QED BY <1>3, <2>3, FlattenRange
<1>8. Len(d) = 1 => GateInputFaults(gr, l, d[1], gr.lines[l].source # NoGate) \in Seq(FaultSet(gr))
  <2>1. SUFFICES ASSUME Len(d) = 1
                 PROVE  GateInputFaults(gr, l, d[1], gr.lines[l].source # NoGate) \in Seq(FaultSet(gr))
    OBVIOUS
  <2>2. 1 .. 1 = {1}
    OBVIOUS
  <2>3. Range(gr.lines[l].dests) = {d[1]}
    BY <1>2, <1>3, <2>1, <2>2 DEF Range
  <2>4. PICK c : c = d[1]
    OBVIOUS
  <2>5. PICK stem \in BOOLEAN : stem <=> gr.lines[l].source # NoGate
    OBVIOUS
  <2>6. GateInputFaults(gr, l, c, stem) \in Seq(FaultSet(gr))
    BY <2>3, <2>4, InputFaultsFit
  <2>7. stem = (gr.lines[l].source # NoGate)
    BY <2>5
  <2> QED BY <2>4, <2>6, <2>7
<1>9. PICK fl : fl = FlattenSeq(rows)
  OBVIOUS
<1> HIDE DEF rows
<1>10. HasFanoutBranches(gr.lines[l]) <=> IF gr.lines[l].is_output THEN d # <<>> ELSE Len(d) > 1
  BY <1>2 DEF HasFanoutBranches
<1>11. ~(HasFanoutBranches(gr.lines[l]) \/ gr.lines[l].is_output) => Len(d) = 1
  BY <1>3, <1>10
<1>12. PICK has \in BOOLEAN : has <=> HasFanoutBranches(gr.lines[l])
  OBVIOUS
<1>13. PICK b1, b2 :
         /\ b1 = <<TgFault(l, 0, TRUE, NoConnection, FALSE), TgFault(l, 1, TRUE, NoConnection, FALSE)>>
         /\ b2 = <<TgFault(l, 0, FALSE, NoConnection, TRUE), TgFault(l, 1, FALSE, NoConnection, TRUE)>>
  OBVIOUS
<1>14. PICK last : last = GateInputFaults(gr, l, d[1], gr.lines[l].source # NoGate)
  OBVIOUS
<1>15. LineFaults(gr, l) =
         IF has \/ gr.lines[l].is_output
         THEN b1 \o (IF gr.lines[l].is_output /\ has THEN b2 ELSE <<>>) \o fl
         ELSE last
  BY <1>2, <1>9, <1>12, <1>13, <1>14 DEF LineFaults, rows
<1>16. b1 \in Seq(FaultSet(gr)) /\ (gr.lines[l].is_output => b2 \in Seq(FaultSet(gr)))
  BY <1>6, <1>13
<1>17. fl \in Seq(FaultSet(gr)) /\ <<>> \in Seq(FaultSet(gr))
  BY <1>7, <1>9
<1>18. ~(has \/ gr.lines[l].is_output) => last \in Seq(FaultSet(gr))
  BY <1>8, <1>11, <1>12, <1>14
<1>19. (IF gr.lines[l].is_output /\ has THEN b2 ELSE <<>>) \in Seq(FaultSet(gr))
  BY <1>16, <1>17
<1>20. PICK mid : mid = IF gr.lines[l].is_output /\ has THEN b2 ELSE <<>>
  OBVIOUS
<1>21. b1 \o mid \o fl \in Seq(FaultSet(gr))
  BY <1>16, <1>17, <1>19, <1>20
<1> QED BY <1>15, <1>18, <1>20, <1>21

LEMMA ManagedShape ==
  ASSUME NEW gr, NEW rank, Walkable(gr, rank), NEW f \in Range(ManagedFaults(gr))
  PROVE  FaultShape(gr, f)
<1> DEFINE rows == [l \in DOMAIN gr.lines |-> IF gr.lines[l].generated THEN <<>> ELSE LineFaults(gr, l)]
<1>1. DOMAIN gr.lines = 1 .. Len(gr.lines) /\ Len(gr.lines) \in Nat
  BY GraphParts DEF Walkable, GraphSound
<1>2. \A l \in DOMAIN gr.lines : rows[l] \in Seq(FaultSet(gr))
  <2>1. SUFFICES ASSUME NEW l \in DOMAIN gr.lines PROVE rows[l] \in Seq(FaultSet(gr))
    OBVIOUS
  <2>2. CASE gr.lines[l].generated
    <3>1. <<>> \in Seq(FaultSet(gr))
      OBVIOUS
    <3> QED BY <2>2, <3>1
  <2>3. CASE ~gr.lines[l].generated
    <3>1. l \in NamedLines(gr)
      BY <2>3 DEF NamedLines
    <3> QED BY <2>3, <3>1, LineFaultsFit
  <2> QED BY <2>2, <2>3
<1>3. rows \in [1 .. Len(gr.lines) -> Seq(FaultSet(gr))]
  BY <1>1, <1>2
<1>4. ManagedFaults(gr) = FlattenSeq(rows)
  BY DEF ManagedFaults
<1> HIDE DEF rows
<1>5. PICK s : s = FlattenSeq(rows)
  OBVIOUS
<1>6. s \in Seq(FaultSet(gr))
  BY <1>1, <1>3, <1>5, FlattenRange
<1>7. PICK k \in DOMAIN s : f = s[k]
  BY <1>4, <1>5 DEF Range
<1>8. s[k] \in FaultSet(gr)
  BY <1>6, SeqElements
<1> QED BY <1>7, <1>8 DEF FaultSet

------------------------------------------------------------------------------
\* The lines the links of gate g read and drive.
LinkInputs(gr, g) == UNION {Range(e.inputs) : e \in Range(gr.gates[g].expanded)}

LinkOutputs(gr, g) == {e.output : e \in Range(gr.gates[g].expanded)}

OutputsOf(gr, gs) == UNION {LinkOutputs(gr, g) : g \in gs}

\* They are the lines of the gate, and the lines made for it.
LinkLines(gr, g) ==
  /\ \A k \in DOMAIN gr.gates[g].inputs : gr.gates[g].inputs[k] \in LinkInputs(gr, g)
  /\ \A l \in LinkInputs(gr, g) :
       \/ \E k \in DOMAIN gr.gates[g].inputs : l = gr.gates[g].inputs[k]
       \/ l \notin NamedLines(gr) /\ l \in LinkOutputs(gr, g)
  /\ gr.gates[g].output \in LinkOutputs(gr, g)
  /\ \A l \in LinkOutputs(gr, g) :
       l \in DOMAIN gr.lines /\ (l \in NamedLines(gr) => l = gr.gates[g].output)

LEMMA LinkLinesAre ==
  ASSUME NEW gr, NEW rank, NEW first, Chained(gr, rank, first), NEW g \in DOMAIN gr.gates
  PROVE  LinkLines(gr, g)
<1>1. Walkable(gr, rank)
  BY DEF Chained
<1>2. PICK n \in Nat : n = Size(gr, g)
  BY <1>1, GateShape DEF Size
<1>3. PICK ins : ins = gr.gates[g].inputs
  OBVIOUS
<1>4. PICK ex : ex = gr.gates[g].expanded
  OBVIOUS
<1>5. /\ DOMAIN ins = 1 .. n /\ n >= 1 /\ gr.gates[g].output \in NamedLines(gr)
      /\ \A k \in 1 .. n : ins[k] \in NamedLines(gr)
  BY <1>1, <1>2, <1>3, GateShape DEF Size
<1>6. /\ \A l : l \in LinkInputs(gr, g) <=> \E k \in DOMAIN ex : l \in Range(ex[k].inputs)
      /\ \A l : l \in LinkOutputs(gr, g) <=> \E k \in DOMAIN ex : l = ex[k].output
  BY <1>4 DEF LinkInputs, LinkOutputs, Range
<1>7. CASE n <= 2
  <2>1. DOMAIN ex = {1} /\ ex[1].inputs = ins /\ ex[1].output = gr.gates[g].output
    BY <1>2, <1>3, <1>4, <1>7, ChainShape
  <2>2. \A l : l \in LinkInputs(gr, g) <=> \E k \in DOMAIN ins : l = ins[k]
    BY <1>6, <2>1 DEF Range
  <2>3. \A l : l \in LinkOutputs(gr, g) <=> l = gr.gates[g].output
    BY <1>6, <2>1
  <2> QED BY <1>3, <1>5, <2>2, <2>3, NamedAreLines DEF LinkLines
<1>8. CASE n > 2
  <2>1. DOMAIN ex = 1 .. n - 1 /\ \A k \in 1 .. n - 1 : LinkShaped(gr, first, g, k)
    BY <1>2, <1>4, <1>8, ChainShape
  <2>2. ASSUME NEW k \in 1 .. n - 1
        PROVE  /\ DOMAIN ex[k].inputs = 1 .. 2 /\ ex[k].inputs[1] = ins[n - k]
               /\ ex[k].inputs[2] = LowerLine(gr, first, g, k)
               /\ ex[k].output = LinkOutput(gr, first, g, k)
    BY <1>2, <1>3, <1>4, <2>1, <2>2 DEF LinkShaped
  <2>3. 1 .. 2 = {1, 2}
    OBVIOUS
  <2>4. ASSUME NEW k \in 1 .. n - 1
        PROVE  \A l : l \in Range(ex[k].inputs) <=> l = ins[n - k] \/ l = LowerLine(gr, first, g, k)
    BY <2>2, <2>3 DEF Range
  <2>5. \A k \in 1 .. n - 2 : MadeLine(first, g, k) \in DOMAIN gr.lines \ NamedLines(gr)
    BY <1>2, MadeLines
  <2>6. ASSUME NEW k \in 1 .. n
        PROVE  ins[k] \in LinkInputs(gr, g)
    <3>1. CASE k = n
      <4>1. 1 \in 1 .. n - 1 /\ LowerLine(gr, first, g, 1) = ins[n]
        BY <1>2, <1>3, <1>8 DEF LowerLine
      <4> QED BY <1>6, <2>1, <2>4, <3>1, <4>1
    <3>2. CASE k # n
      <4>1. n - k \in 1 .. n - 1 /\ n - (n - k) = k
        BY <3>2
      <4> QED BY <1>6, <2>1, <2>4, <4>1
    <3> QED BY <3>1, <3>2
  <2>7. ASSUME NEW k \in 1 .. n - 2
        PROVE  MadeLine(first, g, k) \in LinkOutputs(gr, g)
    <3>1. k \in 1 .. n - 1 /\ k # n - 1
      OBVIOUS
    <3>2. LinkOutput(gr, first, g, k) = MadeLine(first, g, k)
      BY <1>2, <3>1 DEF LinkOutput
    <3> QED BY <1>6, <2>1, <2>2, <3>1, <3>2
  <2>8. ASSUME NEW l \in LinkInputs(gr, g)
        PROVE  \/ \E k \in 1 .. n : l = ins[k]
               \/ l \notin NamedLines(gr) /\ l \in LinkOutputs(gr, g)
    <3>1. PICK k \in 1 .. n - 1 : l = ins[n - k] \/ l = LowerLine(gr, first, g, k)
      BY <1>6, <2>1, <2>4
    <3>2. n - k \in 1 .. n /\ n \in 1 .. n
      BY <1>8
    <3>3. CASE l = LowerLine(gr, first, g, k) /\ k # 1
      <4>1. k - 1 \in 1 .. n - 2 /\ l = MadeLine(first, g, k - 1)
        BY <3>3 DEF LowerLine
      <4> QED BY <2>5, <2>7, <4>1
    <3>4. CASE l = LowerLine(gr, first, g, k) /\ k = 1
      BY <1>2, <1>3, <3>2, <3>4 DEF LowerLine
    <3> QED BY <3>1, <3>2, <3>3, <3>4
  <2>9. gr.gates[g].output \in LinkOutputs(gr, g)
    <3>1. n - 1 \in 1 .. n - 1
      BY <1>8
    <3>2. LinkOutput(gr, first, g, n - 1) = gr.gates[g].output
      BY <1>2 DEF LinkOutput
    <3> QED BY <1>6, <2>1, <2>2, <3>1, <3>2
  <2>10. ASSUME NEW l \in LinkOutputs(gr, g)
         PROVE  l \in DOMAIN gr.lines /\ (l \in NamedLines(gr) => l = gr.gates[g].output)
    <3>1. PICK k \in 1 .. n - 1 : l = LinkOutput(gr, first, g, k)
      BY <1>6, <2>1, <2>2
    <3>2. CASE k = n - 1
      <4>1. l = gr.gates[g].output
        BY <1>2, <3>1, <3>2 DEF LinkOutput
      <4> QED BY <1>5, <4>1, NamedAreLines
    <3>3. CASE k # n - 1
      <4>1. k \in 1 .. n - 2 /\ l = MadeLine(first, g, k)
        BY <1>2, <3>1, <3>3 DEF LinkOutput
      <4> QED BY <2>5, <4>1
    <3> QED BY <3>2, <3>3
  <2> QED BY <1>3, <1>5, <2>6, <2>8, <2>9, <2>10 DEF LinkLines
<1> QED BY <1>7, <1>8

------------------------------------------------------------------------------
\* The gates the fault enters the circuit by.
From(gr, f) ==
  CASE f.is_stem -> DestinationGates(gr, f.line)
    [] ~f.is_stem /\ f.is_primary_output -> {}
    [] OTHER -> {f.connection.gate}

Ahead(gr) == [g \in DOMAIN gr.gates |-> DestinationGates(gr, gr.gates[g].output)]

Around(gr, f, g, inside) ==
  LET apart == g # f.connection.gate \/ Len(gr.gates[g].inputs) > 2 IN
  (LinkInputs(gr, g) \ inside)
  \cup IF ~f.is_stem /\ apart THEN LinkInputs(gr, g) \cap {f.line} ELSE {}

Inside(gr, f, gs) == {f.line} \cup OutputsOf(gr, gs)

\* What make_fanout_cone finds, gs being the gates the fault can reach.
ConeSound(gr, f, gs, fc) ==
  /\ WalkClosed(DOMAIN gr.gates, Ahead(gr), From(gr, f), gs)
  /\ fc.lines_inside = Inside(gr, f, gs)
  /\ fc.boundary_lines = UNION {Around(gr, f, g, Inside(gr, f, gs)) : g \in gs}
  /\ fc.primary_outputs_inside =
       IF From(gr, f) = {} THEN {f.line} ELSE {l \in OutputsOf(gr, gs) : gr.lines[l].is_output}

\* Line l is read by gate h iff h is among its destinations.
LEMMA ReadersAre ==
  ASSUME NEW gr, NEW rank, Walkable(gr, rank), NEW l \in NamedLines(gr)
  PROVE  /\ DestinationGates(gr, l) \subseteq DOMAIN gr.gates
         /\ \A h \in DOMAIN gr.gates :
              h \in DestinationGates(gr, l) <=>
                \E k \in DOMAIN gr.gates[h].inputs : gr.gates[h].inputs[k] = l
         /\ \A h \in DOMAIN gr.gates : \A k \in DOMAIN gr.gates[h].inputs :
              gr.gates[h].inputs[k] = l => [gate |-> h, idx |-> k] \in Range(gr.lines[l].dests)
         /\ \A c \in Range(gr.lines[l].dests) :
              /\ c.gate \in DOMAIN gr.gates /\ c.idx \in DOMAIN gr.gates[c.gate].inputs
              /\ gr.gates[c.gate].inputs[c.idx] = l
              /\ c = [gate |-> c.gate, idx |-> c.idx]
<1>1. DestsSound(gr) /\ l \in DOMAIN gr.lines
  BY NamedAreLines DEF Walkable, GraphSound
<1>2. PICK R : R = Range(gr.lines[l].dests)
  OBVIOUS
<1>3. /\ \A c \in R : /\ c.gate \in DOMAIN gr.gates /\ c.idx \in DOMAIN gr.gates[c.gate].inputs
                      /\ gr.gates[c.gate].inputs[c.idx] = l
      /\ \A g \in DOMAIN gr.gates : \A k \in DOMAIN gr.gates[g].inputs :
           gr.gates[g].inputs[k] = l => [gate |-> g, idx |-> k] \in R
  BY <1>1, <1>2 DEF DestsSound
<1>4. \A h : h \in DestinationGates(gr, l) <=> \E c \in R : h = c.gate
  BY <1>2 DEF DestinationGates
<1>5. \A g, k : [gate |-> g, idx |-> k].gate = g
  OBVIOUS
<1>6. ASSUME NEW c \in R
      PROVE  c = [gate |-> c.gate, idx |-> c.idx]
  <2>1. PICK d : d = gr.lines[l].dests
    OBVIOUS
  <2>2. d \in Seq([gate : Nat, idx : Nat])
    BY <2>1, LineDests
  <2>3. PICK k \in DOMAIN d : c = d[k]
    BY <1>2, <2>1 DEF Range
  <2>4. c \in [gate : Nat, idx : Nat]
    BY <2>2, <2>3, SeqElements
  <2> QED BY <2>4
<1>7. ASSUME NEW h \in DOMAIN gr.gates
      PROVE  h \in DestinationGates(gr, l) <=>
               \E k \in DOMAIN gr.gates[h].inputs : gr.gates[h].inputs[k] = l
  <2>1. ASSUME h \in DestinationGates(gr, l)
        PROVE  \E k \in DOMAIN gr.gates[h].inputs : gr.gates[h].inputs[k] = l
    BY <1>3, <1>4, <2>1
  <2>2. ASSUME NEW k \in DOMAIN gr.gates[h].inputs, gr.gates[h].inputs[k] = l
        PROVE  h \in DestinationGates(gr, l)
    BY <1>3, <1>4, <1>5, <2>2
  <2> QED BY <2>1, <2>2
<1> QED BY <1>2, <1>3, <1>4, <1>6, <1>7

\* The gates the fault enters by read its line.
LEMMA FromReads ==
  ASSUME NEW gr, NEW rank, Walkable(gr, rank), NEW f, FaultShape(gr, f)
  PROVE  /\ From(gr, f) \subseteq DOMAIN gr.gates
         /\ \A g \in From(gr, f) :
              \E k \in DOMAIN gr.gates[g].inputs : gr.gates[g].inputs[k] = f.line
<1>1. f.line \in NamedLines(gr)
  BY DEF FaultShape
<1>2. CASE f.is_stem
  <2>1. From(gr, f) = DestinationGates(gr, f.line)
    BY <1>2 DEF From
  <2> QED BY <1>1, <2>1, ReadersAre
<1>3. CASE ~f.is_stem /\ f.is_primary_output
  BY <1>3 DEF From
<1>4. CASE ~f.is_stem /\ ~f.is_primary_output
  <2>1. From(gr, f) = {f.connection.gate}
    BY <1>4 DEF From
  <2>2. f.connection \in Range(gr.lines[f.line].dests)
    BY <1>4 DEF FaultShape
  <2>3. PICK c : c = f.connection
    OBVIOUS
  <2>4. /\ c.gate \in DOMAIN gr.gates /\ c.idx \in DOMAIN gr.gates[c.gate].inputs
        /\ gr.gates[c.gate].inputs[c.idx] = f.line
    BY <1>1, <2>2, <2>3, ReadersAre
  <2> QED BY <2>1, <2>3, <2>4
<1> QED BY <1>2, <1>3, <1>4

\* What make_fanout_cone returns is such a cone.
LEMMA ConeIsSound ==
  ASSUME NEW rank, Walkable(graph, rank), NEW f, FaultShape(graph, f)
  PROVE  \E gs : ConeSound(graph, f, gs, MakeFanoutCone(f))
<1> DEFINE from    == CASE f.is_stem -> DestinationGates(graph, f.line)
                        [] ~f.is_stem /\ f.is_primary_output -> {}
                        [] OTHER -> {f.connection.gate}
           gs      == Walked(from, TowardOutputs)
           outputs == {e.output : e \in UNION {Expanded(g) : g \in gs}}
           inside  == {f.line} \cup outputs
<1>12. MakeFanoutCone(f) =
         [lines_inside |-> inside,
          boundary_lines |-> UNION {AroundBranch(f, g, inside) : g \in gs},
          primary_outputs_inside |->
            IF from = {} THEN {f.line} ELSE {l \in outputs : graph.lines[l].is_output}]
  BY DEF MakeFanoutCone
<1>1. from = From(graph, f)
  BY DEF From
<1>2. gs = Walked(from, TowardOutputs)
  OBVIOUS
<1>10. outputs = OutputsOf(graph, gs)
  <2> HIDE DEF gs
  <2>1. \A l : l \in outputs <=> \E g \in gs : \E e \in Range(graph.gates[g].expanded) : l = e.output
    BY DEF Expanded
  <2>2. \A l : l \in OutputsOf(graph, gs) <=>
               \E g \in gs : \E e \in Range(graph.gates[g].expanded) : l = e.output
    BY DEF OutputsOf, LinkOutputs
  <2> HIDE DEF outputs
  <2> QED BY <2>1, <2>2
<1>8. inside = Inside(graph, f, gs)
  BY <1>10 DEF Inside
<1> HIDE DEF from, gs, outputs, inside
<1>3. DOMAIN graph.gates = 1 .. Len(graph.gates) /\ Len(graph.gates) \in Nat
  BY GraphParts DEF Walkable, GraphSound
<1>4. TowardOutputs = Ahead(graph)
  BY DEF TowardOutputs, Ahead, Gates
<1>5. Ahead(graph) \in [DOMAIN graph.gates -> SUBSET DOMAIN graph.gates]
  <2>1. \A g \in DOMAIN graph.gates :
          DestinationGates(graph, graph.gates[g].output) \in SUBSET DOMAIN graph.gates
    BY GateShape, ReadersAre
  <2> QED BY <2>1 DEF Ahead
<1>6. WalkClosed(DOMAIN graph.gates, Ahead(graph), from, gs)
  <2>1. from \in SUBSET DOMAIN graph.gates
    BY <1>1, FromReads
  <2> QED BY <1>2, <1>3, <1>4, <1>5, <2>1, WalkCloses
<1>9. \A g : AroundBranch(f, g, inside) = Around(graph, f, g, inside)
  BY DEF AroundBranch, Around, LinkInputs, Expanded
<1>13. UNION {AroundBranch(f, g, inside) : g \in gs} = UNION {Around(graph, f, g, inside) : g \in gs}
  BY <1>9
<1>14. PICK bd : bd = UNION {Around(graph, f, g, inside) : g \in gs}
  OBVIOUS
<1>15. PICK po : po = IF from = {} THEN {f.line} ELSE {l \in outputs : graph.lines[l].is_output}
  OBVIOUS
<1>16. MakeFanoutCone(f) =
         [lines_inside |-> inside, boundary_lines |-> bd, primary_outputs_inside |-> po]
  BY <1>12, <1>13, <1>14, <1>15
<1>17. ConeSound(graph, f, gs, MakeFanoutCone(f))
  <2>1. PICK fc : fc = MakeFanoutCone(f)
    OBVIOUS
  <2>2. fc.lines_inside = inside /\ fc.boundary_lines = bd /\ fc.primary_outputs_inside = po
    BY <1>16, <2>1
  <2>3. ConeSound(graph, f, gs, fc)
    BY <1>1, <1>6, <1>8, <1>10, <1>14, <1>15, <2>2 DEF ConeSound
  <2> QED BY <2>1, <2>3
<1> QED BY <1>17

------------------------------------------------------------------------------
LEMMA ReadsHigher ==
  ASSUME NEW gr, NEW rank, Walkable(gr, rank), NEW g \in DOMAIN gr.gates,
         NEW k \in DOMAIN gr.gates[g].inputs, NEW l, l = gr.gates[g].inputs[k]
  PROVE  /\ LineRank(gr, rank, l) \in Nat /\ LineRank(gr, rank, gr.gates[g].output) \in Nat
         /\ LineRank(gr, rank, l) < LineRank(gr, rank, gr.gates[g].output)
         /\ gr.lines[l].source # NoGate => rank[gr.lines[l].source] < rank[g]
         /\ l \in NamedLines(gr) /\ rank[g] \in Nat
<1>1. PICK out \in NamedLines(gr) : out = gr.gates[g].output /\ gr.lines[out].source = g /\ g # NoGate
  BY GateShape DEF NoGate
<1>2. l \in NamedLines(gr)
  BY GateShape
<1>3. LineRank(gr, rank, l) \in Nat /\ LineRank(gr, rank, out) \in Nat
  BY <1>2, LineRanks
<1>4. LineRank(gr, rank, l) < LineRank(gr, rank, out)
  BY <1>1, LineRanks
<1>5. rank[g] \in Nat /\ (gr.lines[l].source # NoGate => rank[gr.lines[l].source] < rank[g])
  BY DEF Walkable, Ordered
<1> QED BY <1>1, <1>2, <1>3, <1>4, <1>5

\* The gates of a cone that come first are entered from outside.
LEMMA ConeFoot ==
  ASSUME NEW gr, NEW rank, Walkable(gr, rank), NEW from, NEW gs,
         WalkClosed(DOMAIN gr.gates, Ahead(gr), from, gs), NEW B \in SUBSET gs, B # {}
  PROVE  \E g \in B : \/ g \in from
                      \/ \E h \in gs \ B : \E k \in DOMAIN gr.gates[g].inputs :
                           gr.gates[g].inputs[k] = gr.gates[h].output
<1>1. gs \subseteq DOMAIN gr.gates
  BY DEF WalkClosed
<1>2. \A g \in DOMAIN gr.gates : rank[g] \in Nat
  BY DEF Walkable
<1>3. PICK n \in {rank[g] : g \in B} : \A m \in {rank[g] : g \in B} : n <= m
  <2>1. {rank[g] : g \in B} \in SUBSET Nat /\ {rank[g] : g \in B} # {}
    BY <1>1, <1>2
  <2> QED BY <2>1, LeastNatural
<1>4. PICK g \in B : n = rank[g]
  BY <1>3
<1>5. g \in DOMAIN gr.gates /\ g \in gs
  BY <1>1
<1>6. g \in from \/ \E h \in gs : g \in Ahead(gr)[h]
  BY <1>5 DEF WalkClosed
<1>7. ASSUME NEW h \in gs, g \in Ahead(gr)[h]
      PROVE  /\ h \notin B
             /\ \E k \in DOMAIN gr.gates[g].inputs : gr.gates[g].inputs[k] = gr.gates[h].output
  <2>1. h \in DOMAIN gr.gates
    BY <1>1
  <2>2. PICK l \in NamedLines(gr) : l = gr.gates[h].output /\ gr.lines[l].source = h /\ h # NoGate
    BY <2>1, GateShape DEF NoGate
  <2>3. g \in DestinationGates(gr, l)
    BY <1>7, <2>1, <2>2 DEF Ahead
  <2>4. PICK k \in DOMAIN gr.gates[g].inputs : gr.gates[g].inputs[k] = l
    BY <1>5, <2>3, ReadersAre
  <2>5. rank[h] < rank[g]
    BY <1>5, <2>2, <2>4, ReadsHigher
  <2>6. rank[h] \in Nat /\ rank[g] \in Nat
    BY <1>2, <1>5, <2>1
  <2>7. h \notin B
    <3>1. SUFFICES ASSUME h \in B PROVE FALSE
      OBVIOUS
    <3>2. rank[g] <= rank[h]
      BY <1>3, <1>4, <3>1
    <3> QED BY <2>5, <2>6, <3>2
  <2> QED BY <2>2, <2>4, <2>7
<1> QED BY <1>6, <1>7

\* The gates a fault can reach: none without a gate to enter, none behind which
\* is the fault's own line, and all that read a line of theirs.
ConeFacts(gr, f, gs) ==
  /\ gs \subseteq DOMAIN gr.gates
  /\ From(gr, f) \subseteq gs /\ (From(gr, f) = {} => gs = {})
  /\ \A g \in gs : gr.gates[g].output # f.line
  /\ \A h \in gs : \A g \in DOMAIN gr.gates : \A k \in DOMAIN gr.gates[g].inputs :
       gr.gates[g].inputs[k] = gr.gates[h].output => g \in gs
  /\ f.is_stem =>
       \A g \in DOMAIN gr.gates : \A k \in DOMAIN gr.gates[g].inputs :
         gr.gates[g].inputs[k] = f.line =>
           g \in gs /\ (f.connection # NoConnection => f.connection = [gate |-> g, idx |-> k])
  /\ \A g \in DOMAIN gr.gates : \A k \in DOMAIN gr.gates[g].inputs :
       ~f.is_stem /\ f.connection = [gate |-> g, idx |-> k] =>
         g \in gs /\ gr.gates[g].inputs[k] = f.line

LEMMA ConeFactsHold ==
  ASSUME NEW gr, NEW rank, Walkable(gr, rank), NEW f, FaultShape(gr, f),
         NEW gs, NEW fc, ConeSound(gr, f, gs, fc)
  PROVE  ConeFacts(gr, f, gs)
<1>1. WalkClosed(DOMAIN gr.gates, Ahead(gr), From(gr, f), gs)
  BY DEF ConeSound
<1>2. gs \subseteq DOMAIN gr.gates /\ From(gr, f) \subseteq gs /\ f.line \in NamedLines(gr)
  BY <1>1 DEF WalkClosed, FaultShape
<1>3. ASSUME From(gr, f) = {}
      PROVE  gs = {}
  <2>1. SUFFICES ASSUME gs # {} PROVE FALSE
    OBVIOUS
  <2>2. PICK B : B = gs
    OBVIOUS
  <2>3. B \in SUBSET gs /\ B # {} /\ gs \ B = {}
    BY <2>1, <2>2
  <2>4. \E g \in B : \/ g \in From(gr, f)
                     \/ \E h \in gs \ B : \E k \in DOMAIN gr.gates[g].inputs :
                          gr.gates[g].inputs[k] = gr.gates[h].output
    BY <1>1, <2>3, ConeFoot, ZenonT(40)
  <2> QED BY <1>3, <2>3, <2>4
<1>4. \A g \in gs : gr.gates[g].output # f.line
  <2> DEFINE B == {g \in gs : LineRank(gr, rank, gr.gates[g].output) <= LineRank(gr, rank, f.line)}
  <2>1. LineRank(gr, rank, f.line) \in Nat
    BY <1>2, LineRanks
  <2>2. ASSUME B # {}
        PROVE  FALSE
    <3>1. B \in SUBSET gs
      OBVIOUS
    <3>2. PICK g \in B : \/ g \in From(gr, f)
                         \/ \E h \in gs \ B : \E k \in DOMAIN gr.gates[g].inputs :
                              gr.gates[g].inputs[k] = gr.gates[h].output
      <4> HIDE DEF B
      <4> QED BY <1>1, <2>2, <3>1, ConeFoot
    <3>3. g \in DOMAIN gr.gates
      BY <1>2
    <3>4. LineRank(gr, rank, gr.gates[g].output) <= LineRank(gr, rank, f.line)
      OBVIOUS
    <3>5. ASSUME NEW k \in DOMAIN gr.gates[g].inputs
          PROVE  /\ LineRank(gr, rank, gr.gates[g].inputs[k]) \in Nat
                 /\ LineRank(gr, rank, gr.gates[g].output) \in Nat
                 /\ LineRank(gr, rank, gr.gates[g].inputs[k])
                      < LineRank(gr, rank, gr.gates[g].output)
      BY <3>3, ReadsHigher
    <3>6. CASE g \in From(gr, f)
      <4>1. PICK k \in DOMAIN gr.gates[g].inputs : gr.gates[g].inputs[k] = f.line
        BY <3>6, FromReads
      <4> QED BY <2>1, <3>4, <3>5, <4>1
    <3>7. CASE \E h \in gs \ B : \E k \in DOMAIN gr.gates[g].inputs :
                 gr.gates[g].inputs[k] = gr.gates[h].output
      <4>1. PICK h \in gs \ B : \E k \in DOMAIN gr.gates[g].inputs :
                                  gr.gates[g].inputs[k] = gr.gates[h].output
        BY <3>7
      <4>2. PICK k \in DOMAIN gr.gates[g].inputs : gr.gates[g].inputs[k] = gr.gates[h].output
        BY <4>1
      <4>3. ~(LineRank(gr, rank, gr.gates[h].output) <= LineRank(gr, rank, f.line))
        BY <4>1
      <4> HIDE DEF B
      <4> QED BY <2>1, <3>4, <3>5, <4>2, <4>3
    <3> QED BY <3>2, <3>6, <3>7
  <2>3. SUFFICES ASSUME NEW g \in gs, gr.gates[g].output = f.line PROVE FALSE
    OBVIOUS
  <2>4. LineRank(gr, rank, gr.gates[g].output) <= LineRank(gr, rank, f.line)
    BY <2>1, <2>3
  <2> QED BY <2>2, <2>4
<1>5. ASSUME NEW h \in gs, NEW g \in DOMAIN gr.gates, NEW k \in DOMAIN gr.gates[g].inputs,
             gr.gates[g].inputs[k] = gr.gates[h].output
      PROVE  g \in gs
  <2>1. h \in DOMAIN gr.gates
    BY <1>2
  <2>2. PICK l \in NamedLines(gr) : l = gr.gates[h].output
    BY <2>1, GateShape
  <2>3. g \in DestinationGates(gr, l)
    BY <1>5, <2>2, ReadersAre
  <2>4. g \in Ahead(gr)[h]
    BY <2>1, <2>2, <2>3 DEF Ahead
  <2> QED BY <1>1, <2>4 DEF WalkClosed
<1>6. ASSUME f.is_stem, NEW g \in DOMAIN gr.gates, NEW k \in DOMAIN gr.gates[g].inputs,
             gr.gates[g].inputs[k] = f.line
      PROVE  g \in gs /\ (f.connection # NoConnection => f.connection = [gate |-> g, idx |-> k])
  <2>1. g \in DestinationGates(gr, f.line) /\ [gate |-> g, idx |-> k] \in Range(gr.lines[f.line].dests)
    BY <1>2, <1>6, ReadersAre
  <2>2. From(gr, f) = DestinationGates(gr, f.line)
    BY <1>6 DEF From
  <2>3. f.connection # NoConnection => Range(gr.lines[f.line].dests) = {f.connection}
    BY <1>6 DEF FaultShape
  <2> QED BY <1>2, <2>1, <2>2, <2>3
<1>7. ASSUME ~f.is_stem, NEW g \in DOMAIN gr.gates, NEW k \in DOMAIN gr.gates[g].inputs,
             f.connection = [gate |-> g, idx |-> k]
      PROVE  g \in gs /\ gr.gates[g].inputs[k] = f.line
  <2>1. f.connection # NoConnection
    <3>1. g # 0
      BY GateShape
    <3>2. NoConnection.gate = 0 /\ f.connection.gate = g
      BY <1>7 DEF NoConnection, NoGate
    <3> QED BY <3>1, <3>2
  <2>2. ~f.is_primary_output
    BY <2>1 DEF FaultShape
  <2>3. PICK c : c = f.connection
    OBVIOUS
  <2>4. c \in Range(gr.lines[f.line].dests) /\ c.gate = g /\ c.idx = k
    BY <1>7, <2>2, <2>3 DEF FaultShape
  <2>5. gr.gates[c.gate].inputs[c.idx] = f.line
    BY <1>2, <2>4, ReadersAre
  <2>6. From(gr, f) = {f.connection.gate}
    BY <1>7, <2>2 DEF From
  <2> QED BY <1>2, <2>3, <2>4, <2>5, <2>6
<1> QED BY <1>2, <1>3, <1>4, <1>5, <1>6, <1>7 DEF ConeFacts

\* The gates of the circuit part: with a gate those that drive its inputs, and
\* those that drive the outputs the fault can reach.
BaseSound(gr, gb, fc) ==
  /\ gb \subseteq DOMAIN gr.gates
  /\ \A g \in gb : \A k \in DOMAIN gr.gates[g].inputs :
       gr.lines[gr.gates[g].inputs[k]].source # NoGate =>
         gr.lines[gr.gates[g].inputs[k]].source \in gb
  /\ \A l \in fc.primary_outputs_inside :
       gr.lines[l].source # NoGate => gr.lines[l].source \in gb

\* Line l is given by an input or by a gate of the circuit part.
Known(gr, gb, l) == gr.lines[l].source # NoGate => gr.lines[l].source \in gb

\* The circuit part contains the gates the fault can reach, and drives its line.
LEMMA BaseCovers ==
  ASSUME NEW gr, NEW rank, NEW first, Chained(gr, rank, first), NEW f, FaultShape(gr, f),
         NEW gs, NEW fc, ConeSound(gr, f, gs, fc), NEW gb, BaseSound(gr, gb, fc)
  PROVE  gs \subseteq gb /\ Known(gr, gb, f.line)
<1>1. Walkable(gr, rank)
  BY DEF Chained
<1>2. ConeFacts(gr, f, gs)
  BY <1>1, ConeFactsHold
<1>3. gs \subseteq DOMAIN gr.gates /\ f.line \in NamedLines(gr)
  BY <1>2 DEF ConeFacts, FaultShape
<1>4. \A g \in DOMAIN gr.gates : rank[g] \in Nat
  BY <1>1 DEF Walkable
<1>5. gs \subseteq gb
  <2> DEFINE B == {rank[g] : g \in gs \ gb}
  <2>1. SUFFICES ASSUME ~(gs \subseteq gb) PROVE FALSE
    OBVIOUS
  <2>2. B \in SUBSET Nat /\ B # {}
    BY <1>3, <1>4, <2>1
  <2>3. IsFiniteSet(B)
    <3>1. IsFiniteSet(DOMAIN gr.gates)
      <4>1. DOMAIN gr.gates = 1 .. Len(gr.gates) /\ Len(gr.gates) \in Nat
        BY <1>1, GraphParts DEF Walkable, GraphSound
      <4> QED BY <4>1, FS_Interval
    <3>2. IsFiniteSet(gs \ gb)
      BY <1>3, <3>1, FS_Subset
    <3> QED BY <3>2, FiniteValues
  <2>4. PICK n \in B : \A m \in B : n >= m
    <3> HIDE DEF B
    <3> QED BY <2>2, <2>3, GreatestNatural
  <2>5. PICK g \in gs \ gb : n = rank[g]
    BY <2>4
  <2>6. g \in DOMAIN gr.gates
    BY <1>3
  <2>7. PICK l \in NamedLines(gr) : l = gr.gates[g].output /\ gr.lines[l].source = g /\ g # NoGate
    BY <1>1, <2>6, GateShape DEF NoGate
  <2>8. CASE gr.lines[l].is_output
    <3>1. From(gr, f) # {}
      BY <1>2, <2>5 DEF ConeFacts
    <3>2. l \in LinkOutputs(gr, g)
      BY <2>6, <2>7, LinkLinesAre DEF LinkLines
    <3>3. l \in OutputsOf(gr, gs)
      BY <3>2, <2>5 DEF OutputsOf
    <3>4. l \in fc.primary_outputs_inside
      BY <2>8, <3>1, <3>3 DEF ConeSound
    <3>5. g \in gb
      BY <2>7, <3>4 DEF BaseSound
    <3> QED BY <2>5, <3>5
  <2>9. CASE ~gr.lines[l].is_output
    <3>1. PICK d : d = gr.lines[l].dests
      OBVIOUS
    <3>2. Len(d) > 0 /\ DOMAIN d = 1 .. Len(d) /\ Len(d) \in Nat
      BY <1>1, <2>9, <3>1, LineDests
    <3>3. d[1] \in Range(gr.lines[l].dests)
      <4>1. 1 \in DOMAIN d
        BY <3>2
      <4> QED BY <3>1, <4>1 DEF Range
    <3>4. PICK c \in Range(gr.lines[l].dests) : c = d[1]
      BY <3>3
    <3>5. PICK h \in DOMAIN gr.gates : h = c.gate
      BY <1>1, ReadersAre
    <3>6. PICK k \in DOMAIN gr.gates[h].inputs : gr.gates[h].inputs[k] = l
      BY <1>1, <3>5, ReadersAre
    <3>7. h \in gs
      BY <1>2, <2>5, <2>7, <3>6 DEF ConeFacts
    <3>8. rank[g] < rank[h]
      BY <1>1, <2>7, <3>6, ReadsHigher
    <3>9. h \in gb
      <4>1. SUFFICES ASSUME h \notin gb PROVE FALSE
        OBVIOUS
      <4>2. rank[h] \in B
        BY <3>7, <4>1
      <4>3. rank[g] >= rank[h]
        BY <2>4, <2>5, <4>2
      <4> HIDE DEF B
      <4> QED BY <1>4, <2>6, <3>8, <4>3
    <3>10. g \in gb
      BY <2>7, <3>6, <3>9 DEF BaseSound
    <3> QED BY <2>5, <3>10
  <2> QED BY <2>8, <2>9
<1>6. Known(gr, gb, f.line)
  <2>1. CASE From(gr, f) = {}
    <3>1. f.line \in fc.primary_outputs_inside
      BY <2>1 DEF ConeSound
    <3> QED BY <3>1 DEF BaseSound, Known
  <2>2. CASE From(gr, f) # {}
    <3>1. PICK g \in From(gr, f) : TRUE
      BY <2>2
    <3>2. g \in gb /\ g \in DOMAIN gr.gates
      BY <1>2, <1>3, <1>5 DEF ConeFacts
    <3>3. PICK k \in DOMAIN gr.gates[g].inputs : gr.gates[g].inputs[k] = f.line
      BY <1>1, <3>1, FromReads
    <3> QED BY <3>2, <3>3 DEF BaseSound, Known
  <2> QED BY <2>1, <2>2
<1> QED BY <1>5, <1>6
------------------------------------------------------------------------------
\* The clauses under the set T of variables that are true.
Literals == Int \ {0}

Holds(T, x) == IF x > 0 THEN x \in T ELSE -x \notin T

ClauseHolds(T, c) == \E x \in c : Holds(T, x)

AllHold(T, clauses) == \A c \in clauses : ClauseHolds(T, c)

LEMMA Negated ==
  ASSUME NEW T, NEW x \in Literals
  PROVE  -x \in Literals /\ (Holds(T, -x) <=> ~Holds(T, x))
BY DEF Literals, Holds

LEMMA Positive ==
  ASSUME NEW T, NEW x \in Nat \ {0}
  PROVE  x \in Literals /\ (Holds(T, x) <=> x \in T)
BY DEF Literals, Holds

LEMMA AllHoldUnion ==
  \A T, C, D : AllHold(T, C \cup D) <=> AllHold(T, C) /\ AllHold(T, D)
BY DEF AllHold

LEMMA OneClause == \A T, c : AllHold(T, {c}) <=> ClauseHolds(T, c)
BY DEF AllHold

LEMMA OneLiteral == \A T, x : ClauseHolds(T, {x}) <=> Holds(T, x)
BY DEF ClauseHolds

LEMMA TwoLiterals ==
  \A T, x, y : ClauseHolds(T, {x, y}) <=> Holds(T, x) \/ Holds(T, y)
BY DEF ClauseHolds

LEMMA ThreeLiterals ==
  \A T, x, y, z : ClauseHolds(T, {x, y, z}) <=> Holds(T, x) \/ Holds(T, y) \/ Holds(T, z)
BY DEF ClauseHolds

\* z = XOR(x, y).
LEMMA XorGateMeans ==
  ASSUME NEW T, NEW x \in Literals, NEW y \in Literals, NEW z \in Literals
  PROVE  AllHold(T, XorGate(x, y, z))
           <=> (Holds(T, z) <=> ~(Holds(T, x) <=> Holds(T, y)))
<1>1. AllHold(T, XorGate(x, y, z)) <=>
        /\ ClauseHolds(T, {-x, -y, -z}) /\ ClauseHolds(T, {x, y, -z})
        /\ ClauseHolds(T, {x, -y, z}) /\ ClauseHolds(T, {-x, y, z})
  BY DEF AllHold, XorGate
<1>2. /\ Holds(T, -x) <=> ~Holds(T, x)
      /\ Holds(T, -y) <=> ~Holds(T, y)
      /\ Holds(T, -z) <=> ~Holds(T, z)
  BY Negated
<1>3. /\ ClauseHolds(T, {-x, -y, -z}) <=> ~Holds(T, x) \/ ~Holds(T, y) \/ ~Holds(T, z)
      /\ ClauseHolds(T, {x, y, -z}) <=> Holds(T, x) \/ Holds(T, y) \/ ~Holds(T, z)
      /\ ClauseHolds(T, {x, -y, z}) <=> Holds(T, x) \/ ~Holds(T, y) \/ Holds(T, z)
      /\ ClauseHolds(T, {-x, y, z}) <=> ~Holds(T, x) \/ Holds(T, y) \/ Holds(T, z)
  BY <1>2, ThreeLiterals
<1> QED BY <1>1, <1>3

\* xs tells whether x differs between two circuits, and so on; of z = AND(x, y),
\* zs is to tell that then.
LEMMA AndSensitizationMeans ==
  ASSUME NEW T, NEW x \in Literals, NEW xs \in Literals, NEW y \in Literals,
         NEW ys \in Literals, NEW zs \in Literals
  PROVE  AllHold(T, AndSensitization(x, xs, y, ys, zs))
           <=> (Holds(T, zs) <=>
                  ~((Holds(T, x) /\ Holds(T, y))
                      <=> (~(Holds(T, x) <=> Holds(T, xs)) /\ ~(Holds(T, y) <=> Holds(T, ys)))))
<1>1. AllHold(T, AndSensitization(x, xs, y, ys, zs)) <=>
        /\ ClauseHolds(T, {xs, ys, -zs}) /\ ClauseHolds(T, {-xs, -y, ys, zs})
        /\ ClauseHolds(T, {-x, xs, -ys, zs}) /\ ClauseHolds(T, {x, -xs, y, -ys, zs})
        /\ ClauseHolds(T, {-x, -xs, y, -zs}) /\ ClauseHolds(T, {x, xs, -zs})
        /\ ClauseHolds(T, {x, -y, -ys, -zs}) /\ ClauseHolds(T, {-x, -y, -ys, zs})
        /\ ClauseHolds(T, {y, ys, -zs})
  BY DEF AllHold, AndSensitization
<1>2. /\ Holds(T, -x) <=> ~Holds(T, x)
      /\ Holds(T, -xs) <=> ~Holds(T, xs)
      /\ Holds(T, -y) <=> ~Holds(T, y)
      /\ Holds(T, -ys) <=> ~Holds(T, ys)
      /\ Holds(T, -zs) <=> ~Holds(T, zs)
  BY Negated
<1>3. /\ ClauseHolds(T, {xs, ys, -zs}) <=> Holds(T, xs) \/ Holds(T, ys) \/ ~Holds(T, zs)
      /\ ClauseHolds(T, {x, xs, -zs}) <=> Holds(T, x) \/ Holds(T, xs) \/ ~Holds(T, zs)
      /\ ClauseHolds(T, {y, ys, -zs}) <=> Holds(T, y) \/ Holds(T, ys) \/ ~Holds(T, zs)
  BY <1>2, ThreeLiterals
<1>4. ClauseHolds(T, {-xs, -y, ys, zs})
        <=> ~Holds(T, xs) \/ ~Holds(T, y) \/ Holds(T, ys) \/ Holds(T, zs)
  BY <1>2 DEF ClauseHolds
<1>6. ClauseHolds(T, {-x, xs, -ys, zs})
        <=> ~Holds(T, x) \/ Holds(T, xs) \/ ~Holds(T, ys) \/ Holds(T, zs)
  BY <1>2 DEF ClauseHolds
<1>7. ClauseHolds(T, {-x, -xs, y, -zs})
        <=> ~Holds(T, x) \/ ~Holds(T, xs) \/ Holds(T, y) \/ ~Holds(T, zs)
  BY <1>2 DEF ClauseHolds
<1>8. ClauseHolds(T, {x, -y, -ys, -zs})
        <=> Holds(T, x) \/ ~Holds(T, y) \/ ~Holds(T, ys) \/ ~Holds(T, zs)
  BY <1>2 DEF ClauseHolds
<1>9. ClauseHolds(T, {-x, -y, -ys, zs})
        <=> ~Holds(T, x) \/ ~Holds(T, y) \/ ~Holds(T, ys) \/ Holds(T, zs)
  BY <1>2 DEF ClauseHolds
<1>5. ClauseHolds(T, {x, -xs, y, -ys, zs})
        <=> Holds(T, x) \/ ~Holds(T, xs) \/ Holds(T, y) \/ ~Holds(T, ys) \/ Holds(T, zs)
  BY <1>2 DEF ClauseHolds
<1> QED BY <1>1, <1>3, <1>4, <1>5, <1>6, <1>7, <1>8, <1>9

------------------------------------------------------------------------------
\* The value of line l.
BitIn(T, l) == BitOf(l \in T)

\* A gate of the formula: of one or two inputs, on lines.
SmallLink(e) ==
  /\ e.type \in GateTypes /\ ArityOk(e.type, Len(e.inputs))
  /\ e.inputs \in Seq(Nat \ {0}) /\ Len(e.inputs) <= 2
  /\ e.output \in Nat \ {0}

\* Its inputs, the same if there is but one.
LEMMA SmallLinkInputs ==
  ASSUME NEW e, SmallLink(e)
  PROVE  /\ Head(e.inputs) = e.inputs[1] /\ Last(e.inputs) = e.inputs[Len(e.inputs)]
         /\ e.inputs[1] \in Nat \ {0} /\ e.inputs[Len(e.inputs)] \in Nat \ {0}
         /\ Len(e.inputs) = IF e.type \in {"NOT", "BUF"} THEN 1 ELSE 2
         /\ DOMAIN e.inputs = IF e.type \in {"NOT", "BUF"} THEN {1} ELSE {1, 2}
<1>1. PICK is : is = e.inputs
  OBVIOUS
<1>2. PICK t : t = e.type
  OBVIOUS
<1>3. PICK P : P = Nat \ {0}
  OBVIOUS
<1>4. t \in GateTypes /\ ArityOk(t, Len(is)) /\ is \in Seq(P) /\ Len(is) <= 2
  BY <1>1, <1>2, <1>3 DEF SmallLink
<1>5. Len(is) \in Nat /\ DOMAIN is = 1 .. Len(is) /\ \A k \in DOMAIN is : is[k] \in P
  BY <1>4, SeqElements
<1>6. Len(is) = IF t \in {"NOT", "BUF"} THEN 1 ELSE 2
  BY <1>4, <1>5, ArityMeans DEF GateTypes
<1>7. is # <<>> /\ 1 \in DOMAIN is /\ Len(is) \in DOMAIN is
  <2>1. Len(is) >= 1
    BY <1>6
  <2> QED BY <1>5, <2>1
<1>8. DOMAIN is = IF t \in {"NOT", "BUF"} THEN {1} ELSE {1, 2}
  <2>1. 1 .. 1 = {1} /\ 1 .. 2 = {1, 2}
    OBVIOUS
  <2> QED BY <1>5, <1>6, <2>1
<1>9. Head(is) = is[1] /\ Last(is) = is[Len(is)]
  BY <1>4, <1>7 DEF Last
<1> QED BY <1>1, <1>2, <1>3, <1>5, <1>6, <1>7, <1>8, <1>9

\* The clauses of a gate say what the gate does.
LEMMA MakeClausesMean ==
  ASSUME NEW T, NEW e, SmallLink(e)
  PROVE  AllHold(T, MakeClauses(e)) <=>
           BitIn(T, e.output) = Link2(e.type, BitIn(T, e.inputs[1]),
                                      BitIn(T, e.inputs[Len(e.inputs)]))
<1>1. PICK t : t = e.type
  OBVIOUS
<1>2. PICK x : x = e.inputs[1]
  OBVIOUS
<1>3. PICK y : y = e.inputs[Len(e.inputs)]
  OBVIOUS
<1>4. PICK z : z = e.output
  OBVIOUS
<1>5. t \in GateTypes /\ x \in Nat \ {0} /\ y \in Nat \ {0} /\ z \in Nat \ {0}
  BY <1>1, <1>2, <1>3, <1>4, SmallLinkInputs DEF SmallLink
<1>6. /\ x \in Literals /\ (Holds(T, x) <=> x \in T) /\ (Holds(T, -x) <=> x \notin T)
      /\ y \in Literals /\ (Holds(T, y) <=> y \in T) /\ (Holds(T, -y) <=> y \notin T)
      /\ z \in Literals /\ (Holds(T, z) <=> z \in T) /\ (Holds(T, -z) <=> z \notin T)
      /\ -z \in Literals
  BY <1>5, Negated, Positive
<1>7. Range(e.inputs) = {x, y}
  <2>1. CASE t \in {"NOT", "BUF"}
    BY <1>1, <1>2, <1>3, <2>1, SmallLinkInputs DEF Range
  <2>2. CASE t \notin {"NOT", "BUF"}
    BY <1>1, <1>2, <1>3, <2>2, SmallLinkInputs DEF Range
  <2> QED BY <2>1, <2>2
<1>8. /\ t \in {"NOT", "BUF"} => x = y
  BY <1>1, <1>2, <1>3, SmallLinkInputs
<1>9. /\ (-1) * z = -z /\ 1 * z = z /\ -((-1) * z) = z /\ -(1 * z) = -z
      /\ (-1) * x = -x /\ 1 * x = x /\ -((-1) * x) = x /\ -(1 * x) = -x
      /\ (-1) * y = -y /\ 1 * y = y /\ -((-1) * y) = y /\ -(1 * y) = -y
  BY <1>5
<1> DEFINE Std(out, in) == {{out * z, in * l} : l \in {x, y}}
                           \cup {{-out * z} \cup {-in * l : l \in {x, y}}}
<1>10. \A out, in : StandardGate(e, out, in) = Std(out, in)
  BY <1>4, <1>7 DEF StandardGate
<1>11. CASE t \in {"BUF", "AND"}
  <2>1. Std(-1, 1) = {{-z, x}, {-z, y}, {z, -x, -y}}
    BY <1>9
  <2>2. MakeClauses(e) = {{-z, x}, {-z, y}, {z, -x, -y}}
    <3>1. MakeClauses(e) = StandardGate(e, -1, 1)
      BY <1>1, <1>11 DEF MakeClauses
    <3> HIDE DEF Std
    <3> QED BY <1>10, <2>1, <3>1
  <2>3. AllHold(T, MakeClauses(e)) <=>
          (z \notin T \/ x \in T) /\ (z \notin T \/ y \in T) /\ (z \in T \/ x \notin T \/ y \notin T)
    BY <1>6, <2>2, TwoLiterals, ThreeLiterals DEF AllHold
  <2> QED BY <1>1, <1>2, <1>3, <1>4, <1>8, <1>11, <2>3 DEF BitIn, BitOf, Link2
<1>12. CASE t \in {"NOT", "NAND"}
  <2>1. Std(1, 1) = {{z, x}, {z, y}, {-z, -x, -y}}
    BY <1>9
  <2>2. MakeClauses(e) = {{z, x}, {z, y}, {-z, -x, -y}}
    <3>1. MakeClauses(e) = StandardGate(e, 1, 1)
      BY <1>1, <1>12 DEF MakeClauses
    <3> HIDE DEF Std
    <3> QED BY <1>10, <2>1, <3>1
  <2>3. AllHold(T, MakeClauses(e)) <=>
          (z \in T \/ x \in T) /\ (z \in T \/ y \in T) /\ (z \notin T \/ x \notin T \/ y \notin T)
    BY <1>6, <2>2, TwoLiterals, ThreeLiterals DEF AllHold
  <2> QED BY <1>1, <1>2, <1>3, <1>4, <1>8, <1>12, <2>3 DEF BitIn, BitOf, Link2
<1>13. CASE t = "OR"
  <2>1. Std(1, -1) = {{z, -x}, {z, -y}, {-z, x, y}}
    BY <1>9
  <2>2. MakeClauses(e) = {{z, -x}, {z, -y}, {-z, x, y}}
    <3>1. MakeClauses(e) = StandardGate(e, 1, -1)
      BY <1>1, <1>13 DEF MakeClauses
    <3> HIDE DEF Std
    <3> QED BY <1>10, <2>1, <3>1
  <2>3. AllHold(T, MakeClauses(e)) <=>
          (z \in T \/ x \notin T) /\ (z \in T \/ y \notin T) /\ (z \notin T \/ x \in T \/ y \in T)
    BY <1>6, <2>2, TwoLiterals, ThreeLiterals DEF AllHold
  <2> QED BY <1>1, <1>2, <1>3, <1>4, <1>13, <2>3 DEF BitIn, BitOf, Link2
<1>14. CASE t = "NOR"
  <2>1. Std(-1, -1) = {{-z, -x}, {-z, -y}, {z, x, y}}
    BY <1>9
  <2>2. MakeClauses(e) = {{-z, -x}, {-z, -y}, {z, x, y}}
    <3>1. MakeClauses(e) = StandardGate(e, -1, -1)
      BY <1>1, <1>14 DEF MakeClauses
    <3> HIDE DEF Std
    <3> QED BY <1>10, <2>1, <3>1
  <2>3. AllHold(T, MakeClauses(e)) <=>
          (z \notin T \/ x \notin T) /\ (z \notin T \/ y \notin T) /\ (z \in T \/ x \in T \/ y \in T)
    BY <1>6, <2>2, TwoLiterals, ThreeLiterals DEF AllHold
  <2> QED BY <1>1, <1>2, <1>3, <1>4, <1>14, <2>3 DEF BitIn, BitOf, Link2
<1>15. CASE t \in {"XOR", "XNOR"}
  <2>1. e.inputs[2] = y
    BY <1>1, <1>3, <1>15, SmallLinkInputs
  <2>2. MakeClauses(e) = XorGate(x, y, IF t = "XOR" THEN z ELSE -z)
    BY <1>1, <1>2, <1>4, <1>15, <2>1 DEF MakeClauses
  <2>3. CASE t = "XOR"
    <3>1. AllHold(T, MakeClauses(e)) <=> (z \in T <=> ~(x \in T <=> y \in T))
      BY <1>6, <2>2, <2>3, XorGateMeans
    <3> QED BY <1>1, <1>2, <1>3, <1>4, <2>3, <3>1 DEF BitIn, BitOf, Link2
  <2>4. CASE t = "XNOR"
    <3>1. AllHold(T, MakeClauses(e)) <=> (z \notin T <=> ~(x \in T <=> y \in T))
      BY <1>6, <2>2, <2>4, XorGateMeans
    <3> QED BY <1>1, <1>2, <1>3, <1>4, <2>4, <3>1 DEF BitIn, BitOf, Link2
  <2> QED BY <1>15, <2>3, <2>4
<1> QED BY <1>5, <1>11, <1>12, <1>13, <1>14, <1>15 DEF GateTypes

\* The value x as it is, or turned round.
Flip(x, differs) == IF differs THEN 1 - x ELSE x

\* The sensitization clauses of a gate say that its output differs between two
\* circuits iff the gate makes it so of the inputs that differ.
LEMMA GateSensitizationMeans ==
  ASSUME NEW T, NEW e, SmallLink(e), NEW c, NEW xs, NEW ys,
         c.sens[xs] \in Nat \ {0}, c.sens[ys] \in Nat \ {0}, c.sens[e.output] \in Nat \ {0},
         NEW x, x = BitIn(T, e.inputs[1]), NEW y, y = BitIn(T, e.inputs[Len(e.inputs)])
  PROVE  AllHold(T, GateSensitization(c, e, xs, ys)) <=>
           (c.sens[e.output] \in T <=>
              Link2(e.type, x, y)
                # Link2(e.type, Flip(x, c.sens[xs] \in T), Flip(y, c.sens[ys] \in T)))
<1>1. PICK t : t = e.type
  OBVIOUS
<1>2. PICK p : p = e.inputs[1]
  OBVIOUS
<1>3. PICK q : q = e.inputs[Len(e.inputs)]
  OBVIOUS
<1>4. PICK sx : sx = c.sens[xs]
  OBVIOUS
<1>5. PICK sy : sy = c.sens[ys]
  OBVIOUS
<1>6. PICK sz : sz = c.sens[e.output]
  OBVIOUS
<1>7. t \in GateTypes /\ p \in Nat \ {0} /\ q \in Nat \ {0} /\ Head(e.inputs) = p /\ Last(e.inputs) = q
  BY <1>1, <1>2, <1>3, SmallLinkInputs DEF SmallLink
<1>8. sx \in Nat \ {0} /\ sy \in Nat \ {0} /\ sz \in Nat \ {0}
  BY <1>4, <1>5, <1>6
<1>9. /\ p \in Literals /\ -p \in Literals /\ q \in Literals /\ -q \in Literals
      /\ sx \in Literals /\ sy \in Literals /\ sz \in Literals
      /\ (Holds(T, p) <=> p \in T) /\ (Holds(T, -p) <=> p \notin T)
      /\ (Holds(T, q) <=> q \in T) /\ (Holds(T, -q) <=> q \notin T)
      /\ (Holds(T, sx) <=> sx \in T) /\ (Holds(T, -sx) <=> sx \notin T)
      /\ (Holds(T, sy) <=> sy \in T)
      /\ (Holds(T, sz) <=> sz \in T) /\ (Holds(T, -sz) <=> sz \notin T)
  BY <1>7, <1>8, Negated, Positive
<1>10. /\ x = IF p \in T THEN 1 ELSE 0
       /\ y = IF q \in T THEN 1 ELSE 0
  BY <1>2, <1>3 DEF BitIn, BitOf
<1>11. PICK xb : xb = Flip(x, sx \in T)
  OBVIOUS
<1>12. PICK yb : yb = Flip(y, sy \in T)
  OBVIOUS
<1>13. /\ xb \in Bits /\ ((xb = 1) <=> ~(p \in T <=> sx \in T))
       /\ yb \in Bits /\ ((yb = 1) <=> ~(q \in T <=> sy \in T))
       /\ x \in Bits /\ ((x = 1) <=> p \in T)
       /\ y \in Bits /\ ((y = 1) <=> q \in T)
  BY <1>10, <1>11, <1>12 DEF Flip, Bits
<1>14. PICK clauses : clauses = GateSensitization(c, e, xs, ys)
  OBVIOUS
<1>15. AllHold(T, clauses) <=> (sz \in T <=> Link2(t, x, y) # Link2(t, xb, yb))
  <2>1. CASE t \in {"BUF", "NOT"}
    <3>1. clauses = {{-sx, sz}, {sx, -sz}}
      BY <1>1, <1>4, <1>6, <1>14, <2>1 DEF GateSensitization
    <3>2. AllHold(T, clauses) <=> (sx \notin T \/ sz \in T) /\ (sx \in T \/ sz \notin T)
      BY <1>9, <3>1, TwoLiterals DEF AllHold
    <3>3. (x # xb) <=> sx \in T
      BY <1>10, <1>11 DEF Flip
    <3>4. CASE t = "BUF"
      BY <3>2, <3>3, <3>4 DEF Link2
    <3>5. CASE t = "NOT"
      <4>1. ((1 - x) # (1 - xb)) <=> sx \in T
        BY <1>13, <3>3 DEF Bits
      <4> QED BY <3>2, <3>5, <4>1 DEF Link2
    <3> QED BY <2>1, <3>4, <3>5
  <2>2. CASE t \in {"AND", "NAND"}
    <3>1. clauses = AndSensitization(p, sx, q, sy, sz)
      BY <1>1, <1>4, <1>5, <1>6, <1>7, <1>14, <2>2 DEF GateSensitization
    <3>2. AllHold(T, clauses) <=>
            (sz \in T <=> ~((p \in T /\ q \in T)
                              <=> (~(p \in T <=> sx \in T) /\ ~(q \in T <=> sy \in T))))
      BY <1>9, <3>1, AndSensitizationMeans
    <3>3. AllHold(T, clauses) <=> (sz \in T <=> ~((x = 1 /\ y = 1) <=> (xb = 1 /\ yb = 1)))
      BY <1>13, <3>2
    <3> QED BY <2>2, <3>3 DEF Link2, BitOf
  <2>3. CASE t \in {"OR", "NOR"}
    <3>1. clauses = AndSensitization(-p, sx, -q, sy, sz)
      BY <1>1, <1>4, <1>5, <1>6, <1>7, <1>14, <2>3 DEF GateSensitization
    <3>2. AllHold(T, clauses) <=>
            (sz \in T <=> ~((p \notin T /\ q \notin T)
                              <=> (~(p \notin T <=> sx \in T) /\ ~(q \notin T <=> sy \in T))))
      BY <1>9, <3>1, AndSensitizationMeans
    <3>3. AllHold(T, clauses) <=> (sz \in T <=> ~((x = 1 \/ y = 1) <=> (xb = 1 \/ yb = 1)))
      BY <1>13, <3>2
    <3> QED BY <2>3, <3>3 DEF Link2, BitOf
  <2>4. CASE t \in {"XOR", "XNOR"}
    <3>1. clauses = XorGate(sx, sy, sz)
      BY <1>1, <1>4, <1>5, <1>6, <1>14, <2>4 DEF GateSensitization
    <3>2. AllHold(T, clauses) <=> (sz \in T <=> ~(sx \in T <=> sy \in T))
      BY <1>9, <3>1, XorGateMeans
    <3>3. (~(sx \in T <=> sy \in T)) <=> ~((x = y) <=> (xb = yb))
      BY <1>13 DEF Bits
    <3>4. AllHold(T, clauses) <=> (sz \in T <=> ~((x = y) <=> (xb = yb)))
      BY <3>2, <3>3
    <3> QED BY <2>4, <3>4 DEF Link2, BitOf
  <2> QED BY <1>7, <2>1, <2>2, <2>3, <2>4 DEF GateTypes
<1> QED BY <1>1, <1>4, <1>5, <1>6, <1>11, <1>12, <1>14, <1>15

------------------------------------------------------------------------------
Taken(S, s, k) == IF k \in S THEN Append(s, k) ELSE s

\* Ascending, one number after the other.
AscendingBy(S, f) ==
  /\ DOMAIN f = 0 .. Max(S \cup {0}) /\ f[0] = <<>>
  /\ \A k \in 1 .. Max(S \cup {0}) : f[k] = Taken(S, f[k - 1], k)
  /\ Ascending(S) = f[Max(S \cup {0})]

LEMMA AscendingSteps ==
  ASSUME NEW S, Max(S \cup {0}) \in Nat
  PROVE  \E f : AscendingBy(S, f)
<1> DEFINE Upto(f, m) == f = [k \in 0 .. m |-> IF k = 0 THEN <<>> ELSE Taken(S, f[k - 1], k)]
           Found == {m \in Nat : \E f : Upto(f, m)}
<1>1. 0 \in Found
  <2> DEFINE f == [k \in 0 .. 0 |-> <<>>]
  <2>1. Upto(f, 0)
    OBVIOUS
  <2> HIDE DEF Upto
  <2> QED BY <2>1
<1>2. ASSUME NEW m \in Found
      PROVE  m + 1 \in Found
  <2>1. PICK f : Upto(f, m)
    OBVIOUS
  <2> DEFINE more == [k \in 0 .. m + 1 |-> IF k = m + 1 THEN Taken(S, f[m], m + 1) ELSE f[k]]
  <2>2. \A k \in 0 .. m + 1 : more[k] = IF k = 0 THEN <<>> ELSE Taken(S, more[k - 1], k)
    BY <2>1
  <2>3. more = [k \in 0 .. m + 1 |-> more[k]]
    OBVIOUS
  <2> HIDE DEF more
  <2>4. Upto(more, m + 1)
    BY <2>2, <2>3
  <2>5. m + 1 \in Nat
    OBVIOUS
  <2> HIDE DEF Upto
  <2> QED BY <2>4, <2>5
<1>3. Found = Nat
  <2>1. Found \in SUBSET Nat
    OBVIOUS
  <2> HIDE DEF Found
  <2> QED BY <1>1, <1>2, <2>1, InductionOverNat
<1>4. PICK f : Upto(f, Max(S \cup {0}))
  BY <1>3
<1> DEFINE whole == CHOOSE f_1 : Upto(f_1, Max(S \cup {0}))
<1>5. Upto(whole, Max(S \cup {0}))
  <2> HIDE DEF Upto
  <2> QED BY <1>4
<1>6. Ascending(S) = whole[Max(S \cup {0})]
  BY DEF Ascending, Taken
<1> HIDE DEF whole
<1>7. AscendingBy(S, whole)
  <2>1. PICK m : m = Max(S \cup {0})
    OBVIOUS
  <2>2. m \in Nat /\ Upto(whole, m)
    BY <1>5, <2>1
  <2>3. DOMAIN whole = 0 .. m
    BY <2>2
  <2>4. \A k \in 0 .. m : whole[k] = IF k = 0 THEN <<>> ELSE Taken(S, whole[k - 1], k)
    BY <2>2
  <2> HIDE DEF Upto
  <2>5. whole[0] = <<>>
    BY <2>2, <2>4
  <2>6. \A k \in 1 .. m : whole[k] = Taken(S, whole[k - 1], k)
    BY <2>2, <2>4
  <2> QED BY <1>6, <2>1, <2>3, <2>5, <2>6 DEF AscendingBy
<1> QED BY <1>7


\* The largest number of a finite set.
LEMMA MaxIs ==
  ASSUME NEW S \in SUBSET Nat, IsFiniteSet(S), S # {}
  PROVE  Max(S) \in S /\ \A x \in S : x <= Max(S)
<1>1. PICK n \in S : \A m \in S : n >= m
  BY GreatestNatural
<1>2. Max(S) \in S /\ \A m \in S : Max(S) >= m
  BY <1>1 DEF Max
<1>3. \A x \in S : x \in Nat
  OBVIOUS
<1> QED BY <1>2, <1>3

Rising(s) == \A i, j \in DOMAIN s : i < j => s[i] < s[j]

\* The numbers of S up to k in their order.
SortedUpTo(s, S, k) ==
  /\ s \in Seq(Nat) /\ Rising(s)
  /\ \A x : x \in Range(s) <=> x \in S /\ x <= k

LEMMA SortedOneMore ==
  ASSUME NEW S \in SUBSET (Nat \ {0}), NEW k \in Nat, NEW s, SortedUpTo(s, S, k)
  PROVE  SortedUpTo(Taken(S, s, k + 1), S, k + 1)
<1>1. /\ s \in Seq(Nat) /\ Rising(s) /\ \A x : x \in Range(s) <=> x \in S /\ x <= k
  BY DEF SortedUpTo
<1>2. \A x \in S : x <= k + 1 <=> x <= k \/ x = k + 1
  OBVIOUS
<1>3. CASE k + 1 \notin S
  BY <1>1, <1>2, <1>3 DEF SortedUpTo, Taken
<1>4. CASE k + 1 \in S
  <2>1. PICK t : t = Append(s, k + 1)
    OBVIOUS
  <2>2. k + 1 \in Nat
    OBVIOUS
  <2>3. Appended(s, k + 1, t)
    BY <1>1, <2>1, <2>2, AppendedIs
  <2>4. t \in Seq(Nat)
    BY <1>1, <2>1, <2>2, AppendProperties
  <2>5. \A y : y \in Range(t) <=> y \in Range(s) \/ y = k + 1
    BY <1>1, <2>1, <2>2, AppendRange
  <2>6. \A x : x \in Range(t) <=> x \in S /\ x <= k + 1
    BY <1>1, <1>2, <1>4, <2>5
  <2>7. DOMAIN s = 1 .. Len(s) /\ Len(s) \in Nat /\ \A i \in DOMAIN s : s[i] <= k /\ s[i] \in Nat
    <3>1. \A i \in DOMAIN s : s[i] \in Range(s)
      BY DEF Range
    <3> QED BY <1>1, <3>1
  <2>8. /\ DOMAIN t = 1 .. Len(s) + 1 /\ t[Len(s) + 1] = k + 1
        /\ \A i \in 1 .. Len(s) : t[i] = s[i]
    BY <2>3 DEF Appended
  <2>9. ASSUME NEW i \in DOMAIN t, NEW j \in DOMAIN t, i < j
        PROVE  t[i] < t[j]
    <3>1. i \in 1 .. Len(s)
      BY <2>7, <2>8, <2>9
    <3>2. CASE j \in 1 .. Len(s)
      BY <1>1, <2>7, <2>8, <2>9, <3>1, <3>2 DEF Rising
    <3>3. CASE j = Len(s) + 1
      <4>1. t[i] <= k /\ t[i] \in Nat /\ t[j] = k + 1
        BY <2>7, <2>8, <3>1, <3>3
      <4> QED BY <4>1
    <3> QED BY <2>7, <2>8, <3>2, <3>3
  <2>10. Rising(t)
    BY <2>9 DEF Rising
  <2> QED BY <1>4, <2>1, <2>4, <2>6, <2>10 DEF SortedUpTo, Taken
<1> QED BY <1>3, <1>4

LEMMA AscendingSorts ==
  ASSUME NEW S \in SUBSET (Nat \ {0}), IsFiniteSet(S)
  PROVE  Ascending(S) \in Seq(Nat) /\ Rising(Ascending(S)) /\ Range(Ascending(S)) = S
<1>1. PICK n : n = Max(S \cup {0})
  OBVIOUS
<1>2. n \in Nat /\ \A x \in S : x <= n
  <2>1. IsFiniteSet(S \cup {0})
    BY FS_AddElement
  <2>2. S \cup {0} \in SUBSET Nat /\ S \cup {0} # {}
    OBVIOUS
  <2>3. Max(S \cup {0}) \in S \cup {0} /\ \A x \in S \cup {0} : x <= Max(S \cup {0})
    BY <2>1, <2>2, MaxIs
  <2> QED BY <1>1, <2>2, <2>3
<1>3. PICK f : AscendingBy(S, f)
  BY <1>1, <1>2, AscendingSteps
<1>4. /\ DOMAIN f = 0 .. n /\ f[0] = <<>>
      /\ \A k \in 1 .. n : f[k] = Taken(S, f[k - 1], k)
      /\ Ascending(S) = f[n]
  BY <1>1, <1>3 DEF AscendingBy
<1> DEFINE B == {k \in Nat : k <= n => SortedUpTo(f[k], S, k)}
<1>5. 0 \in B
  <2>1. PICK e : e = f[0]
    OBVIOUS
  <2>2. e = <<>>
    BY <1>4, <2>1
  <2>3. e \in Seq(Nat) /\ DOMAIN e = {} /\ Range(e) = {}
    <3>1. e \in Seq(Nat) /\ Len(e) = 0
      BY <2>2
    <3>2. DOMAIN e = 1 .. 0
      BY <3>1
    <3>3. \A a : ~(a \in 1 .. 0)
      OBVIOUS
    <3> QED BY <3>1, <3>2, <3>3 DEF Range
  <2>4. \A x \in S : ~(x <= 0)
    OBVIOUS
  <2>5. SortedUpTo(e, S, 0)
    BY <2>3, <2>4 DEF SortedUpTo, Rising
  <2> QED BY <2>1, <2>5
<1>6. ASSUME NEW k \in B
      PROVE  k + 1 \in B
  <2>1. k \in Nat /\ k + 1 \in Nat
    OBVIOUS
  <2>2. CASE k + 1 <= n
    <3>1. k <= n /\ k + 1 \in 1 .. n /\ (k + 1) - 1 = k
      BY <1>2, <2>1, <2>2
    <3>2. SortedUpTo(f[k], S, k)
      BY <3>1
    <3>3. f[k + 1] = Taken(S, f[k], k + 1)
      BY <1>4, <3>1
    <3>4. PICK s : s = f[k]
      OBVIOUS
    <3>5. SortedUpTo(Taken(S, s, k + 1), S, k + 1)
      BY <2>1, <3>2, <3>4, SortedOneMore
    <3>6. SortedUpTo(f[k + 1], S, k + 1)
      BY <3>3, <3>4, <3>5
    <3> QED BY <2>1, <3>6
  <2>3. CASE ~(k + 1 <= n)
    BY <2>1, <2>3
  <2> QED BY <2>2, <2>3
<1>7. B = Nat
  <2>1. B \in SUBSET Nat
    OBVIOUS
  <2> HIDE DEF B
  <2> QED BY <1>5, <1>6, <2>1, InductionOverNat
<1>8. n \in B
  <2> HIDE DEF B
  <2> QED BY <1>2, <1>7
<1>9. SortedUpTo(f[n], S, n)
  BY <1>2, <1>8
<1>10. \A x : x \in Range(Ascending(S)) <=> x \in S
  BY <1>2, <1>4, <1>9 DEF SortedUpTo
<1> QED BY <1>4, <1>9, <1>10 DEF SortedUpTo

------------------------------------------------------------------------------
\* A value for variable k, and the clauses that have only variables up to it.
NextVariable(C, ms, k) ==
  {m \in {n \cup {x} : n \in ms, x \in {Ascending(Vars(C))[k], -Ascending(Vars(C))[k]}} :
     \A c \in {d \in C : Max(Vars({d})) = Ascending(Vars(C))[k]} : c \cap m # {}}

\* Models, one variable after the other.
ModelsBy(C, f) ==
  /\ DOMAIN f = 0 .. Len(Ascending(Vars(C))) /\ f[0] = {{}}
  /\ \A k \in 1 .. Len(Ascending(Vars(C))) : f[k] = NextVariable(C, f[k - 1], k)
  /\ Models(C) = f[Len(Ascending(Vars(C)))]

LEMMA ModelsSteps ==
  ASSUME NEW C, {} \notin C, Len(Ascending(Vars(C))) \in Nat
  PROVE  \E f : ModelsBy(C, f)
<1> DEFINE Upto(f, m) == f = [k \in 0 .. m |-> IF k = 0 THEN {{}} ELSE NextVariable(C, f[k - 1], k)]
           Found == {m \in Nat : \E f : Upto(f, m)}
<1>1. 0 \in Found
  <2> DEFINE f == [k \in 0 .. 0 |-> {{}}]
  <2>1. Upto(f, 0)
    OBVIOUS
  <2> HIDE DEF Upto
  <2> QED BY <2>1
<1>2. ASSUME NEW m \in Found
      PROVE  m + 1 \in Found
  <2>1. PICK f : Upto(f, m)
    OBVIOUS
  <2> DEFINE more == [k \in 0 .. m + 1 |-> IF k = m + 1 THEN NextVariable(C, f[m], m + 1) ELSE f[k]]
  <2>2. \A k \in 0 .. m + 1 : more[k] = IF k = 0 THEN {{}} ELSE NextVariable(C, more[k - 1], k)
    <3>1. PICK nothing : nothing = {{}}
      OBVIOUS
    <3>2. f = [k \in 0 .. m |-> IF k = 0 THEN nothing ELSE NextVariable(C, f[k - 1], k)]
      BY <2>1, <3>1
    <3>3. ASSUME NEW k \in 0 .. m + 1
          PROVE  more[k] = IF k = 0 THEN nothing ELSE NextVariable(C, more[k - 1], k)
      <4>1. CASE k = m + 1
        <5>1. k # 0 /\ k - 1 = m /\ m \in 0 .. m + 1 /\ m # m + 1
          BY <4>1
        <5>2. more[k] = NextVariable(C, f[m], m + 1) /\ more[m] = f[m]
          BY <4>1, <5>1
        <5> HIDE DEF more
        <5> QED BY <4>1, <5>1, <5>2
      <4>2. CASE k # m + 1
        <5>1. k \in 0 .. m /\ more[k] = f[k] /\ (k # 0 => k - 1 \in 0 .. m + 1 /\ k - 1 # m + 1)
          BY <4>2
        <5>2. k # 0 => more[k - 1] = f[k - 1]
          BY <5>1
        <5> HIDE DEF more
        <5> QED BY <3>2, <5>1, <5>2
      <4> QED BY <4>1, <4>2
    <3> HIDE DEF more
    <3> QED BY <3>1, <3>3
  <2>3. more = [k \in 0 .. m + 1 |-> more[k]]
    OBVIOUS
  <2> HIDE DEF more
  <2>4. Upto(more, m + 1)
    BY <2>2, <2>3
  <2>5. m + 1 \in Nat
    OBVIOUS
  <2> HIDE DEF Upto
  <2> QED BY <2>4, <2>5
<1>3. Found = Nat
  <2>1. Found \in SUBSET Nat
    OBVIOUS
  <2> HIDE DEF Found
  <2> QED BY <1>1, <1>2, <2>1, InductionOverNat
<1>4. PICK f : Upto(f, Len(Ascending(Vars(C))))
  BY <1>3
<1> DEFINE whole == CHOOSE f_1 : Upto(f_1, Len(Ascending(Vars(C))))
<1>5. Upto(whole, Len(Ascending(Vars(C))))
  <2> HIDE DEF Upto
  <2> QED BY <1>4
<1>6. Models(C) = whole[Len(Ascending(Vars(C)))]
  BY DEF Models, NextVariable
<1> HIDE DEF whole
<1>7. ModelsBy(C, whole)
  <2>1. PICK m : m = Len(Ascending(Vars(C)))
    OBVIOUS
  <2>2. m \in Nat /\ Upto(whole, m)
    BY <1>5, <2>1
  <2>3. DOMAIN whole = 0 .. m
    BY <2>2
  <2>4. \A k \in 0 .. m : whole[k] = IF k = 0 THEN {{}} ELSE NextVariable(C, whole[k - 1], k)
    BY <2>2
  <2> HIDE DEF Upto
  <2>5. whole[0] = {{}}
    BY <2>2, <2>4
  <2>6. \A k \in 1 .. m : whole[k] = NextVariable(C, whole[k - 1], k)
    BY <2>2, <2>4
  <2> QED BY <1>6, <2>1, <2>3, <2>5, <2>6 DEF ModelsBy
<1> QED BY <1>7


\* The literals of a formula are within b.
Bounded(C, b) == \A c \in C : \A x \in c : x \in Literals /\ -b <= x /\ x <= b

LEMMA VarsAre ==
  ASSUME NEW C, NEW b \in Nat, Bounded(C, b)
  PROVE  /\ Vars(C) \in SUBSET (1 .. b) /\ IsFiniteSet(Vars(C)) /\ Vars(C) \in SUBSET (Nat \ {0})
         /\ \A v : v \in Vars(C) <=> \E c \in C : v \in Vars({c})
<1>1. ASSUME NEW v \in Vars(C)
      PROVE  v \in 1 .. b
  <2>1. PICK x \in UNION C : v = IF x < 0 THEN -x ELSE x
    BY DEF Vars
  <2>2. x \in Literals /\ -b <= x /\ x <= b
    BY <2>1 DEF Bounded
  <2> QED BY <2>1, <2>2 DEF Literals
<1>2. IsFiniteSet(1 .. b)
  BY FS_Interval
<1>3. IsFiniteSet(Vars(C))
  BY <1>1, <1>2, FS_Subset
<1>4. \A v \in 1 .. b : v \in Nat \ {0}
  OBVIOUS
<1>5. \A v : v \in Vars(C) <=> \E c \in C : v \in Vars({c})
  BY DEF Vars
<1> QED BY <1>1, <1>3, <1>4, <1>5

\* The last variable of a clause.
LEMMA LastVariable ==
  ASSUME NEW C, NEW b \in Nat, Bounded(C, b), NEW c \in C, c # {}
  PROVE  /\ Max(Vars({c})) \in Vars(C)
         /\ \A v \in Vars({c}) : v \in Nat /\ v <= Max(Vars({c}))
<1>1. Bounded({c}, b)
  BY DEF Bounded
<1>2. Vars({c}) \in SUBSET (Nat \ {0}) /\ IsFiniteSet(Vars({c}))
  BY <1>1, VarsAre
<1>3. Vars({c}) # {}
  BY DEF Vars
<1>4. Vars({c}) \in SUBSET Nat
  BY <1>2
<1>5. Max(Vars({c})) \in Vars({c}) /\ \A v \in Vars({c}) : v <= Max(Vars({c}))
  BY <1>2, <1>3, <1>4, MaxIs
<1>6. Vars({c}) \subseteq Vars(C)
  BY VarsAre
<1> QED BY <1>4, <1>5, <1>6

\* The literals of the variables in V that hold under T.
Chosen(T, V) == {IF x \in T THEN x ELSE -x : x \in V}

FirstVars(vs, k) == {vs[i] : i \in 1 .. k}

\* m gives the first k variables the values of T, and the clauses on them hold.
Decided(C, vs, k, m, T) ==
  /\ m = Chosen(T, FirstVars(vs, k))
  /\ \A c \in C : Max(Vars({c})) \in FirstVars(vs, k) => c \cap m # {}

LEMMA ChosenHolds ==
  ASSUME NEW T, NEW V \in SUBSET (Nat \ {0}), NEW x \in Chosen(T, V)
  PROVE  x \in Literals /\ Holds(T, x)
BY DEF Chosen, Literals, Holds

LEMMA HoldsIsChosen ==
  ASSUME NEW T, NEW V \in SUBSET (Nat \ {0}), NEW x \in Literals, Holds(T, x),
         (IF x < 0 THEN -x ELSE x) \in V
  PROVE  x \in Chosen(T, V)
<1>1. CASE x > 0
  BY <1>1 DEF Chosen, Literals, Holds
<1>2. CASE x < 0
  <2>1. -x \in V /\ -x \notin T /\ -(-x) = x
    BY <1>2 DEF Literals, Holds
  <2> QED BY <2>1 DEF Chosen
<1> QED BY <1>1, <1>2 DEF Literals

LEMMA FirstVarsGrow ==
  ASSUME NEW vs \in Seq(Nat), Rising(vs), NEW k \in Nat, k + 1 <= Len(vs)
  PROVE  /\ FirstVars(vs, k + 1) = FirstVars(vs, k) \cup {vs[k + 1]}
         /\ vs[k + 1] \notin FirstVars(vs, k)
         /\ \A v \in Range(vs) : v <= vs[k + 1] => v \in FirstVars(vs, k + 1)
<1>1. Len(vs) \in Nat /\ DOMAIN vs = 1 .. Len(vs) /\ \A i \in 1 .. Len(vs) : vs[i] \in Nat
  BY SeqElements
<1>2. \A i : i \in 1 .. k + 1 <=> i \in 1 .. k \/ i = k + 1
  OBVIOUS
<1>3. \A i, j \in 1 .. Len(vs) : i < j => vs[i] < vs[j]
  BY <1>1 DEF Rising
<1>4. ASSUME NEW i \in 1 .. k
      PROVE  vs[i] # vs[k + 1]
  <2>1. i \in 1 .. Len(vs) /\ k + 1 \in 1 .. Len(vs) /\ i < k + 1
    BY <1>1
  <2> QED BY <1>1, <1>3, <2>1
<1>5. ASSUME NEW v \in Range(vs), v <= vs[k + 1]
      PROVE  v \in FirstVars(vs, k + 1)
  <2>1. PICK i \in 1 .. Len(vs) : v = vs[i]
    BY <1>1 DEF Range
  <2>2. k + 1 \in 1 .. Len(vs)
    BY <1>1
  <2>3. ~(k + 1 < i)
    <3>1. SUFFICES ASSUME k + 1 < i PROVE FALSE
      OBVIOUS
    <3>2. vs[k + 1] < vs[i] /\ vs[i] \in Nat /\ vs[k + 1] \in Nat
      BY <1>1, <1>3, <2>2, <3>1
    <3> QED BY <1>5, <2>1, <3>2
  <2>4. i \in 1 .. k + 1
    BY <1>1, <2>3
  <2> QED BY <2>1, <2>4 DEF FirstVars
<1> QED BY <1>2, <1>4, <1>5 DEF FirstVars

LEMMA DecidedOneMore ==
  ASSUME NEW C, NEW b \in Nat, Bounded(C, b), NEW vs, vs = Ascending(Vars(C)),
         NEW k \in Nat, k + 1 <= Len(vs),
         NEW ms, \A n \in ms : \E T \in SUBSET Nat : Decided(C, vs, k, n, T),
         NEW m \in NextVariable(C, ms, k + 1)
  PROVE  \E T \in SUBSET Nat : Decided(C, vs, k + 1, m, T)
<1>1. vs \in Seq(Nat) /\ Rising(vs) /\ Range(vs) = Vars(C)
  BY VarsAre, AscendingSorts
<1>2. PICK v : v = vs[k + 1]
  OBVIOUS
<1>3. v \in Nat \ {0}
  <2>1. k + 1 \in DOMAIN vs
    BY <1>1
  <2>2. v \in Range(vs)
    BY <1>2, <2>1 DEF Range
  <2> QED BY <1>1, <2>2, VarsAre
<1>4. PICK n \in ms, x \in {v, -v} : m = n \cup {x}
  BY <1>2 DEF NextVariable
<1>5. \A c \in C : Max(Vars({c})) = v => c \cap m # {}
  BY <1>2 DEF NextVariable
<1>6. PICK T \in SUBSET Nat : Decided(C, vs, k, n, T)
  OBVIOUS
<1>7. PICK V : V = FirstVars(vs, k)
  OBVIOUS
<1>8. FirstVars(vs, k + 1) = V \cup {v} /\ v \notin V
  BY <1>1, <1>2, <1>7, FirstVarsGrow
<1>9. n = Chosen(T, V) /\ \A c \in C : Max(Vars({c})) \in V => c \cap n # {}
  BY <1>6, <1>7 DEF Decided
<1> DEFINE U == IF x = v THEN T \cup {v} ELSE T \ {v}
<1>10. U \in SUBSET Nat
  BY <1>3
<1>11. m = Chosen(U, V \cup {v})
  <2>1. v # -v
    BY <1>3
  <2>2. \A y \in V : y \in U <=> y \in T
    BY <1>8
  <2>3. (v \in U) <=> (x = v)
    OBVIOUS
  <2> HIDE DEF U
  <2>4. Chosen(U, V) = Chosen(T, V)
    BY <2>2 DEF Chosen
  <2>5. Chosen(U, V \cup {v}) = Chosen(U, V) \cup {IF v \in U THEN v ELSE -v}
    BY DEF Chosen
  <2>6. x = IF v \in U THEN v ELSE -v
    BY <1>4, <2>3
  <2> QED BY <1>4, <1>9, <2>4, <2>5, <2>6
<1>12. \A c \in C : Max(Vars({c})) \in V \cup {v} => c \cap m # {}
  BY <1>4, <1>5, <1>9
<1>13. Decided(C, vs, k + 1, m, U)
  BY <1>8, <1>11, <1>12 DEF Decided
<1> QED BY <1>10, <1>13

\* A value that a satisfying assignment gives to the next variable survives.
LEMMA ChosenOneMore ==
  ASSUME NEW C, NEW b \in Nat, Bounded(C, b), {} \notin C, NEW vs, vs = Ascending(Vars(C)),
         NEW T, AllHold(T, C), NEW k \in Nat, k + 1 <= Len(vs),
         NEW ms, Chosen(T, FirstVars(vs, k)) \in ms
  PROVE  Chosen(T, FirstVars(vs, k + 1)) \in NextVariable(C, ms, k + 1)
<1>1. vs \in Seq(Nat) /\ Rising(vs) /\ Range(vs) = Vars(C)
  BY VarsAre, AscendingSorts
<1>2. PICK v : v = vs[k + 1]
  OBVIOUS
<1>3. PICK V : V = FirstVars(vs, k)
  OBVIOUS
<1>4. PICK W : W = FirstVars(vs, k + 1)
  OBVIOUS
<1>5. W = V \cup {v} /\ \A u \in Vars(C) : u <= v => u \in W
  BY <1>1, <1>2, <1>3, <1>4, FirstVarsGrow
<1>6. PICK m : m = Chosen(T, W)
  OBVIOUS
<1>7. m = Chosen(T, V) \cup {IF v \in T THEN v ELSE -v}
  BY <1>5, <1>6 DEF Chosen
<1>8. W \in SUBSET (Nat \ {0})
  <2>1. ASSUME NEW i \in 1 .. k + 1
        PROVE  vs[i] \in Vars(C)
    <3>1. i \in DOMAIN vs
      BY <1>1
    <3> QED BY <1>1, <3>1 DEF Range
  <2>2. W \subseteq Vars(C)
    BY <1>4, <2>1 DEF FirstVars
  <2> QED BY <2>2, VarsAre
<1>9. ASSUME NEW c \in C, Max(Vars({c})) = v
      PROVE  c \cap m # {}
  <2>1. PICK x \in c : Holds(T, x)
    BY DEF AllHold, ClauseHolds
  <2>2. x \in Literals
    BY DEF Bounded
  <2>3. (IF x < 0 THEN -x ELSE x) \in Vars({c})
    BY DEF Vars
  <2>4. (IF x < 0 THEN -x ELSE x) <= v
    BY <1>9, <2>3, LastVariable
  <2>5. (IF x < 0 THEN -x ELSE x) \in Vars(C)
    BY <2>3, VarsAre
  <2>6. (IF x < 0 THEN -x ELSE x) \in W
    BY <1>5, <2>4, <2>5
  <2>7. x \in m
    BY <1>6, <1>8, <2>1, <2>2, <2>6, HoldsIsChosen
  <2> QED BY <2>7
<1>10. m \in {n \cup {x} : n \in ms, x \in {v, -v}}
  BY <1>3, <1>7
<1>11. m \in NextVariable(C, ms, k + 1)
  BY <1>2, <1>9, <1>10 DEF NextVariable
<1> QED BY <1>4, <1>6, <1>11

\* The models of a formula are the assignments under which all its clauses hold.
ModelsFit(C) ==
  \A m \in Models(C) : \E T \in SUBSET Nat : AllHold(T, C) /\ m = Chosen(T, Vars(C))

FitsAreModels(C) == \A T : AllHold(T, C) => Chosen(T, Vars(C)) \in Models(C)

LEMMA ModelsAre ==
  ASSUME NEW C, NEW b \in Nat, Bounded(C, b)
  PROVE  ModelsFit(C) /\ FitsAreModels(C)
<1>1. CASE {} \in C
  <2>1. Models(C) = {}
    BY <1>1 DEF Models
  <2>2. \A T : ~AllHold(T, C)
    BY <1>1 DEF AllHold, ClauseHolds
  <2> QED BY <2>1, <2>2 DEF ModelsFit, FitsAreModels
<1>2. CASE {} \notin C
  <2>1. PICK vs : vs = Ascending(Vars(C))
    OBVIOUS
  <2>2. vs \in Seq(Nat) /\ Rising(vs) /\ Range(vs) = Vars(C)
    BY <2>1, VarsAre, AscendingSorts
  <2>3. PICK n : n = Len(vs)
    OBVIOUS
  <2>4. n \in Nat /\ DOMAIN vs = 1 .. n
    BY <2>2, <2>3
  <2>5. PICK f : ModelsBy(C, f)
    BY <1>2, <2>1, <2>3, <2>4, ModelsSteps
  <2>6. /\ DOMAIN f = 0 .. n /\ f[0] = {{}}
        /\ \A k \in 1 .. n : f[k] = NextVariable(C, f[k - 1], k)
        /\ Models(C) = f[n]
    BY <2>1, <2>3, <2>5 DEF ModelsBy
  <2>7. FirstVars(vs, n) = Vars(C)
    BY <2>2, <2>4 DEF FirstVars, Range
  <2>8. FirstVars(vs, 0) = {}
    <3>1. \A i : ~(i \in 1 .. 0)
      OBVIOUS
    <3> QED BY <3>1 DEF FirstVars
  <2>9. \A T : Chosen(T, FirstVars(vs, 0)) = {}
    BY <2>8 DEF Chosen
  <2>10. ModelsFit(C)
    <3> DEFINE B == {k \in Nat : k <= n =>
                       \A m \in f[k] : \E T \in SUBSET Nat : Decided(C, vs, k, m, T)}
    <3>1. 0 \in B
      <4>1. ASSUME NEW m \in f[0]
            PROVE  Decided(C, vs, 0, m, {})
        BY <2>6, <2>8, <2>9 DEF Decided
      <4> QED BY <4>1
    <3>2. ASSUME NEW k \in B
          PROVE  k + 1 \in B
      <4>1. k \in Nat /\ k + 1 \in Nat
        OBVIOUS
      <4>2. ASSUME k + 1 <= n, NEW m \in f[k + 1]
            PROVE  \E T \in SUBSET Nat : Decided(C, vs, k + 1, m, T)
        <5>1. k <= n /\ k + 1 \in 1 .. n /\ (k + 1) - 1 = k
          BY <2>4, <4>1, <4>2
        <5>2. f[k + 1] = NextVariable(C, f[k], k + 1)
          BY <2>6, <5>1
        <5>3. \A p \in f[k] : \E T \in SUBSET Nat : Decided(C, vs, k, p, T)
          BY <5>1
        <5>4. PICK ms : ms = f[k]
          OBVIOUS
        <5>5. m \in NextVariable(C, ms, k + 1) /\ k + 1 <= Len(vs)
          BY <2>3, <4>2, <5>2, <5>4
        <5> QED BY <2>1, <4>1, <5>3, <5>4, <5>5, DecidedOneMore
      <4> QED BY <4>1, <4>2
    <3>3. B = Nat
      <4>1. B \in SUBSET Nat
        OBVIOUS
      <4> HIDE DEF B
      <4> QED BY <3>1, <3>2, <4>1, InductionOverNat
    <3>4. n \in B
      <4> HIDE DEF B
      <4> QED BY <2>4, <3>3
    <3>5. \A m \in f[n] : \E T \in SUBSET Nat : Decided(C, vs, n, m, T)
      BY <2>4, <3>4
    <3>6. ASSUME NEW m \in Models(C)
          PROVE  \E T \in SUBSET Nat : AllHold(T, C) /\ m = Chosen(T, Vars(C))
      <4>1. PICK T \in SUBSET Nat : Decided(C, vs, n, m, T)
        BY <2>6, <3>5
      <4>2. m = Chosen(T, Vars(C)) /\ \A c \in C : Max(Vars({c})) \in Vars(C) => c \cap m # {}
        BY <2>7, <4>1 DEF Decided
      <4>3. ASSUME NEW c \in C
            PROVE  ClauseHolds(T, c)
        <5>1. Max(Vars({c})) \in Vars(C)
          BY <1>2, LastVariable
        <5>2. PICK x \in c : x \in m
          BY <4>2, <5>1
        <5>3. Vars(C) \in SUBSET (Nat \ {0})
          BY VarsAre
        <5>4. Holds(T, x)
          BY <4>2, <5>2, <5>3, ChosenHolds
        <5> QED BY <5>4 DEF ClauseHolds
      <4> QED BY <4>2, <4>3 DEF AllHold
    <3> QED BY <3>6 DEF ModelsFit
  <2>11. ASSUME NEW T, AllHold(T, C)
         PROVE  Chosen(T, Vars(C)) \in Models(C)
    <3> DEFINE B == {k \in Nat : k <= n => Chosen(T, FirstVars(vs, k)) \in f[k]}
    <3>1. 0 \in B
      <4>1. Chosen(T, FirstVars(vs, 0)) \in f[0]
        BY <2>6, <2>9
      <4> QED BY <4>1
    <3>2. ASSUME NEW k \in B
          PROVE  k + 1 \in B
      <4>1. k \in Nat /\ k + 1 \in Nat
        OBVIOUS
      <4>2. ASSUME k + 1 <= n
            PROVE  Chosen(T, FirstVars(vs, k + 1)) \in f[k + 1]
        <5>1. k <= n /\ k + 1 \in 1 .. n /\ (k + 1) - 1 = k
          BY <2>4, <4>1, <4>2
        <5>2. f[k + 1] = NextVariable(C, f[k], k + 1)
          BY <2>6, <5>1
        <5>3. PICK ms : ms = f[k]
          OBVIOUS
        <5>4. Chosen(T, FirstVars(vs, k)) \in ms /\ k + 1 <= Len(vs)
          BY <2>3, <4>2, <5>1, <5>3
        <5>5. Chosen(T, FirstVars(vs, k + 1)) \in NextVariable(C, ms, k + 1)
          BY <1>2, <2>1, <2>11, <4>1, <5>4, ChosenOneMore
        <5> QED BY <5>2, <5>3, <5>5
      <4> QED BY <4>1, <4>2
    <3>3. B = Nat
      <4>1. B \in SUBSET Nat
        OBVIOUS
      <4> HIDE DEF B
      <4> QED BY <3>1, <3>2, <4>1, InductionOverNat
    <3>4. n \in B
      <4> HIDE DEF B
      <4> QED BY <2>4, <3>3
    <3>5. Chosen(T, FirstVars(vs, n)) \in f[n]
      BY <2>4, <3>4
    <3> QED BY <2>6, <2>7, <3>5
  <2> QED BY <2>10, <2>11 DEF FitsAreModels
<1> QED BY <1>1, <1>2

------------------------------------------------------------------------------
\* What holds of the variables of a formula holds of the formula.
LEMMA SameVariables ==
  ASSUME NEW C, NEW b \in Nat, Bounded(C, b), NEW T, NEW U,
         \A x \in Vars(C) : x \in T <=> x \in U
  PROVE  AllHold(T, C) => AllHold(U, C)
<1>1. ASSUME NEW c \in C, NEW x \in c
      PROVE  Holds(T, x) <=> Holds(U, x)
  <2>1. x \in Int /\ x # 0
    BY DEF Bounded, Literals
  <2>2. (IF x < 0 THEN -x ELSE x) \in Vars(C)
    BY DEF Vars
  <2>3. CASE x > 0
    BY <2>1, <2>2, <2>3 DEF Holds
  <2>4. CASE x < 0
    BY <2>1, <2>2, <2>4 DEF Holds
  <2> QED BY <2>1, <2>3, <2>4
<1> QED BY <1>1 DEF AllHold, ClauseHolds

\* The inputs have the values in v.
VectorOf(gr, v, T) == \A l \in Range(gr.ins) : v[l] = BitIn(T, l)

ReadsModel(gr, m, v) == \A l \in Range(gr.ins) : Reads(m, l, v[l])

\* T and the model m agree on the numbers above L.
AgreeAbove(L, m, T) == \A x \in Nat : x > L => (x \in m <=> x \in T)

\* A vector read off a model is that of an assignment which satisfies the formula.
LEMMA ModelVector ==
  ASSUME NEW C, NEW b \in Nat, Bounded(C, b), NEW gr, NEW L \in Nat,
         Range(gr.ins) \subseteq 1 .. L, NEW m \in Models(C),
         NEW v \in [Range(gr.ins) -> Bits], ReadsModel(gr, m, v)
  PROVE  \E T \in SUBSET Nat : AllHold(T, C) /\ VectorOf(gr, v, T) /\ AgreeAbove(L, m, T)
<1>1. PICK T0 \in SUBSET Nat : AllHold(T0, C) /\ m = Chosen(T0, Vars(C))
  BY ModelsAre DEF ModelsFit
<1> DEFINE T == {x \in Nat : IF x \in Vars(C) THEN x \in T0 ELSE x \in Range(gr.ins) /\ v[x] = 1}
<1>2. Vars(C) \in SUBSET (Nat \ {0})
  BY VarsAre
<1>3. AllHold(T, C)
  <2>1. \A x \in Vars(C) : x \in T0 <=> x \in T
    BY <1>2
  <2> HIDE DEF T
  <2> QED BY <1>1, <2>1, SameVariables
<1>4. ASSUME NEW l \in Range(gr.ins)
      PROVE  v[l] = BitIn(T, l)
  <2>1. l \in Nat /\ v[l] \in {0, 1} /\ Reads(m, l, v[l])
    BY DEF Bits, ReadsModel
  <2>2. CASE l \notin Vars(C)
    BY <2>1, <2>2 DEF BitIn, BitOf
  <2>3. CASE l \in Vars(C)
    <3>1. l \in T <=> l \in T0
      BY <2>1, <2>3
    <3>2. (IF l \in T0 THEN l ELSE -l) \in m
      BY <1>1, <2>3 DEF Chosen
    <3> HIDE DEF T
    <3>3. CASE v[l] = 1
      <4>1. -l \notin m
        BY <2>1, <3>3 DEF Reads
      <4> QED BY <3>1, <3>2, <3>3, <4>1 DEF BitIn, BitOf
    <3>4. CASE v[l] = 0
      <4>1. l \notin m
        BY <2>1, <3>4 DEF Reads
      <4> QED BY <3>1, <3>2, <3>4, <4>1 DEF BitIn, BitOf
    <3> QED BY <2>1, <3>3, <3>4
  <2> QED BY <2>2, <2>3
<1>5. ASSUME NEW x \in Nat, x > L
      PROVE  x \in m <=> x \in T
  <2>1. x \notin Range(gr.ins)
    <3>1. x \notin 1 .. L
      BY <1>5
    <3> QED BY <3>1
  <2>2. x \in T <=> x \in Vars(C) /\ x \in T0
    BY <2>1
  <2>3. x \in m => x \in Vars(C) /\ x \in T0
    <3>1. SUFFICES ASSUME x \in m PROVE x \in Vars(C) /\ x \in T0
      OBVIOUS
    <3>2. PICK y \in Vars(C) : x = IF y \in T0 THEN y ELSE -y
      BY <1>1, <3>1 DEF Chosen
    <3>3. y \in Nat /\ y > 0
      BY <1>2
    <3>4. y \in T0
      BY <3>2, <3>3
    <3> QED BY <3>2, <3>4
  <2>4. x \in Vars(C) /\ x \in T0 => x \in m
    BY <1>1 DEF Chosen
  <2> QED BY <2>2, <2>3, <2>4
<1>6. T \in SUBSET Nat
  OBVIOUS
<1> HIDE DEF T
<1> QED BY <1>3, <1>4, <1>5, <1>6 DEF VectorOf, AgreeAbove

\* A vector can be read off every model.
LEMMA ModelHasVector ==
  ASSUME NEW C, NEW b \in Nat, Bounded(C, b), NEW gr, NEW L \in Nat,
         Range(gr.ins) \subseteq 1 .. L, NEW m \in Models(C)
  PROVE  \E v \in [Range(gr.ins) -> Bits] : ReadsModel(gr, m, v)
<1>1. PICK T \in SUBSET Nat : AllHold(T, C) /\ m = Chosen(T, Vars(C))
  BY ModelsAre DEF ModelsFit
<1> DEFINE v == [l \in Range(gr.ins) |-> IF l \in m THEN 1 ELSE 0]
<1>2. v \in [Range(gr.ins) -> Bits]
  BY DEF Bits
<1>3. ASSUME NEW l \in Range(gr.ins)
      PROVE  Reads(m, l, v[l])
  <2>1. l \in Nat /\ l > 0
    OBVIOUS
  <2>2. Vars(C) \in SUBSET (Nat \ {0})
    BY VarsAre
  <2>3. ASSUME l \in m
        PROVE  -l \notin m
    <3>1. PICK y \in Vars(C) : l = IF y \in T THEN y ELSE -y
      BY <1>1, <2>3 DEF Chosen
    <3>2. y \in Nat /\ y > 0
      BY <2>2
    <3>3. l \in T
      BY <2>1, <3>1, <3>2
    <3>4. SUFFICES ASSUME -l \in m PROVE FALSE
      OBVIOUS
    <3>5. PICK z \in Vars(C) : -l = IF z \in T THEN z ELSE -z
      BY <1>1, <3>4 DEF Chosen
    <3>6. z \in Nat /\ z > 0
      BY <2>2
    <3>7. z = l /\ z \notin T
      BY <2>1, <3>5, <3>6
    <3> QED BY <3>3, <3>7
  <2> QED BY <2>3 DEF Reads
<1> HIDE DEF v
<1> QED BY <1>2, <1>3 DEF ReadsModel

LEMMA NoModel ==
  ASSUME NEW C, NEW b \in Nat, Bounded(C, b), Models(C) = {}
  PROVE  \A T : ~AllHold(T, C)
BY ModelsAre DEF FitsAreModels

------------------------------------------------------------------------------
LEMMA FlipTells ==
  ASSUME NEW a \in Bits, NEW b \in Bits, NEW p \in BOOLEAN
  PROVE  Flip(a, p) \in Bits /\ ((p <=> a # b) <=> Flip(a, p) = b)
BY DEF Flip, Bits

LEMMA LinkIsBit ==
  ASSUME NEW type \in GateTypes, NEW x \in Bits, NEW y \in Bits
  PROVE  Link2(type, x, y) \in Bits
BY DEF Link2, GateTypes, Bits, BitOf

LEMMA PositiveSeq ==
  ASSUME NEW s \in Seq(Nat), \A i \in DOMAIN s : s[i] \in Nat \ {0}
  PROVE  s \in Seq(Nat \ {0})
<1>1. PICK n \in Nat : s \in [1 .. n -> Nat]
  BY SeqDef
<1>2. s \in [1 .. n -> Nat \ {0}]
  BY <1>1
<1> QED BY <1>2, SeqDef

LEMMA PartSeq ==
  ASSUME NEW S, NEW R, S \subseteq R, NEW s \in Seq(S)
  PROVE  s \in Seq(R)
<1>1. PICK n \in Nat : s \in [1 .. n -> S]
  BY SeqDef
<1>2. s \in [1 .. n -> R]
  BY <1>1
<1> QED BY <1>2, SeqDef

\* The values the link e has under T fit it.
LinkHolds(T, e) ==
  BitIn(T, e.output)
    = Link2(e.type, BitIn(T, e.inputs[1]), BitIn(T, e.inputs[Len(e.inputs)]))

\* A link is a small gate on lines of the circuit.
LinkKnown(gr, e) ==
  /\ SmallLink(e) /\ e.output \in DOMAIN gr.lines
  /\ \A i \in DOMAIN e.inputs : e.inputs[i] \in DOMAIN gr.lines

LEMMA LinksAreSmall ==
  ASSUME NEW gr, NEW rank, NEW first, Chained(gr, rank, first), NEW g \in DOMAIN gr.gates,
         NEW k \in DOMAIN gr.gates[g].expanded
  PROVE  LinkKnown(gr, gr.gates[g].expanded[k])
<1>0. Walkable(gr, rank)
  BY DEF Chained
<1>1. PICK e : e = gr.gates[g].expanded[k]
  OBVIOUS
<1>2. PICK n : n = Size(gr, g)
  OBVIOUS
<1>3. DOMAIN gr.lines = 1 .. Len(gr.lines) /\ Len(gr.lines) \in Nat
  BY <1>0, GraphParts DEF Walkable, GraphSound
<1>4. DOMAIN gr.lines \subseteq Nat \ {0}
  BY <1>3
<1>5. /\ gr.gates[g].type \in GateTypes /\ n \in Nat /\ n >= 1
      /\ gr.gates[g].inputs \in Seq(NamedLines(gr))
      /\ DOMAIN gr.gates[g].inputs = 1 .. n
      /\ \A j \in 1 .. n : gr.gates[g].inputs[j] \in DOMAIN gr.lines
      /\ ArityOk(gr.gates[g].type, n) /\ gr.gates[g].output \in DOMAIN gr.lines
  BY <1>0, <1>2, GateShape, NamedAreLines DEF Size
<1>6. CASE n <= 2
  <2>1. /\ e.type = gr.gates[g].type /\ e.inputs = gr.gates[g].inputs
        /\ e.output = gr.gates[g].output
    BY <1>1, <1>2, <1>6, ChainShape
  <2>2. PICK S : S = NamedLines(gr)
    OBVIOUS
  <2>3. S \subseteq Nat \ {0}
    BY <1>4, <2>2, NamedAreLines
  <2>4. e.inputs \in Seq(S)
    BY <1>5, <2>1, <2>2
  <2>5. e.inputs \in Seq(Nat \ {0})
    BY <2>3, <2>4, PartSeq
  <2>6. Len(e.inputs) = n
    BY <1>2, <2>1 DEF Size
  <2> QED BY <1>1, <1>4, <1>5, <1>6, <2>1, <2>5, <2>6 DEF LinkKnown, SmallLink
<1>7. CASE n > 2
  <2>1. /\ gr.gates[g].type \in {"AND", "NAND", "OR", "NOR"} /\ k \in 1 .. n - 1
        /\ LinkShaped(gr, first, g, k)
    BY <1>2, <1>7, ChainShape
  <2>2. /\ e.type = (IF k = n - 1 THEN gr.gates[g].type ELSE InnerType(gr.gates[g].type))
        /\ Len(e.inputs) = 2 /\ DOMAIN e.inputs = 1 .. 2
        /\ e.inputs[1] = gr.gates[g].inputs[n - k]
        /\ e.inputs[2] = LowerLine(gr, first, g, k)
        /\ e.output = LinkOutput(gr, first, g, k)
    BY <1>1, <1>2, <2>1 DEF LinkShaped
  <2>3. n - k \in 1 .. n /\ n \in 1 .. n
    BY <1>5, <2>1
  <2>4. e.inputs[1] \in DOMAIN gr.lines
    BY <1>5, <2>2, <2>3
  <2>5. \A j \in 1 .. n - 2 : MadeLine(first, g, j) \in DOMAIN gr.lines
    BY <1>2, MadeLines
  <2>6. e.inputs[2] \in DOMAIN gr.lines
    <3>1. CASE k = 1
      BY <1>2, <1>5, <2>2, <2>3, <3>1 DEF LowerLine
    <3>2. CASE k # 1
      <4>1. k - 1 \in 1 .. n - 2
        BY <1>5, <2>1, <3>2
      <4> QED BY <2>2, <2>5, <3>2, <4>1 DEF LowerLine
    <3> QED BY <3>1, <3>2
  <2>7. e.output \in DOMAIN gr.lines
    <3>1. k # n - 1 => k \in 1 .. n - 2
      BY <1>5, <2>1
    <3> QED BY <1>2, <1>5, <2>2, <2>5, <3>1 DEF LinkOutput
  <2>8. \A i \in 1 .. 2 : i = 1 \/ i = 2
    OBVIOUS
  <2>9. \A i \in 1 .. 2 : e.inputs[i] \in DOMAIN gr.lines
    BY <2>4, <2>6, <2>8
  <2>10. e.inputs \in Seq(Nat \ {0})
    <3>1. PICK is : is = e.inputs
      OBVIOUS
    <3>2. DOMAIN is = 1 .. 2 /\ \A i \in 1 .. 2 : is[i] \in Nat \ {0}
      BY <1>4, <2>2, <2>9, <3>1
    <3>3. e \in LinkType
      <4>1. gr.gates[g] \in GateType
        BY <1>0, GraphParts DEF Walkable, GraphSound
      <4>2. gr.gates[g].expanded \in Seq(LinkType)
        BY <4>1 DEF GateType
      <4> QED BY <1>1, <4>2
    <3>4. is \in Seq(Nat)
      BY <3>1, <3>3 DEF LinkType
    <3>5. is \in Seq(Nat \ {0})
      BY <3>2, <3>4, PositiveSeq
    <3> QED BY <3>1, <3>5
  <2>11. e.type \in {"AND", "NAND", "OR", "NOR"}
    BY <2>1, <2>2 DEF InnerType
  <2>12. e.type \in GateTypes /\ ArityOk(e.type, Len(e.inputs))
    <3>1. PICK t : t = e.type
      OBVIOUS
    <3>2. PICK m : m = Len(e.inputs)
      OBVIOUS
    <3>3. m >= 2 /\ t \in {"AND", "NAND", "OR", "NOR"}
      BY <2>2, <2>11, <3>1, <3>2
    <3>4. ArityOk(t, m)
      BY <3>3 DEF ArityOk
    <3> QED BY <3>1, <3>2, <3>3, <3>4 DEF GateTypes
  <2>13. Len(e.inputs) <= 2
    BY <2>2
  <2> QED BY <1>1, <1>4, <2>2, <2>7, <2>9, <2>10, <2>12, <2>13 DEF LinkKnown, SmallLink
<1> QED BY <1>5, <1>6, <1>7

\* The values of the lines under T.
ValuesIn(gr, T) == [l \in DOMAIN gr.lines |-> BitIn(T, l)]

LEMMA ValuesInAre ==
  ASSUME NEW gr, NEW T
  PROVE  \A l \in DOMAIN gr.lines : ValuesIn(gr, T)[l] = BitIn(T, l) /\ BitIn(T, l) \in Bits
BY DEF ValuesIn, BitIn, BitOf, Bits

LEMMA LinkConsistent ==
  ASSUME NEW gr, NEW e, LinkKnown(gr, e), NEW T
  PROVE  Consistent(e, ValuesIn(gr, T)) <=> LinkHolds(T, e)
<1>1. PICK w : w = ValuesIn(gr, T)
  OBVIOUS
<1>2. \A l \in DOMAIN gr.lines : w[l] = BitIn(T, l) /\ w[l] \in Bits
  BY <1>1, ValuesInAre
<1>3. PICK is : is = e.inputs
  OBVIOUS
<1>4. PICK n : n = Len(is)
  OBVIOUS
<1>5. /\ is \in Seq(Nat \ {0}) /\ n \in Nat /\ n <= 2 /\ DOMAIN is = 1 .. n
      /\ e.type \in GateTypes /\ ArityOk(e.type, n)
      /\ \A i \in DOMAIN is : is[i] \in DOMAIN gr.lines
      /\ e.output \in DOMAIN gr.lines
  BY <1>3, <1>4 DEF LinkKnown, SmallLink
<1>6. PICK pins : pins = [i \in DOMAIN is |-> w[is[i]]]
  OBVIOUS
<1>7. pins \in Seq(Bits) /\ Len(pins) = n
  <2>1. pins \in [1 .. n -> Bits]
    BY <1>2, <1>5, <1>6
  <2> QED BY <1>5, <2>1
<1>8. N!CalValue(e.type, pins) = Link2(e.type, pins[1], pins[n])
  <2>1. PICK t : t = e.type
    OBVIOUS
  <2>2. t \in GateTypes /\ ArityOk(t, Len(pins)) /\ Len(pins) <= 2
    BY <1>5, <1>7, <2>1
  <2>3. N!CalValue(t, pins) = Link2(t, pins[1], pins[Len(pins)])
    BY <1>7, <2>2, SmallGate
  <2> QED BY <1>7, <2>1, <2>3
<1>9. 1 \in 1 .. n /\ n \in 1 .. n
  <2>1. Len(is) = IF e.type \in {"NOT", "BUF"} THEN 1 ELSE 2
    BY <1>3, SmallLinkInputs DEF LinkKnown
  <2>2. n = 1 \/ n = 2
    BY <1>4, <2>1
  <2> QED BY <2>2
<1>10. pins[1] = BitIn(T, is[1]) /\ pins[n] = BitIn(T, is[n])
  BY <1>2, <1>5, <1>6, <1>9
<1> QED BY <1>1, <1>2, <1>3, <1>4, <1>5, <1>6, <1>8, <1>10 DEF Consistent, LinkHolds

\* The circuit part of the formula: the values of the lines fit the gates in gb.
BaseSays(gr, gb, T) == \A g \in gb : GateFits(gr, ValuesIn(gr, T), g)

LEMMA BaseLinks ==
  ASSUME NEW gr, NEW rank, NEW first, Chained(gr, rank, first), NEW T,
         NEW g \in DOMAIN gr.gates
  PROVE  GateFits(gr, ValuesIn(gr, T), g)
           <=> \A k \in DOMAIN gr.gates[g].expanded : LinkHolds(T, gr.gates[g].expanded[k])
<1>1. PICK ex : ex = gr.gates[g].expanded
  OBVIOUS
<1>2. \A k \in DOMAIN ex : LinkKnown(gr, ex[k])
  BY <1>1, LinksAreSmall
<1>3. \A k \in DOMAIN ex : Consistent(ex[k], ValuesIn(gr, T)) <=> LinkHolds(T, ex[k])
  BY <1>2, LinkConsistent
<1>4. \A e : e \in Range(ex) <=> \E k \in DOMAIN ex : e = ex[k]
  BY DEF Range
<1> QED BY <1>1, <1>3, <1>4 DEF GateFits

\* No literal of a gate's clauses is beyond the lines.
LEMMA MakeClausesBounded ==
  ASSUME NEW gr, NEW rank, Walkable(gr, rank), NEW e, LinkKnown(gr, e)
  PROVE  Bounded(MakeClauses(e), Len(gr.lines))
<1>1. PICK L : L = Len(gr.lines)
  OBVIOUS
<1>2. DOMAIN gr.lines = 1 .. L /\ L \in Nat
  BY <1>1, GraphParts DEF Walkable, GraphSound
<1>3. PICK is : is = e.inputs
  OBVIOUS
<1>4. PICK o : o = e.output
  OBVIOUS
<1>5. \A l : l \in Range(is) <=> \E i \in DOMAIN is : l = is[i]
  BY DEF Range
<1>6. \A l \in Range(is) : l \in 1 .. L
  BY <1>2, <1>3, <1>5 DEF LinkKnown
<1>7. o \in 1 .. L
  BY <1>2, <1>4 DEF LinkKnown
<1>8. DOMAIN is = (IF e.type \in {"NOT", "BUF"} THEN {1} ELSE {1, 2})
  BY <1>3, SmallLinkInputs DEF LinkKnown
<1>9. ASSUME NEW s \in {-1, 1}, NEW t \in {-1, 1}
      PROVE  Bounded(StandardGate(e, s, t), L)
  <2> SUFFICES ASSUME NEW c \in StandardGate(e, s, t), NEW x \in c
               PROVE  x \in Literals /\ -L <= x /\ x <= L
    BY DEF Bounded
  <2>1. \/ \E l \in Range(is) : c = {s * o, t * l}
        \/ c = {-s * o} \cup {-t * l : l \in Range(is)}
    BY <1>3, <1>4 DEF StandardGate
  <2>2. x = s * o \/ x = -s * o \/ \E l \in Range(is) : x = t * l \/ x = -t * l
    <3>1. CASE \E l \in Range(is) : c = {s * o, t * l}
      BY <3>1
    <3>2. CASE c = {-s * o} \cup {-t * l : l \in Range(is)}
      BY <3>2
    <3> QED BY <2>1, <3>1, <3>2
  <2>3. ASSUME NEW l \in 1 .. L, NEW u \in {-1, 1}
        PROVE  /\ u * l \in Literals /\ -L <= u * l /\ u * l <= L
               /\ -u * l \in Literals /\ -L <= -u * l /\ -u * l <= L
    <3>1. CASE u = 1
      <4>1. u * l = l /\ -u * l = -l
        BY <3>1
      <4> QED BY <1>2, <4>1 DEF Literals
    <3>2. CASE u = -1
      <4>1. u * l = -l /\ -u * l = l
        BY <3>2
      <4> QED BY <1>2, <4>1 DEF Literals
    <3> QED BY <3>1, <3>2
  <2>4. /\ s * o \in Literals /\ -L <= s * o /\ s * o <= L
        /\ -s * o \in Literals /\ -L <= -s * o /\ -s * o <= L
    BY <1>7, <2>3
  <2>5. ASSUME NEW l \in Range(is)
        PROVE  /\ t * l \in Literals /\ -L <= t * l /\ t * l <= L
               /\ -t * l \in Literals /\ -L <= -t * l /\ -t * l <= L
    BY <1>6, <2>3, <2>5
  <2> QED BY <2>2, <2>4, <2>5
<1>10. ASSUME NEW x \in 1 .. L, NEW y \in 1 .. L, NEW z \in 1 .. L
       PROVE  Bounded(XorGate(x, y, z), L) /\ Bounded(XorGate(x, y, -z), L)
  <2>1. PICK S : S = {u \in Literals : -L <= u /\ u <= L}
    OBVIOUS
  <2>2. \A u \in 1 .. L : u \in S /\ -u \in S /\ -(-u) \in S
    BY <1>2, <2>1 DEF Literals
  <2>3. \A u \in S : u \in Literals /\ -L <= u /\ u <= L
    BY <2>1
  <2>4. \A c \in XorGate(x, y, z) : c \subseteq S
    BY <2>2 DEF XorGate
  <2>5. \A c \in XorGate(x, y, -z) : c \subseteq S
    BY <2>2 DEF XorGate
  <2> QED BY <2>3, <2>4, <2>5 DEF Bounded
<1>11. CASE e.type \in {"XOR", "XNOR"}
  <2>1. DOMAIN is = {1, 2}
    BY <1>8, <1>11
  <2>2. is[1] \in 1 .. L /\ is[2] \in 1 .. L
    BY <1>5, <1>6, <2>1
  <2>3. MakeClauses(e) \in {XorGate(is[1], is[2], o), XorGate(is[1], is[2], -o)}
    BY <1>3, <1>4, <1>11 DEF MakeClauses
  <2> QED BY <1>1, <1>7, <1>10, <2>2, <2>3
<1>12. CASE e.type \notin {"XOR", "XNOR"}
  <2>1. e.type \in GateTypes
    BY DEF LinkKnown, SmallLink
  <2>2. MakeClauses(e) \in {StandardGate(e, -1, 1), StandardGate(e, 1, 1),
                            StandardGate(e, 1, -1), StandardGate(e, -1, -1)}
    BY <1>12, <2>1 DEF MakeClauses, GateTypes
  <2> QED BY <1>1, <1>9, <2>2
<1> QED BY <1>11, <1>12

\* The clauses of the gates in gb say that the values fit them.
LEMMA BaseClauses ==
  ASSUME NEW rank, NEW first, Chained(graph, rank, first), NEW gb \in SUBSET DOMAIN graph.gates
  PROVE  /\ Bounded(ClausesOf(gb), Len(graph.lines))
         /\ \A T : AllHold(T, ClausesOf(gb)) <=> BaseSays(graph, gb, T)
<1>0. Walkable(graph, rank)
  BY DEF Chained
<1>1. \A c : c \in ClausesOf(gb) <=>
        \E g \in gb : \E e \in Range(graph.gates[g].expanded) : c \in MakeClauses(e)
  BY DEF ClausesOf, Expanded
<1>2. ASSUME NEW g \in gb, NEW e \in Range(graph.gates[g].expanded)
      PROVE  LinkKnown(graph, e)
  <2>1. PICK k \in DOMAIN graph.gates[g].expanded : e = graph.gates[g].expanded[k]
    BY DEF Range
  <2> QED BY <2>1, LinksAreSmall
<1>3. Bounded(ClausesOf(gb), Len(graph.lines))
  <2>1. \A g \in gb : \A e \in Range(graph.gates[g].expanded) :
          Bounded(MakeClauses(e), Len(graph.lines))
    BY <1>0, <1>2, MakeClausesBounded
  <2> QED BY <1>1, <2>1 DEF Bounded
<1>4. ASSUME NEW T
      PROVE  AllHold(T, ClausesOf(gb)) <=> BaseSays(graph, gb, T)
  <2>1. ASSUME NEW g \in gb, NEW e \in Range(graph.gates[g].expanded)
        PROVE  AllHold(T, MakeClauses(e)) <=> Consistent(e, ValuesIn(graph, T))
    <3>1. AllHold(T, MakeClauses(e)) <=> LinkHolds(T, e)
      BY <1>2, <2>1, MakeClausesMean DEF LinkKnown, LinkHolds
    <3>2. LinkKnown(graph, e)
      BY <1>2, <2>1
    <3>3. Consistent(e, ValuesIn(graph, T)) <=> LinkHolds(T, e)
      BY <3>2, LinkConsistent
    <3> QED BY <3>1, <3>3
  <2>2. AllHold(T, ClausesOf(gb)) <=>
          \A g \in gb : \A e \in Range(graph.gates[g].expanded) : AllHold(T, MakeClauses(e))
    BY <1>1 DEF AllHold
  <2> QED BY <2>1, <2>2 DEF BaseSays, GateFits
<1> QED BY <1>3, <1>4

------------------------------------------------------------------------------
\* The lines that tell whether the inputs of link k differ.
XSide(gr, f, g, k) ==
  Side(f, g, gr.gates[g].expanded[k].inputs[1], IF Size(gr, g) > 1 THEN Size(gr, g) - k ELSE 1)

YSide(gr, f, g, k) ==
  Side(f, g, gr.gates[g].expanded[k].inputs[Len(gr.gates[g].expanded[k].inputs)],
       IF Size(gr, g) > 1 THEN Size(gr, g) - k + 1 ELSE 1)

\* D are the lines that differ: link k makes its output differ of the inputs that do.
LinkTells(gr, f, T, D, g, k) ==
  LET e == gr.gates[g].expanded[k]
      x == BitIn(T, e.inputs[1])
      y == BitIn(T, e.inputs[Len(e.inputs)])
  IN  e.output \in D <=>
        Link2(e.type, x, y)
          # Link2(e.type, Flip(x, XSide(gr, f, g, k) \in D), Flip(y, YSide(gr, f, g, k) \in D))

GateTells(gr, f, T, D, g) ==
  \A k \in DOMAIN gr.gates[g].expanded : LinkTells(gr, f, T, D, g, k)

\* The values w with those of D turned round, at the pins of gate g and on line l.
FlippedPins(gr, f, w, D, g) ==
  [k \in DOMAIN gr.gates[g].inputs |->
     Flip(w[gr.gates[g].inputs[k]], Side(f, g, gr.gates[g].inputs[k], k) \in D)]

Flipped(w, D, l) == Flip(w[l], l \in D)

\* The lines of gate g have, turned round, the values that gate and chain give.
FlippedFit(gr, first, f, w, D, g) ==
  /\ Flipped(w, D, gr.gates[g].output)
       = N!CalValue(gr.gates[g].type, FlippedPins(gr, f, w, D, g))
  /\ \A k \in 1 .. Size(gr, g) - 2 :
       Flipped(w, D, MadeLine(first, g, k))
         = Joined(gr.gates[g].type, FlippedPins(gr, f, w, D, g), k)

LEMMA FlippedAreBits ==
  ASSUME NEW gr, NEW rank, Walkable(gr, rank), NEW f, NEW T, NEW D, NEW g \in DOMAIN gr.gates
  PROVE  /\ FlippedPins(gr, f, ValuesIn(gr, T), D, g) \in Seq(Bits)
         /\ Len(FlippedPins(gr, f, ValuesIn(gr, T), D, g)) = Size(gr, g)
         /\ \A k \in DOMAIN gr.gates[g].inputs :
              FlippedPins(gr, f, ValuesIn(gr, T), D, g)[k]
                = Flip(BitIn(T, gr.gates[g].inputs[k]), Side(f, g, gr.gates[g].inputs[k], k) \in D)
<1>1. PICK w : w = ValuesIn(gr, T)
  OBVIOUS
<1>2. PICK n : n = Size(gr, g)
  OBVIOUS
<1>3. PICK is : is = gr.gates[g].inputs
  OBVIOUS
<1>4. PICK pins : pins = FlippedPins(gr, f, w, D, g)
  OBVIOUS
<1>5. n \in Nat /\ DOMAIN is = 1 .. n /\ \A k \in 1 .. n : is[k] \in DOMAIN gr.lines
  BY <1>2, <1>3, GateShape, NamedAreLines DEF Size
<1>6. \A k \in 1 .. n : w[is[k]] = BitIn(T, is[k]) /\ w[is[k]] \in Bits
  BY <1>1, <1>5, ValuesInAre
<1>7. pins = [k \in 1 .. n |-> Flip(w[is[k]], Side(f, g, is[k], k) \in D)]
  BY <1>3, <1>4, <1>5 DEF FlippedPins
<1>8. \A k \in 1 .. n : pins[k] = Flip(w[is[k]], Side(f, g, is[k], k) \in D) /\ pins[k] \in Bits
  BY <1>6, <1>7 DEF Flip, Bits
<1>9. pins \in [1 .. n -> Bits]
  BY <1>7, <1>8
<1>10. pins \in Seq(Bits) /\ Len(pins) = n
  BY <1>5, <1>9
<1> QED BY <1>1, <1>2, <1>3, <1>4, <1>5, <1>6, <1>8, <1>10

\* A link tells it right iff the values turned round fit it, if those as they are do.
LEMMA TellsFits ==
  ASSUME NEW type \in GateTypes, NEW x \in Bits, NEW y \in Bits, NEW a, NEW b,
         NEW z \in Bits, z = Link2(type, x, y), NEW p \in BOOLEAN
  PROVE  (p <=> Link2(type, x, y) # Link2(type, Flip(x, a), Flip(y, b)))
           <=> Flip(z, p) = Link2(type, Flip(x, a), Flip(y, b))
<1>1. PICK u : u = Link2(type, Flip(x, a), Flip(y, b))
  OBVIOUS
<1>2. Flip(x, a) \in Bits /\ Flip(y, b) \in Bits
  BY DEF Flip, Bits
<1>3. u \in Bits
  BY <1>1, <1>2, LinkIsBit
<1> QED BY <1>1, <1>3, FlipTells

LEMMA GateTellsMeans ==
  ASSUME NEW gr, NEW rank, NEW first, Chained(gr, rank, first), NEW g \in DOMAIN gr.gates,
         NEW f, f.line \in NamedLines(gr), NEW T, NEW D, GateFits(gr, ValuesIn(gr, T), g)
  PROVE  GateTells(gr, f, T, D, g) <=> FlippedFit(gr, first, f, ValuesIn(gr, T), D, g)
<1>0. Walkable(gr, rank)
  BY DEF Chained
<1>1. PICK w : w = ValuesIn(gr, T)
  OBVIOUS
<1>2. PICK n : n = Size(gr, g)
  OBVIOUS
<1>3. PICK is : is = gr.gates[g].inputs
  OBVIOUS
<1>4. PICK pins : pins = FlippedPins(gr, f, w, D, g)
  OBVIOUS
<1>5. PICK ex : ex = gr.gates[g].expanded
  OBVIOUS
<1>6. /\ n \in Nat /\ n >= 1 /\ DOMAIN is = 1 .. n /\ Len(is) = n
      /\ \A k \in 1 .. n : is[k] \in DOMAIN gr.lines
  BY <1>0, <1>2, <1>3, GateShape, NamedAreLines DEF Size
<1>7. /\ pins \in Seq(Bits) /\ Len(pins) = n
      /\ \A k \in 1 .. n : pins[k] = Flip(BitIn(T, is[k]), Side(f, g, is[k], k) \in D)
  BY <1>0, <1>1, <1>2, <1>3, <1>4, <1>6, FlippedAreBits
<1>8. \A k \in DOMAIN ex : LinkKnown(gr, ex[k]) /\ LinkHolds(T, ex[k])
  BY <1>5, LinksAreSmall, BaseLinks
<1>9. \A l \in DOMAIN gr.lines : w[l] = BitIn(T, l) /\ w[l] \in Bits
  BY <1>1, ValuesInAre
<1>10. GateTells(gr, f, T, D, g) <=> \A k \in DOMAIN ex : LinkTells(gr, f, T, D, g, k)
  BY <1>5 DEF GateTells
<1>11. ASSUME NEW k \in DOMAIN ex
       PROVE  LinkTells(gr, f, T, D, g, k) <=>
                Flipped(w, D, ex[k].output)
                  = Link2(ex[k].type,
                          Flip(BitIn(T, ex[k].inputs[1]), XSide(gr, f, g, k) \in D),
                          Flip(BitIn(T, ex[k].inputs[Len(ex[k].inputs)]), YSide(gr, f, g, k) \in D))
  <2>1. PICK e : e = ex[k]
    OBVIOUS
  <2>2. LinkKnown(gr, e) /\ LinkHolds(T, e)
    BY <1>8, <2>1
  <2>3. PICK x : x = BitIn(T, e.inputs[1])
    OBVIOUS
  <2>4. PICK y : y = BitIn(T, e.inputs[Len(e.inputs)])
    OBVIOUS
  <2>5. PICK z : z = w[e.output]
    OBVIOUS
  <2>6. x \in Bits /\ y \in Bits
    BY <2>3, <2>4 DEF BitIn, BitOf, Bits
  <2>7. e.type \in GateTypes /\ e.output \in DOMAIN gr.lines
    BY <2>2 DEF LinkKnown, SmallLink
  <2>8. z \in Bits /\ z = Link2(e.type, x, y)
    BY <1>9, <2>2, <2>3, <2>4, <2>5, <2>7 DEF LinkHolds
  <2>9. PICK a : a = (XSide(gr, f, g, k) \in D)
    OBVIOUS
  <2>10. PICK b : b = (YSide(gr, f, g, k) \in D)
    OBVIOUS
  <2>11. PICK p \in BOOLEAN : p <=> e.output \in D
    <3>1. CASE e.output \in D
      <4> WITNESS TRUE \in BOOLEAN
      <4> QED BY <3>1
    <3>2. CASE e.output \notin D
      <4> WITNESS FALSE \in BOOLEAN
      <4> QED BY <3>2
    <3> QED BY <3>1, <3>2
  <2>12. PICK type : type = e.type
    OBVIOUS
  <2>13. (p <=> Link2(type, x, y) # Link2(type, Flip(x, a), Flip(y, b)))
           <=> Flip(z, p) = Link2(type, Flip(x, a), Flip(y, b))
    BY <2>6, <2>7, <2>8, <2>12, TellsFits
  <2>14. LinkTells(gr, f, T, D, g, k)
           <=> (p <=> Link2(type, x, y) # Link2(type, Flip(x, a), Flip(y, b)))
    BY <1>5, <2>1, <2>3, <2>4, <2>9, <2>10, <2>11, <2>12 DEF LinkTells
  <2>15. Flipped(w, D, e.output) = Flip(z, p)
    BY <2>5, <2>11 DEF Flipped
  <2> QED BY <2>1, <2>3, <2>4, <2>9, <2>10, <2>12, <2>13, <2>14, <2>15
<1>12. CASE n <= 2
  <2>1. /\ DOMAIN ex = {1} /\ ex[1].type = gr.gates[g].type
        /\ ex[1].inputs = is /\ ex[1].output = gr.gates[g].output
    BY <1>2, <1>3, <1>5, <1>12, ChainShape
  <2>2. 1 \in 1 .. n /\ n \in 1 .. n
    BY <1>6
  <2>3. XSide(gr, f, g, 1) = Side(f, g, is[1], 1)
    <3>1. (IF n > 1 THEN n - 1 ELSE 1) = 1
      BY <1>6, <1>12
    <3> QED BY <1>2, <1>5, <2>1, <3>1 DEF XSide
  <2>4. YSide(gr, f, g, 1) = Side(f, g, is[n], n)
    <3>1. (IF n > 1 THEN n - 1 + 1 ELSE 1) = n
      BY <1>6, <1>12
    <3> QED BY <1>2, <1>5, <1>6, <2>1, <3>1 DEF YSide
  <2>5. LinkTells(gr, f, T, D, g, 1) <=>
          Flipped(w, D, gr.gates[g].output) = Link2(gr.gates[g].type, pins[1], pins[n])
    BY <1>6, <1>7, <1>11, <2>1, <2>2, <2>3, <2>4
  <2>6. N!CalValue(gr.gates[g].type, pins) = Link2(gr.gates[g].type, pins[1], pins[n])
    <3>1. PICK t : t = gr.gates[g].type
      OBVIOUS
    <3>2. t \in GateTypes /\ ArityOk(t, Len(pins)) /\ Len(pins) <= 2
      BY <1>0, <1>2, <1>7, <1>12, <3>1, GateShape DEF Size
    <3>3. N!CalValue(t, pins) = Link2(t, pins[1], pins[Len(pins)])
      BY <1>7, <3>2, SmallGate
    <3> QED BY <1>7, <3>1, <3>3
  <2>7. 1 .. n - 2 = {}
    BY <1>6, <1>12
  <2>8. GateTells(gr, f, T, D, g) <=> LinkTells(gr, f, T, D, g, 1)
    BY <1>10, <2>1
  <2> QED BY <1>1, <1>2, <1>4, <2>5, <2>6, <2>7, <2>8 DEF FlippedFit
<1>13. CASE n > 2
  <2>1. /\ gr.gates[g].type \in {"AND", "NAND", "OR", "NOR"} /\ DOMAIN ex = 1 .. n - 1
        /\ \A k \in 1 .. n - 1 : LinkShaped(gr, first, g, k)
    BY <1>2, <1>5, <1>13, ChainShape
  <2>2. PICK made : made = [j \in 1 .. n - 2 |-> Flipped(w, D, MadeLine(first, g, j))]
    OBVIOUS
  <2>3. PICK z : z = Flipped(w, D, gr.gates[g].output)
    OBVIOUS
  <2>4. \A j \in 1 .. n - 2 : /\ made[j] = Flipped(w, D, MadeLine(first, g, j))
                             /\ MadeLine(first, g, j) \in DOMAIN gr.lines \ NamedLines(gr)
    BY <1>2, <2>2, MadeLines
  <2>5. PICK type : type = gr.gates[g].type
    OBVIOUS
  <2>6. ASSUME NEW k \in 1 .. n - 1
        PROVE  LinkTells(gr, f, T, D, g, k) <=> LinkFits(type, pins, made, z, k)
    <3>1. PICK e : e = ex[k]
      OBVIOUS
    <3>2. /\ e.type = (IF k = n - 1 THEN type ELSE InnerType(type))
          /\ Len(e.inputs) = 2
          /\ e.inputs[1] = is[n - k]
          /\ e.inputs[2] = LowerLine(gr, first, g, k)
          /\ e.output = LinkOutput(gr, first, g, k)
      BY <1>2, <1>3, <1>5, <2>1, <2>5, <2>6, <3>1 DEF LinkShaped
    <3>3. n - k \in 1 .. n /\ n \in 1 .. n /\ n > 1 /\ k \in Nat
      BY <1>6, <2>6
    <3>4. XSide(gr, f, g, k) = Side(f, g, is[n - k], n - k)
      BY <1>2, <1>5, <3>1, <3>2, <3>3 DEF XSide
    <3>5. Flip(BitIn(T, e.inputs[1]), XSide(gr, f, g, k) \in D) = pins[n - k]
      BY <1>7, <3>2, <3>3, <3>4
    <3>6. YSide(gr, f, g, k) = Side(f, g, e.inputs[2], n - k + 1)
      BY <1>2, <1>5, <3>1, <3>2, <3>3 DEF YSide
    <3>7. Flip(BitIn(T, e.inputs[2]), YSide(gr, f, g, k) \in D) = Below(pins, made, k)
      <4>1. CASE k = 1
        <5>1. n - k + 1 = n
          BY <1>6, <4>1
        <5>2. e.inputs[2] = is[n]
          BY <1>2, <1>3, <3>2, <4>1 DEF LowerLine
        <5>3. YSide(gr, f, g, k) = Side(f, g, is[n], n)
          BY <3>6, <5>1, <5>2
        <5>4. Below(pins, made, k) = pins[n]
          BY <1>7, <4>1 DEF Below
        <5> QED BY <1>7, <3>3, <5>2, <5>3, <5>4
      <4>2. CASE k # 1
        <5>1. k - 1 \in 1 .. n - 2
          BY <1>6, <2>6, <4>2
        <5>2. PICK l : l = MadeLine(first, g, k - 1)
          OBVIOUS
        <5>3. l \in DOMAIN gr.lines /\ l \notin NamedLines(gr) /\ made[k - 1] = Flipped(w, D, l)
          BY <2>4, <5>1, <5>2
        <5>4. e.inputs[2] = l
          BY <3>2, <4>2, <5>2 DEF LowerLine
        <5>5. YSide(gr, f, g, k) = l
          BY <3>6, <5>3, <5>4 DEF Side, ReadsSpec
        <5>6. made[k - 1] = Flip(BitIn(T, l), l \in D)
          BY <1>9, <5>3 DEF Flipped
        <5> QED BY <4>2, <5>4, <5>5, <5>6 DEF Below
      <4> QED BY <4>1, <4>2
    <3>8. Flipped(w, D, e.output) = IF k = n - 1 THEN z ELSE made[k]
      <4>1. k # n - 1 => k \in 1 .. n - 2
        BY <1>6, <2>6
      <4>2. k # n - 1 => made[k] = Flipped(w, D, MadeLine(first, g, k))
        BY <2>4, <4>1
      <4> QED BY <1>2, <2>3, <3>2, <4>2 DEF LinkOutput
    <3>9. k \in DOMAIN ex
      BY <2>1, <2>6
    <3>10. LinkTells(gr, f, T, D, g, k) <=>
             Flipped(w, D, e.output) = Link2(e.type, pins[n - k], Below(pins, made, k))
      BY <1>11, <3>1, <3>2, <3>5, <3>7, <3>9
    <3>11. Len(pins) = n
      BY <1>7
    <3> QED BY <3>2, <3>8, <3>10, <3>11 DEF LinkFits
  <2>7. type \in {"AND", "NAND", "OR", "NOR"} /\ Len(pins) > 2
    BY <1>7, <1>13, <2>1, <2>5
  <2>8. LinksFit(type, pins, made, z) <=> ChainJoins(type, pins, made, z)
    BY <1>7, <2>7, ChainMeans
  <2>9. GateTells(gr, f, T, D, g) <=> LinksFit(type, pins, made, z)
    BY <1>7, <1>10, <2>1, <2>6 DEF LinksFit
  <2>10. ChainJoins(type, pins, made, z) <=> FlippedFit(gr, first, f, w, D, g)
    BY <1>2, <1>4, <1>7, <2>3, <2>4, <2>5 DEF ChainJoins, FlippedFit
  <2> QED BY <1>1, <2>8, <2>9, <2>10
<1> QED BY <1>6, <1>12, <1>13

------------------------------------------------------------------------------
\* A fault of the circuit, the gates gs it can reach, and those of the circuit part.
Setting(gr, rank, first, f, gs, gb, fc) ==
  /\ Chained(gr, rank, first) /\ FaultShape(gr, f)
  /\ ConeSound(gr, f, gs, fc) /\ BaseSound(gr, gb, fc)

LEMMA SettingFacts ==
  ASSUME NEW gr, NEW rank, NEW first, NEW f, NEW gs, NEW gb, NEW fc,
         Setting(gr, rank, first, f, gs, gb, fc)
  PROVE  /\ Walkable(gr, rank) /\ ConeFacts(gr, f, gs)
         /\ gs \subseteq gb /\ gb \subseteq DOMAIN gr.gates /\ Known(gr, gb, f.line)
         /\ f.line \in NamedLines(gr) /\ f.line # 0 /\ f.stuck_at \in Bits
         /\ StuckIsBit(gr, f) /\ StuckIsBit(gr, Healthy)
<1>1. Walkable(gr, rank)
  BY DEF Setting, Chained
<1>2. ConeFacts(gr, f, gs)
  BY <1>1, ConeFactsHold DEF Setting
<1>3. gs \subseteq gb /\ gb \subseteq DOMAIN gr.gates /\ Known(gr, gb, f.line)
  BY BaseCovers, SMTT(30) DEF Setting, BaseSound
<1>4. f.line \in NamedLines(gr) /\ f.stuck_at \in Bits
  BY DEF Setting, FaultShape
<1>5. f.line # 0
  BY <1>1, <1>4, LineShape
<1>6. 0 \notin NamedLines(gr)
  BY <1>1, LineShape
<1> QED BY <1>1, <1>2, <1>3, <1>4, <1>5, <1>6 DEF StuckIsBit, Healthy

\* A named line is an output of the gates in gs iff one of them drives it.
LEMMA NamedOutputs ==
  ASSUME NEW gr, NEW rank, NEW first, Chained(gr, rank, first), NEW gs \in SUBSET DOMAIN gr.gates,
         NEW l \in NamedLines(gr)
  PROVE  /\ l \in OutputsOf(gr, gs) <=> gr.lines[l].source \in gs
         /\ gr.lines[l].source \in gs => gr.lines[l].source # NoGate
<1>1. Walkable(gr, rank)
  BY DEF Chained
<1>2. \A g \in gs : LinkLines(gr, g) /\ g # NoGate
  BY <1>1, LinkLinesAre, GateShape DEF NoGate
<1>3. ASSUME l \in OutputsOf(gr, gs)
      PROVE  gr.lines[l].source \in gs
  <2>1. PICK g \in gs : l \in LinkOutputs(gr, g)
    BY <1>3 DEF OutputsOf
  <2>2. l = gr.gates[g].output
    BY <1>2, <2>1 DEF LinkLines
  <2> QED BY <1>1, <2>2, GateShape
<1>4. ASSUME gr.lines[l].source \in gs
      PROVE  l \in OutputsOf(gr, gs)
  <2>1. PICK g \in gs : g = gr.lines[l].source
    BY <1>4
  <2>2. gr.gates[g].output = l
    BY <1>1, <1>2, <2>1, LineShape
  <2>3. l \in LinkOutputs(gr, g)
    BY <1>2, <2>2 DEF LinkLines
  <2> QED BY <2>3 DEF OutputsOf
<1> QED BY <1>2, <1>3, <1>4

\* Without a fault the pins have the values of their lines.
LEMMA HealthyPins ==
  ASSUME NEW gr, NEW rank, Walkable(gr, rank), NEW g \in DOMAIN gr.gates, NEW val
  PROVE  PinsUnder(gr, Healthy, val, g) = PinsIn(gr, val, g)
<1>1. \A k \in DOMAIN gr.gates[g].inputs : gr.gates[g].inputs[k] # 0
  BY GateShape, LineShape
<1> QED BY <1>1 DEF PinsUnder, PinsIn, Seen, Healthy

\* The value of a line that a gate drives.
LEMMA DrivenValue ==
  ASSUME NEW gr, NEW rank, Walkable(gr, rank), NEW v, NEW F, NEW val, HasValues(gr, v, F, val),
         NEW g \in DOMAIN gr.gates
  PROVE  /\ val[gr.gates[g].output]
              = N!CalValue(gr.gates[g].type, PinsUnder(gr, F, val, g))
         /\ gr.gates[g].output \in NamedLines(gr)
<1>1. gr.gates[g].output \in NamedLines(gr) /\ gr.lines[gr.gates[g].output].source = g /\ g # NoGate
  BY GateShape DEF NoGate
<1> QED BY <1>1 DEF HasValues, ValueOf

LEMMA GoodIsRead ==
  ASSUME NEW gr, NEW rank, NEW first, Chained(gr, rank, first), NEW gb \in SUBSET DOMAIN gr.gates,
         \A g \in gb : \A k \in DOMAIN gr.gates[g].inputs : Known(gr, gb, gr.gates[g].inputs[k]),
         NEW T, BaseSays(gr, gb, T), NEW v, VectorOf(gr, v, T),
         NEW good, HasValues(gr, v, Healthy, good)
  PROVE  \A l \in NamedLines(gr) : Known(gr, gb, l) => good[l] = BitIn(T, l)
<1>1. Walkable(gr, rank)
  BY DEF Chained
<1>2. PICK w : w = ValuesIn(gr, T)
  OBVIOUS
<1>3. \A l \in DOMAIN gr.lines : w[l] = BitIn(T, l) /\ w[l] \in Bits
  BY <1>2, ValuesInAre
<1>4. PICK B : B = {l \in NamedLines(gr) : Known(gr, gb, l) => good[l] = w[l]}
  OBVIOUS
<1>5. ASSUME NEW l \in NamedLines(gr),
             gr.lines[l].source # NoGate =>
               \A k \in DOMAIN gr.gates[gr.lines[l].source].inputs :
                 gr.gates[gr.lines[l].source].inputs[k] \in B
      PROVE  l \in B
  <2>1. SUFFICES ASSUME Known(gr, gb, l)
                 PROVE  good[l] = w[l]
    BY <1>4
  <2>2. l \in DOMAIN gr.lines /\ (l \in Range(gr.ins) <=> gr.lines[l].source = NoGate)
    BY <1>1, LineShape
  <2>3. CASE gr.lines[l].source = NoGate
    <3>1. good[l] = v[l]
      BY <2>3 DEF HasValues, ValueOf
    <3>2. v[l] = BitIn(T, l)
      BY <2>2, <2>3 DEF VectorOf
    <3> QED BY <1>3, <2>2, <3>1, <3>2
  <2>4. CASE gr.lines[l].source # NoGate
    <3>1. PICK g : g = gr.lines[l].source
      OBVIOUS
    <3>2. g \in gb
      BY <2>1, <2>4, <3>1 DEF Known
    <3>3. gr.gates[g].output = l
      BY <1>1, <2>4, <3>1, LineShape
    <3>4. good[l] = N!CalValue(gr.gates[g].type, PinsIn(gr, good, g))
      BY <1>1, <3>2, <3>3, DrivenValue, HealthyPins
    <3>5. PinsIn(gr, good, g) = PinsIn(gr, w, g)
      <4>1. \A k \in DOMAIN gr.gates[g].inputs :
              good[gr.gates[g].inputs[k]] = w[gr.gates[g].inputs[k]]
        BY <1>4, <1>5, <2>4, <3>1, <3>2
      <4> QED BY <4>1 DEF PinsIn
    <3>6. ChainValues(gr, first, w, g, PinsIn(gr, w, g))
      BY <1>2, <1>3, <3>2, GateMeans DEF BaseSays
    <3> QED BY <3>3, <3>4, <3>5, <3>6 DEF ChainValues
  <2> QED BY <2>3, <2>4
<1>6. NamedLines(gr) \subseteq B
  BY <1>1, <1>5, LineInduction
<1> QED BY <1>3, <1>4, <1>6, NamedAreLines

\* The fault F shows at input k of gate g, which reads line l.
Shown(F, l, g, k) == l = F.line /\ (F.is_stem \/ F.connection = [gate |-> g, idx |-> k])

\* Without the gates the fault can reach nothing changes.
LEMMA OutsideSame ==
  ASSUME NEW gr, NEW rank, NEW first, NEW f, NEW gs, NEW gb, NEW fc,
         Setting(gr, rank, first, f, gs, gb, fc), NEW v,
         NEW good, HasValues(gr, v, Healthy, good),
         NEW F, F = f \/ F = Healthy, NEW val, HasValues(gr, v, F, val)
  PROVE  \A l \in NamedLines(gr) : l \notin OutputsOf(gr, gs) => val[l] = good[l]
<1>1. /\ Walkable(gr, rank) /\ ConeFacts(gr, f, gs) /\ gs \subseteq DOMAIN gr.gates
      /\ Chained(gr, rank, first)
  BY SettingFacts DEF Setting
<1>2. PICK B : B = {l \in NamedLines(gr) : l \notin OutputsOf(gr, gs) => val[l] = good[l]}
  OBVIOUS
<1>3. ASSUME NEW l \in NamedLines(gr),
             gr.lines[l].source # NoGate =>
               \A k \in DOMAIN gr.gates[gr.lines[l].source].inputs :
                 gr.gates[gr.lines[l].source].inputs[k] \in B
      PROVE  l \in B
  <2>1. SUFFICES ASSUME l \notin OutputsOf(gr, gs)
                 PROVE  val[l] = good[l]
    BY <1>2
  <2>2. CASE gr.lines[l].source = NoGate
    BY <2>2 DEF HasValues, ValueOf
  <2>3. CASE gr.lines[l].source # NoGate
    <3>1. PICK g : g = gr.lines[l].source
      OBVIOUS
    <3>2. g \notin gs /\ g \in DOMAIN gr.gates /\ gr.gates[g].output = l
      BY <1>1, <2>1, <2>3, <3>1, NamedOutputs, LineShape
    <3>3. ASSUME NEW k \in DOMAIN gr.gates[g].inputs, NEW m, m = gr.gates[g].inputs[k]
          PROVE  Seen(F, m, F.connection = [gate |-> g, idx |-> k], val) = good[m]
      <4>1. m \in NamedLines(gr) /\ m # 0
        BY <1>1, <3>2, <3>3, GateShape, LineShape
      <4>2. m \notin OutputsOf(gr, gs)
        <5>1. SUFFICES ASSUME m \in OutputsOf(gr, gs)
                       PROVE  FALSE
          OBVIOUS
        <5>2. PICK h \in gs : h = gr.lines[m].source
          BY <1>1, <4>1, <5>1, NamedOutputs
        <5>3. gr.gates[h].output = m
          BY <1>1, <4>1, <5>1, <5>2, NamedOutputs, LineShape
        <5> QED BY <1>1, <3>2, <3>3, <5>3 DEF ConeFacts
      <4>3. val[m] = good[m]
        BY <1>2, <1>3, <2>3, <3>1, <3>3, <4>2
      <4>4. ~(m = F.line /\ (F.is_stem \/ F.connection = [gate |-> g, idx |-> k]))
        <5>1. CASE F = Healthy
          BY <4>1, <5>1 DEF Healthy
        <5>2. CASE F = f
          BY <1>1, <3>2, <3>3, <5>2 DEF ConeFacts
        <5> QED BY <5>1, <5>2
      <4> QED BY <4>3, <4>4 DEF Seen
    <3>4. PinsUnder(gr, F, val, g) = PinsIn(gr, good, g)
      BY <3>3 DEF PinsUnder, PinsIn
    <3>5. val[l] = N!CalValue(gr.gates[g].type, PinsUnder(gr, F, val, g))
      BY <1>1, <3>2, DrivenValue
    <3>6. good[l] = N!CalValue(gr.gates[g].type, PinsIn(gr, good, g))
      BY <1>1, <3>2, DrivenValue, HealthyPins
    <3> QED BY <3>4, <3>5, <3>6
  <2> QED BY <2>2, <2>3
<1>4. NamedLines(gr) \subseteq B
  BY <1>1, <1>3, LineInduction
<1> QED BY <1>2, <1>4

\* The faulty branch's gate reads the fault's line by another input too.
Again(gr, f) ==
  Cardinality({d \in Range(gr.lines[f.line].dests) : d.gate = f.connection.gate}) >= 2

\* The lines of the boundary scan, SpecLine for the other branches.
QuietLines(gr, f, gs) ==
  {IF l = f.line THEN SpecLine ELSE l : l \in UNION {Around(gr, f, g, Inside(gr, f, gs)) : g \in gs}}
  \cup IF ~f.is_stem /\ Again(gr, f) THEN {SpecLine} ELSE {}

\* What the formula says before the presentation, of the values T and the lines D
\* that differ.
Differs(gr, f, gs, gb, T, D) ==
  /\ BaseSays(gr, gb, T)
  /\ \A g \in gs : GateTells(gr, f, T, D, g)
  /\ f.line \in D /\ BitIn(T, f.line) = 1 - f.stuck_at
  /\ \A l \in QuietLines(gr, f, gs) : l \notin D

LEMMA TwoDests ==
  ASSUME NEW gr, NEW rank, Walkable(gr, rank), NEW f, f.line \in NamedLines(gr),
         NEW c \in Range(gr.lines[f.line].dests), NEW d \in Range(gr.lines[f.line].dests),
         c # d, c.gate = f.connection.gate, d.gate = f.connection.gate
  PROVE  Again(gr, f)
<1>1. PICK ds : ds = gr.lines[f.line].dests
  OBVIOUS
<1>2. Len(ds) \in Nat /\ DOMAIN ds = 1 .. Len(ds)
  BY <1>1, LineDests
<1>3. IsFiniteSet(Range(ds))
  <2>1. IsFiniteSet({ds[k] : k \in 1 .. Len(ds)})
    <3>1. PICK I : I = 1 .. Len(ds)
      OBVIOUS
    <3>2. IsFiniteSet(I)
      BY <1>2, <3>1, FS_Interval
    <3> QED BY <3>1, <3>2, FiniteValues
  <2>2. Range(ds) = {ds[k] : k \in 1 .. Len(ds)}
    BY <1>2 DEF Range
  <2> QED BY <2>1, <2>2
<1>4. PICK S : S = {e \in Range(ds) : e.gate = f.connection.gate}
  OBVIOUS
<1>5. IsFiniteSet(S)
  BY <1>3, <1>4, FS_Subset
<1>6. c \in S /\ d \in S
  BY <1>1, <1>4
<1>7. IsFiniteSet({c}) /\ Cardinality({c}) = 1
  BY FS_Singleton
<1>8. IsFiniteSet({c} \cup {d}) /\ Cardinality({c} \cup {d}) = 2
  <2>1. PICK U : U = {c}
    OBVIOUS
  <2>2. IsFiniteSet(U) /\ Cardinality(U) = 1 /\ d \notin U
    BY <1>7, <2>1
  <2>3. IsFiniteSet(U \cup {d}) /\ Cardinality(U \cup {d}) = Cardinality(U) + 1
    BY <2>2, FS_AddElement
  <2> QED BY <2>1, <2>2, <2>3
<1>9. {c} \cup {d} \subseteq S
  BY <1>6
<1>10. Cardinality({c} \cup {d}) <= Cardinality(S)
  BY <1>5, <1>9, FS_Subset
<1>11. Cardinality(S) \in Nat
  BY <1>5, FS_CardinalityType
<1> QED BY <1>1, <1>4, <1>8, <1>10, <1>11 DEF Again

\* The fault whose effect D describes: none if D has the other branches of a stem
\* as they were.
Effective(f, D) ==
  IF f.is_stem /\ f.connection = NoConnection /\ SpecLine \notin D THEN Healthy ELSE f

LEMMA PinTells ==
  ASSUME NEW gr, NEW rank, NEW first, NEW f, NEW gs, NEW gb, NEW fc,
         Setting(gr, rank, first, f, gs, gb, fc), NEW T, NEW D,
         f.line \in D, \A l \in QuietLines(gr, f, gs) : l \notin D,
         NEW g \in gs, NEW k \in DOMAIN gr.gates[g].inputs, NEW l, l = gr.gates[g].inputs[k]
  PROVE  Side(f, g, l, k) \in D <=>
           IF l = f.line THEN Shown(Effective(f, D), l, g, k)
           ELSE l \in OutputsOf(gr, gs) /\ l \in D
<1>1. /\ Walkable(gr, rank) /\ ConeFacts(gr, f, gs) /\ g \in DOMAIN gr.gates
      /\ Chained(gr, rank, first) /\ FaultShape(gr, f) /\ f.line # 0
      /\ f.line \in NamedLines(gr)
  BY SettingFacts DEF Setting
<1>2. l \in LinkInputs(gr, g)
  BY <1>1, LinkLinesAre DEF LinkLines
<1>3. PICK quiet : quiet = QuietLines(gr, f, gs)
  OBVIOUS
<1>4. /\ \A m \in Around(gr, f, g, Inside(gr, f, gs)) :
           (IF m = f.line THEN SpecLine ELSE m) \in quiet
      /\ ~f.is_stem /\ Again(gr, f) => SpecLine \in quiet
  BY <1>3 DEF QuietLines
<1>5. \A m \in quiet : m \notin D
  BY <1>3
<1>6. CASE l # f.line
  <2>1. Side(f, g, l, k) = l
    BY <1>6 DEF Side, ReadsSpec
  <2>2. ASSUME l \notin OutputsOf(gr, gs)
        PROVE  l \notin D
    <3>1. l \notin Inside(gr, f, gs)
      BY <1>6, <2>2 DEF Inside
    <3>2. l \in Around(gr, f, g, Inside(gr, f, gs))
      BY <1>2, <3>1 DEF Around
    <3> QED BY <1>4, <1>5, <1>6, <3>2
  <2> QED BY <1>6, <2>1, <2>2
<1>7. CASE l = f.line /\ f.connection = [gate |-> g, idx |-> k]
  <2>1. f.connection # NoConnection
    <3>1. g # NoGate
      BY <1>1, GateShape DEF NoGate
    <3>2. f.connection.gate = g
      BY <1>7
    <3> QED BY <3>1, <3>2 DEF NoConnection
  <2>2. Effective(f, D) = f
    BY <2>1 DEF Effective
  <2>3. Side(f, g, l, k) = l
    BY <1>7 DEF Side, ReadsSpec
  <2> QED BY <1>7, <2>2, <2>3 DEF Shown
<1>8. CASE l = f.line /\ f.connection # [gate |-> g, idx |-> k] /\ f.is_stem
  <2>1. f.connection = NoConnection
    BY <1>1, <1>8 DEF ConeFacts
  <2>2. Side(f, g, l, k) = SpecLine
    BY <1>8 DEF Side, ReadsSpec
  <2>3. CASE SpecLine \in D
    BY <1>8, <2>2, <2>3 DEF Effective, Shown
  <2>4. CASE SpecLine \notin D
    <3>1. Effective(f, D) = Healthy
      BY <1>8, <2>1, <2>4 DEF Effective
    <3>2. ~Shown(Healthy, l, g, k)
      BY <1>1, <1>8 DEF Shown, Healthy
    <3> QED BY <1>8, <2>2, <2>4, <3>1, <3>2
  <2> QED BY <2>3, <2>4
<1>9. CASE l = f.line /\ f.connection # [gate |-> g, idx |-> k] /\ ~f.is_stem
  <2>1. Side(f, g, l, k) = SpecLine
    BY <1>9 DEF Side, ReadsSpec
  <2>2. Effective(f, D) = f /\ ~Shown(f, l, g, k)
    BY <1>9 DEF Effective, Shown
  <2>3. SpecLine \in quiet
    <3>1. CASE g # f.connection.gate \/ Len(gr.gates[g].inputs) > 2
      <4>1. f.line \in Around(gr, f, g, Inside(gr, f, gs))
        BY <1>2, <1>9, <3>1 DEF Around
      <4> QED BY <1>4, <4>1
    <3>2. CASE g = f.connection.gate
      <4>1. [gate |-> g, idx |-> k] \in Range(gr.lines[f.line].dests)
        BY <1>1, <1>9, ReadersAre
      <4>2. ~f.is_primary_output
        <5>1. g # NoGate
          BY <1>1, GateShape DEF NoGate
        <5>2. f.is_primary_output => f.connection.gate = NoGate
          BY <1>1 DEF FaultShape, NoConnection
        <5> QED BY <3>2, <5>1, <5>2
      <4>3. f.connection \in Range(gr.lines[f.line].dests)
        BY <1>1, <1>9, <4>2 DEF FaultShape
      <4>4. PICK d : d = [gate |-> g, idx |-> k]
        OBVIOUS
      <4>5. PICK c : c = f.connection
        OBVIOUS
      <4>6. Again(gr, f)
        BY <1>1, <1>9, <3>2, <4>1, <4>3, <4>4, <4>5, TwoDests
      <4> QED BY <1>4, <1>9, <4>6
    <3> QED BY <3>1, <3>2
  <2> QED BY <1>5, <1>9, <2>1, <2>2, <2>3
<1> QED BY <1>6, <1>7, <1>8, <1>9

LEMMA EffectiveIs ==
  ASSUME NEW gr, NEW f, FaultShape(gr, f), NEW D
  PROVE  /\ Effective(f, D) = f \/ Effective(f, D) = Healthy
         /\ \A l, g, k : Shown(Effective(f, D), l, g, k) =>
              l = Effective(f, D).line
BY DEF Effective, Shown

\* What the pins of a gate see under the fault D describes, given the values of
\* the lines it reads.
LEMMA PinFlips ==
  ASSUME NEW gr, NEW rank, NEW first, NEW f, NEW gs, NEW gb, NEW fc,
         Setting(gr, rank, first, f, gs, gb, fc), NEW T, NEW D,
         f.line \in D, \A l \in QuietLines(gr, f, gs) : l \notin D,
         BitIn(T, f.line) = 1 - f.stuck_at,
         NEW g \in gs, NEW val,
         \A k \in DOMAIN gr.gates[g].inputs : gr.gates[g].inputs[k] = f.line =>
           val[f.line] = BitIn(T, f.line),
         \A k \in DOMAIN gr.gates[g].inputs : gr.gates[g].inputs[k] # f.line =>
           val[gr.gates[g].inputs[k]]
             = Flip(BitIn(T, gr.gates[g].inputs[k]),
                    gr.gates[g].inputs[k] \in OutputsOf(gr, gs) /\ gr.gates[g].inputs[k] \in D)
  PROVE  PinsUnder(gr, Effective(f, D), val, g) = FlippedPins(gr, f, ValuesIn(gr, T), D, g)
<1>1. /\ Walkable(gr, rank) /\ g \in DOMAIN gr.gates /\ f.line # 0 /\ f.stuck_at \in Bits
      /\ FaultShape(gr, f)
  BY SettingFacts DEF Setting
<1>2. PICK F : F = Effective(f, D)
  OBVIOUS
<1>3. F = f \/ F = Healthy
  BY <1>1, <1>2, EffectiveIs
<1>4. ASSUME NEW k \in DOMAIN gr.gates[g].inputs, NEW l, l = gr.gates[g].inputs[k]
      PROVE  Seen(F, l, F.connection = [gate |-> g, idx |-> k], val)
               = Flip(ValuesIn(gr, T)[l], Side(f, g, l, k) \in D)
  <2>1. l \in NamedLines(gr) /\ l # 0 /\ ValuesIn(gr, T)[l] = BitIn(T, l)
    BY <1>1, <1>4, GateShape, LineShape, ValuesInAre
  <2>2. Side(f, g, l, k) \in D <=>
          IF l = f.line THEN Shown(F, l, g, k) ELSE l \in OutputsOf(gr, gs) /\ l \in D
    BY <1>2, <1>4, PinTells
  <2>3. Seen(F, l, F.connection = [gate |-> g, idx |-> k], val)
          = IF Shown(F, l, g, k) THEN F.stuck_at ELSE val[l]
    BY DEF Seen, Shown
  <2>4. CASE l # f.line
    <3>1. ~Shown(F, l, g, k)
      BY <1>3, <2>1, <2>4 DEF Shown, Healthy
    <3>2. val[l] = Flip(BitIn(T, l), l \in OutputsOf(gr, gs) /\ l \in D)
      BY <1>4, <2>4
    <3> QED BY <2>1, <2>2, <2>3, <2>4, <3>1, <3>2 DEF Flip
  <2>5. CASE l = f.line /\ Shown(F, l, g, k)
    <3>1. F = f
      BY <1>1, <1>3, <2>5 DEF Shown, Healthy
    <3>2. Side(f, g, l, k) \in D
      BY <2>2, <2>5
    <3>3. Seen(F, l, F.connection = [gate |-> g, idx |-> k], val) = f.stuck_at
      BY <2>3, <2>5, <3>1
    <3>4. ValuesIn(gr, T)[l] = 1 - f.stuck_at
      BY <2>1, <2>5
    <3>5. 1 - (1 - f.stuck_at) = f.stuck_at
      BY <1>1 DEF Bits
    <3> QED BY <3>2, <3>3, <3>4, <3>5 DEF Flip
  <2>6. CASE l = f.line /\ ~Shown(F, l, g, k)
    <3>1. Side(f, g, l, k) \notin D
      BY <2>2, <2>6
    <3>2. val[l] = BitIn(T, l)
      BY <1>4, <2>6
    <3> QED BY <2>1, <2>3, <2>6, <3>1, <3>2 DEF Flip
  <2> QED BY <2>4, <2>5, <2>6
<1> QED BY <1>2, <1>4 DEF PinsUnder, FlippedPins

\* The formula describes the values under the effective fault.
LEMMA DescribesFault ==
  ASSUME NEW gr, NEW rank, NEW first, NEW f, NEW gs, NEW gb, NEW fc,
         Setting(gr, rank, first, f, gs, gb, fc), NEW T, NEW D,
         Differs(gr, f, gs, gb, T, D), NEW v, VectorOf(gr, v, T),
         NEW good, HasValues(gr, v, Healthy, good),
         NEW val, HasValues(gr, v, Effective(f, D), val)
  PROVE  /\ \A l \in NamedLines(gr) : Known(gr, gb, l) => good[l] = BitIn(T, l)
         /\ \A l \in NamedLines(gr) : l \in OutputsOf(gr, gs) =>
              good[l] = BitIn(T, l) /\ val[l] = Flip(good[l], l \in D)
<1>1. /\ Walkable(gr, rank) /\ ConeFacts(gr, f, gs) /\ gs \subseteq gb
      /\ gb \subseteq DOMAIN gr.gates /\ Chained(gr, rank, first) /\ FaultShape(gr, f)
      /\ Known(gr, gb, f.line) /\ f.line \in NamedLines(gr)
      /\ \A g \in gb : \A k \in DOMAIN gr.gates[g].inputs : Known(gr, gb, gr.gates[g].inputs[k])
  BY SettingFacts DEF Setting, BaseSound, Known
<1>2. \A l \in NamedLines(gr) : Known(gr, gb, l) => good[l] = BitIn(T, l)
  BY <1>1, GoodIsRead DEF Differs
<1>3. PICK F : F = Effective(f, D)
  OBVIOUS
<1>4. F = f \/ F = Healthy
  BY <1>1, <1>3, EffectiveIs
<1>5. \A l \in NamedLines(gr) : l \notin OutputsOf(gr, gs) => val[l] = good[l]
  BY <1>3, <1>4, OutsideSame
<1>6. ASSUME NEW l \in NamedLines(gr), l \in OutputsOf(gr, gs)
      PROVE  /\ gr.lines[l].source # NoGate /\ gr.lines[l].source \in gs
             /\ gr.gates[gr.lines[l].source].output = l
             /\ Known(gr, gb, l) /\ good[l] = BitIn(T, l)
  <2>1. gr.lines[l].source # NoGate /\ gr.lines[l].source \in gs
    BY <1>1, <1>6, NamedOutputs
  <2>2. gr.gates[gr.lines[l].source].output = l
    BY <1>1, <2>1, LineShape
  <2>3. Known(gr, gb, l)
    BY <1>1, <2>1 DEF Known
  <2> QED BY <1>2, <2>1, <2>2, <2>3
<1>7. PICK B : B = {l \in NamedLines(gr) :
                      l \in OutputsOf(gr, gs) => val[l] = Flip(BitIn(T, l), l \in D)}
  OBVIOUS
<1>8. ASSUME NEW l \in NamedLines(gr),
             gr.lines[l].source # NoGate =>
               \A k \in DOMAIN gr.gates[gr.lines[l].source].inputs :
                 gr.gates[gr.lines[l].source].inputs[k] \in B
      PROVE  l \in B
  <2>1. SUFFICES ASSUME l \in OutputsOf(gr, gs)
                 PROVE  val[l] = Flip(BitIn(T, l), l \in D)
    BY <1>7
  <2>2. PICK g \in gs : g = gr.lines[l].source
    BY <1>6, <2>1
  <2>3. g \in DOMAIN gr.gates /\ gr.gates[g].output = l /\ g # NoGate
    BY <1>1, <1>6, <2>1, <2>2
  <2>4. \A k \in DOMAIN gr.gates[g].inputs :
          gr.gates[g].inputs[k] \in B /\ gr.gates[g].inputs[k] \in NamedLines(gr)
            /\ Known(gr, gb, gr.gates[g].inputs[k])
    BY <1>1, <1>8, <2>2, <2>3, GateShape
  <2>5. \A k \in DOMAIN gr.gates[g].inputs : gr.gates[g].inputs[k] = f.line =>
          val[f.line] = BitIn(T, f.line)
    <3>1. f.line \notin OutputsOf(gr, gs)
      <4>1. SUFFICES ASSUME f.line \in OutputsOf(gr, gs)
                     PROVE  FALSE
        OBVIOUS
      <4> QED BY <1>1, <1>6, <4>1 DEF ConeFacts
    <3> QED BY <1>1, <1>2, <1>5, <3>1
  <2>6. \A k \in DOMAIN gr.gates[g].inputs : gr.gates[g].inputs[k] # f.line =>
          val[gr.gates[g].inputs[k]]
            = Flip(BitIn(T, gr.gates[g].inputs[k]),
                   gr.gates[g].inputs[k] \in OutputsOf(gr, gs) /\ gr.gates[g].inputs[k] \in D)
    <3>1. ASSUME NEW m, m \in B, m \in NamedLines(gr), Known(gr, gb, m)
          PROVE  val[m] = Flip(BitIn(T, m), m \in OutputsOf(gr, gs) /\ m \in D)
      BY <1>2, <1>5, <1>7, <3>1 DEF Flip
    <3> QED BY <2>4, <3>1
  <2>7. PinsUnder(gr, F, val, g) = FlippedPins(gr, f, ValuesIn(gr, T), D, g)
    BY <1>3, <2>2, <2>5, <2>6, PinFlips, SMTT(30) DEF Differs
  <2>8. FlippedFit(gr, first, f, ValuesIn(gr, T), D, g)
    <3>1. GateFits(gr, ValuesIn(gr, T), g) /\ GateTells(gr, f, T, D, g)
      BY <1>1, <2>2 DEF Differs, BaseSays
    <3> QED BY <1>1, <2>3, <3>1, GateTellsMeans
  <2>9. val[l] = N!CalValue(gr.gates[g].type, PinsUnder(gr, F, val, g))
    BY <1>1, <1>3, <2>3, DrivenValue
  <2>10. Flipped(ValuesIn(gr, T), D, l) = Flip(BitIn(T, l), l \in D)
    BY NamedAreLines, ValuesInAre DEF Flipped
  <2> QED BY <2>3, <2>7, <2>8, <2>9, <2>10 DEF FlippedFit
<1>9. NamedLines(gr) \subseteq B
  BY <1>1, <1>8, LineInduction
<1> QED BY <1>2, <1>6, <1>7, <1>9

------------------------------------------------------------------------------
\* A line tells an output from a line inside a chain, or that nobody reads.
LEMMA OutputLines ==
  ASSUME NEW gr, NEW rank, Walkable(gr, rank)
  PROVE  /\ DOMAIN gr.lines \subseteq Nat \ {0}
         /\ \A l \in DOMAIN gr.lines : gr.lines[l].is_output <=> l \in Range(gr.outs)
         /\ \A l \in DOMAIN gr.lines : gr.lines[l].is_output => l \in NamedLines(gr)
         /\ \A l \in NamedLines(gr) : Range(gr.lines[l].dests) = {} => gr.lines[l].is_output
         /\ Range(gr.outs) \subseteq NamedLines(gr)
<1>1. DOMAIN gr.lines = 1 .. Len(gr.lines) /\ Len(gr.lines) \in Nat
  BY GraphParts DEF Walkable, GraphSound
<1>2. \A l \in DOMAIN gr.lines : gr.lines[l].is_output => l \in NamedLines(gr)
  BY DEF Walkable, GraphSound, LinesSound, NamedLines
<1>3. ASSUME NEW l \in NamedLines(gr), Range(gr.lines[l].dests) = {}
      PROVE  gr.lines[l].is_output
  <2>1. PICK ds : ds = gr.lines[l].dests
    OBVIOUS
  <2>2. DOMAIN ds = 1 .. Len(ds) /\ Len(ds) \in Nat
    BY <2>1, LineDests
  <2>3. ~(Len(ds) > 0)
    <3>1. SUFFICES ASSUME Len(ds) > 0
                   PROVE  FALSE
      OBVIOUS
    <3>2. 1 \in DOMAIN ds
      BY <2>2, <3>1
    <3> QED BY <1>3, <2>1, <3>2 DEF Range
  <2> QED BY <2>1, <2>3, LineDests
<1> QED BY <1>1, <1>2, <1>3 DEF Walkable, GraphSound, OutsSound

\* The fault is seen at an output, by the values without and with it.
DetectsIn(gr, f, good, bad) ==
  \E o \in Range(gr.outs) : good[o] # Seen(f, o, f.is_primary_output, bad)

\* An assignment that satisfies the formula shows the fault.
LEMMA FormulaDetects ==
  ASSUME NEW gr, NEW rank, NEW first, NEW f, NEW gs, NEW gb, NEW fc,
         Setting(gr, rank, first, f, gs, gb, fc), NEW T, NEW D,
         Differs(gr, f, gs, gb, T, D), NEW v, VectorOf(gr, v, T),
         NEW good, HasValues(gr, v, Healthy, good), NEW bad, HasValues(gr, v, f, bad),
         NEW l \in fc.primary_outputs_inside, l \in D
  PROVE  DetectsIn(gr, f, good, bad)
<1>1. /\ Walkable(gr, rank) /\ ConeFacts(gr, f, gs) /\ FaultShape(gr, f)
      /\ Known(gr, gb, f.line) /\ f.line \in NamedLines(gr) /\ f.line # 0
      /\ f.stuck_at \in Bits /\ gs \subseteq DOMAIN gr.gates /\ Chained(gr, rank, first)
  BY SettingFacts DEF Setting
<1>2. fc.primary_outputs_inside =
        IF From(gr, f) = {} THEN {f.line} ELSE {m \in OutputsOf(gr, gs) : gr.lines[m].is_output}
  BY DEF Setting, ConeSound
<1>3. CASE From(gr, f) = {}
  <2>1. l = f.line
    BY <1>2, <1>3
  <2>2. f.is_stem \/ f.is_primary_output
    BY <1>1, <1>3 DEF From, FaultShape
  <2>3. gr.lines[l].is_output
    <3>1. CASE f.is_stem
      <4>1. DestinationGates(gr, f.line) = {}
        BY <1>3, <3>1 DEF From
      <4>2. Range(gr.lines[f.line].dests) = {}
        BY <4>1 DEF DestinationGates
      <4> QED BY <1>1, <2>1, <4>2, OutputLines
    <3>2. CASE f.is_primary_output
      BY <1>1, <2>1, <3>2 DEF FaultShape
    <3> QED BY <2>2, <3>1, <3>2
  <2>4. l \in Range(gr.outs)
    BY <1>1, <2>1, <2>3, OutputLines, NamedAreLines
  <2>5. \E val : HasValues(gr, v, Effective(f, D), val)
    <3>1. Effective(f, D) = f \/ Effective(f, D) = Healthy
      BY <1>1, EffectiveIs
    <3> QED BY <3>1
  <2>6. good[l] = 1 - f.stuck_at
    BY <1>1, <2>1, <2>5, DescribesFault DEF Differs
  <2>7. Seen(f, l, f.is_primary_output, bad) = f.stuck_at
    BY <2>1, <2>2 DEF Seen
  <2>8. 1 - f.stuck_at # f.stuck_at
    BY <1>1 DEF Bits
  <2> QED BY <2>4, <2>6, <2>7, <2>8 DEF DetectsIn
<1>4. CASE From(gr, f) # {}
  <2>1. l \in OutputsOf(gr, gs) /\ gr.lines[l].is_output
    BY <1>2, <1>4
  <2>2. l \in NamedLines(gr) /\ l \in Range(gr.outs)
    <3>1. l \in DOMAIN gr.lines
      BY <1>1, <2>1, LinkLinesAre DEF OutputsOf, LinkLines
    <3> QED BY <1>1, <2>1, <3>1, OutputLines
  <2>3. good[l] \in Bits
    BY <2>2 DEF HasValues
  <2>4. 1 - good[l] # good[l]
    BY <2>3 DEF Bits
  <2>5. CASE Effective(f, D) = Healthy
    <3>1. good[l] = Flip(good[l], l \in D)
      BY <2>1, <2>2, <2>5, DescribesFault
    <3> QED BY <2>4, <3>1 DEF Flip
  <2>6. CASE Effective(f, D) = f
    <3>1. bad[l] = Flip(good[l], l \in D)
      BY <2>1, <2>2, <2>6, DescribesFault
    <3>2. bad[l] # good[l]
      BY <2>4, <3>1 DEF Flip
    <3>3. l # f.line
      <4>1. gr.lines[l].source \in gs /\ gr.lines[l].source # NoGate
        BY <1>1, <2>1, <2>2, NamedOutputs
      <4>2. gr.gates[gr.lines[l].source].output = l
        BY <1>1, <2>2, <4>1, LineShape
      <4> QED BY <1>1, <4>1, <4>2 DEF ConeFacts
    <3> QED BY <2>2, <3>2, <3>3 DEF DetectsIn, Seen
  <2> QED BY <1>1, <2>5, <2>6, EffectiveIs
<1> QED BY <1>3, <1>4

\* The literals of the named lines in the cone tell which of them differ, if that of
\* the other branches is right.
LEMMA FormulaIsExact ==
  ASSUME NEW gr, NEW rank, NEW first, NEW f, NEW gs, NEW gb, NEW fc,
         Setting(gr, rank, first, f, gs, gb, fc), NEW T, NEW D,
         Differs(gr, f, gs, gb, T, D), f.is_stem => SpecLine \in D, NEW v, VectorOf(gr, v, T),
         NEW good, HasValues(gr, v, Healthy, good), NEW bad, HasValues(gr, v, f, bad),
         NEW l \in NamedLines(gr), l \in OutputsOf(gr, gs)
  PROVE  l \in D <=> good[l] # bad[l]
<1>1. Effective(f, D) = f
  BY DEF Effective
<1>2. bad[l] = Flip(good[l], l \in D)
  BY <1>1, DescribesFault
<1>3. good[l] \in Bits
  BY DEF HasValues
<1> QED BY <1>2, <1>3 DEF Flip, Bits

\* A fault whose line has the stuck value has no effect.
LEMMA NoEffect ==
  ASSUME NEW gr, NEW rank, NEW first, NEW f, NEW gs, NEW gb, NEW fc,
         Setting(gr, rank, first, f, gs, gb, fc), NEW v,
         NEW good, HasValues(gr, v, Healthy, good), NEW bad, HasValues(gr, v, f, bad),
         good[f.line] = f.stuck_at
  PROVE  \A l \in NamedLines(gr) : bad[l] = good[l]
<1>1. Walkable(gr, rank)
  BY SettingFacts
<1>2. PICK B : B = {l \in NamedLines(gr) : bad[l] = good[l]}
  OBVIOUS
<1>3. ASSUME NEW l \in NamedLines(gr),
             gr.lines[l].source # NoGate =>
               \A k \in DOMAIN gr.gates[gr.lines[l].source].inputs :
                 gr.gates[gr.lines[l].source].inputs[k] \in B
      PROVE  l \in B
  <2>1. CASE gr.lines[l].source = NoGate
    BY <1>2, <2>1 DEF HasValues, ValueOf
  <2>2. CASE gr.lines[l].source # NoGate
    <3>1. PICK g : g = gr.lines[l].source
      OBVIOUS
    <3>2. g \in DOMAIN gr.gates /\ gr.gates[g].output = l
      BY <1>1, <2>2, <3>1, LineShape
    <3>3. \A k \in DOMAIN gr.gates[g].inputs :
            bad[gr.gates[g].inputs[k]] = good[gr.gates[g].inputs[k]]
      BY <1>2, <1>3, <2>2, <3>1
    <3>4. PinsUnder(gr, f, bad, g) = PinsIn(gr, good, g)
      BY <3>3 DEF PinsUnder, PinsIn, Seen
    <3> QED BY <1>1, <1>2, <3>2, <3>4, DrivenValue, HealthyPins
  <2> QED BY <2>1, <2>2
<1>4. NamedLines(gr) \subseteq B
  BY <1>1, <1>3, LineInduction
<1> QED BY <1>2, <1>4

LEMMA DetectedHasOther ==
  ASSUME NEW gr, NEW rank, NEW first, NEW f, NEW gs, NEW gb, NEW fc,
         Setting(gr, rank, first, f, gs, gb, fc), NEW v,
         NEW good, HasValues(gr, v, Healthy, good), NEW bad, HasValues(gr, v, f, bad),
         DetectsIn(gr, f, good, bad)
  PROVE  good[f.line] = 1 - f.stuck_at
<1>1. Walkable(gr, rank) /\ f.line \in NamedLines(gr) /\ f.stuck_at \in Bits
  BY SettingFacts
<1>2. good[f.line] # f.stuck_at
  <2>1. SUFFICES ASSUME good[f.line] = f.stuck_at
                 PROVE  FALSE
    OBVIOUS
  <2>2. \A l \in NamedLines(gr) : bad[l] = good[l]
    BY <2>1, NoEffect
  <2>3. PICK o \in Range(gr.outs) : good[o] # Seen(f, o, f.is_primary_output, bad)
    BY DEF DetectsIn
  <2>4. o \in NamedLines(gr)
    BY <1>1, OutputLines
  <2> QED BY <2>1, <2>2, <2>3, <2>4 DEF Seen
<1>3. good[f.line] \in Bits
  BY <1>1 DEF HasValues
<1> QED BY <1>1, <1>2, <1>3 DEF Bits

\* The values of all lines without the fault, and those with it: the lines of the
\* chains join what the pins of their gates see.
FullValues(gr, first, v, F, val, w) ==
  /\ HasValues(gr, v, F, val)
  /\ w \in [DOMAIN gr.lines -> Bits]
  /\ \A l \in NamedLines(gr) : w[l] = val[l]
  /\ \A g \in DOMAIN gr.gates : \A k \in 1 .. Size(gr, g) - 2 :
       w[MadeLine(first, g, k)]
         = Joined(gr.gates[g].type, PinsUnder(gr, F, val, g), k)

LEMMA FullValuesExist ==
  ASSUME NEW gr, NEW rank, NEW first, Chained(gr, rank, first), NEW F, StuckIsBit(gr, F),
         NEW v, NEW val, HasValues(gr, v, F, val)
  PROVE  \E w : FullValues(gr, first, v, F, val, w)
<1>1. Walkable(gr, rank) /\ val \in [NamedLines(gr) -> Bits]
  BY DEF Chained, HasValues
<1>2. PICK pins : pins = [g \in DOMAIN gr.gates |-> PinsUnder(gr, F, val, g)]
  OBVIOUS
<1>3. \A g \in DOMAIN gr.gates : pins[g] = PinsUnder(gr, F, val, g)
  BY <1>2
<1>4. PinsOfAll(gr, pins)
  BY <1>1, <1>3, PinsAreBits DEF PinsOfAll, Size
<1>5. PICK made \in [DOMAIN gr.lines \ NamedLines(gr) -> Bits] : MadeJoin(gr, first, pins, made)
  BY <1>4, MadeExist
<1>6. PICK w : w = AllLines(gr, val, made)
  OBVIOUS
<1>7. /\ \A l \in NamedLines(gr) : w[l] = val[l]
      /\ \A l \in DOMAIN gr.lines \ NamedLines(gr) : w[l] = made[l]
  BY <1>6, NamedAreLines DEF AllLines
<1>8. w \in [DOMAIN gr.lines -> Bits]
  BY <1>1, <1>5, <1>6 DEF AllLines
<1>9. ASSUME NEW g \in DOMAIN gr.gates, NEW k \in 1 .. Size(gr, g) - 2
      PROVE  w[MadeLine(first, g, k)] = Joined(gr.gates[g].type, PinsUnder(gr, F, val, g), k)
  <2>1. MadeLine(first, g, k) \in DOMAIN gr.lines \ NamedLines(gr)
    BY MadeLines
  <2>2. made[MadeLine(first, g, k)] = Joined(gr.gates[g].type, pins[g], k)
    BY <1>5 DEF MadeJoin
  <2> QED BY <1>3, <1>7, <2>1, <2>2
<1> QED BY <1>7, <1>8, <1>9 DEF FullValues

\* The lines that have 1, and those that differ between w and u beside the fault's.
Ones(gr, w) == {l \in DOMAIN gr.lines : w[l] = 1}

Differing(gr, f, w, u) ==
  {l \in DOMAIN gr.lines : w[l] # u[l]} \cup {f.line} \cup IF f.is_stem THEN {SpecLine} ELSE {}

\* All values of the good and of the faulty circuit.
BothRun(gr, first, v, f, good, bad, w, u) ==
  FullValues(gr, first, v, Healthy, good, w) /\ FullValues(gr, first, v, f, bad, u)

LEMMA OnesAre ==
  ASSUME NEW gr, NEW w \in [DOMAIN gr.lines -> Bits]
  PROVE  /\ ValuesIn(gr, Ones(gr, w)) = w
         /\ \A l \in DOMAIN gr.lines : BitIn(Ones(gr, w), l) = w[l]
<1>1. \A l \in DOMAIN gr.lines : BitIn(Ones(gr, w), l) = w[l]
  BY DEF BitIn, BitOf, Ones, Bits
<1> QED BY <1>1 DEF ValuesIn

\* All gates fit the good values.
LEMMA OnesFit ==
  ASSUME NEW gr, NEW rank, NEW first, Chained(gr, rank, first), NEW v, NEW good, NEW w,
         FullValues(gr, first, v, Healthy, good, w)
  PROVE  \A g \in DOMAIN gr.gates : GateFits(gr, w, g)
<1>1. Walkable(gr, rank) /\ \A l \in DOMAIN gr.lines : w[l] \in Bits
  BY DEF Chained, FullValues
<1> SUFFICES ASSUME NEW g \in DOMAIN gr.gates
             PROVE  GateFits(gr, w, g)
  OBVIOUS
<1>2. \A k \in DOMAIN gr.gates[g].inputs : good[gr.gates[g].inputs[k]] = w[gr.gates[g].inputs[k]]
  BY <1>1, GateShape DEF FullValues
<1>3. PinsUnder(gr, Healthy, good, g) = PinsIn(gr, w, g)
  BY <1>1, <1>2, HealthyPins DEF PinsIn
<1>4. gr.gates[g].output \in NamedLines(gr)
        /\ good[gr.gates[g].output] = N!CalValue(gr.gates[g].type, PinsUnder(gr, Healthy, good, g))
  BY <1>1, DrivenValue DEF FullValues
<1>5. ChainValues(gr, first, w, g, PinsIn(gr, w, g))
  BY <1>3, <1>4 DEF ChainValues, FullValues
<1> QED BY <1>1, <1>5, GateMeans

\* Which lines differ: none outside the cone, and no other branch.
LEMMA DifferingIs ==
  ASSUME NEW gr, NEW rank, NEW first, NEW f, NEW gs, NEW gb, NEW fc,
         Setting(gr, rank, first, f, gs, gb, fc), NEW v, NEW good, NEW bad, NEW w, NEW u,
         BothRun(gr, first, v, f, good, bad, w, u)
  PROVE  /\ \A l \in NamedLines(gr) : l # f.line =>
              /\ l \in Differing(gr, f, w, u) <=> good[l] # bad[l]
              /\ l \in Differing(gr, f, w, u) => l \in OutputsOf(gr, gs)
         /\ \A l \in DOMAIN gr.lines \ NamedLines(gr) : l \in Differing(gr, f, w, u) <=> w[l] # u[l]
         /\ SpecLine \in Differing(gr, f, w, u) <=> f.is_stem
         /\ f.line \in Differing(gr, f, w, u)
<1>1. /\ Walkable(gr, rank) /\ f.line \in NamedLines(gr) /\ f.line # 0
  BY SettingFacts
<1>2. PICK D : D = Differing(gr, f, w, u)
  OBVIOUS
<1>3. DOMAIN gr.lines \subseteq Nat \ {0}
  BY <1>1, OutputLines
<1>4. \A l : l \in D <=> \/ l \in DOMAIN gr.lines /\ w[l] # u[l]
                         \/ l = f.line
                         \/ l = 0 /\ f.is_stem
  BY <1>2 DEF Differing, SpecLine
<1>5. \A l \in NamedLines(gr) : l \in DOMAIN gr.lines /\ w[l] = good[l] /\ u[l] = bad[l]
  BY NamedAreLines DEF BothRun, FullValues
<1>6. \A l \in NamedLines(gr) : l \notin OutputsOf(gr, gs) => bad[l] = good[l]
  BY OutsideSame DEF BothRun, FullValues
<1> QED BY <1>1, <1>2, <1>3, <1>4, <1>5, <1>6 DEF SpecLine

LEMMA DifferingIsQuiet ==
  ASSUME NEW gr, NEW rank, NEW first, NEW f, NEW gs, NEW gb, NEW fc,
         Setting(gr, rank, first, f, gs, gb, fc), NEW v, NEW good, NEW bad, NEW w, NEW u,
         BothRun(gr, first, v, f, good, bad, w, u),
         NEW l \in QuietLines(gr, f, gs)
  PROVE  l \notin Differing(gr, f, w, u)
<1>1. /\ Walkable(gr, rank) /\ Chained(gr, rank, first) /\ f.line \in NamedLines(gr)
      /\ gs \subseteq DOMAIN gr.gates
  BY SettingFacts DEF Setting
<1>2. CASE ~f.is_stem /\ l = SpecLine
  BY <1>2, DifferingIs
<1>3. CASE ~(~f.is_stem /\ l = SpecLine)
  <2>1. PICK g \in gs : \E n \in Around(gr, f, g, Inside(gr, f, gs)) :
                          l = IF n = f.line THEN SpecLine ELSE n
    BY <1>3 DEF QuietLines
  <2>2. PICK m \in Around(gr, f, g, Inside(gr, f, gs)) :
               l = IF m = f.line THEN SpecLine ELSE m
    BY <2>1
  <2>3. m \in LinkInputs(gr, g) /\ (m \notin Inside(gr, f, gs) \/ (m = f.line /\ ~f.is_stem))
    BY <2>2 DEF Around
  <2>4. m # f.line /\ l = m /\ m \notin OutputsOf(gr, gs)
    BY <1>3, <2>2, <2>3 DEF Inside
  <2>5. m \in NamedLines(gr)
    <3>1. m \in LinkOutputs(gr, g) => m \in OutputsOf(gr, gs)
      BY DEF OutputsOf
    <3> QED BY <1>1, <2>3, <2>4, <3>1, LinkLinesAre, GateShape DEF LinkLines
  <2> QED BY <2>4, <2>5, DifferingIs
<1> QED BY <1>2, <1>3

\* The gates of the cone tell what differs.
LEMMA DifferingIsTold ==
  ASSUME NEW gr, NEW rank, NEW first, NEW f, NEW gs, NEW gb, NEW fc,
         Setting(gr, rank, first, f, gs, gb, fc), NEW v, NEW good, NEW bad, NEW w, NEW u,
         BothRun(gr, first, v, f, good, bad, w, u), good[f.line] = 1 - f.stuck_at,
         NEW g \in gs
  PROVE  GateTells(gr, f, Ones(gr, w), Differing(gr, f, w, u), g)
<1>1. /\ Walkable(gr, rank) /\ ConeFacts(gr, f, gs) /\ f.line \in NamedLines(gr)
      /\ Chained(gr, rank, first) /\ g \in DOMAIN gr.gates /\ f.stuck_at \in Bits
      /\ gs \subseteq DOMAIN gr.gates
  BY SettingFacts DEF Setting
<1>2. PICK T : T = Ones(gr, w)
  OBVIOUS
<1>3. PICK D : D = Differing(gr, f, w, u)
  OBVIOUS
<1>4. /\ w \in [DOMAIN gr.lines -> Bits] /\ u \in [DOMAIN gr.lines -> Bits]
      /\ HasValues(gr, v, Healthy, good) /\ HasValues(gr, v, f, bad)
      /\ \A l \in NamedLines(gr) : w[l] = good[l] /\ u[l] = bad[l] /\ l \in DOMAIN gr.lines
  BY NamedAreLines DEF BothRun, FullValues
<1>5. ValuesIn(gr, T) = w /\ \A l \in DOMAIN gr.lines : BitIn(T, l) = w[l]
  BY <1>2, <1>4, OnesAre
<1>6. /\ \A l \in NamedLines(gr) : l # f.line =>
           (l \in D <=> good[l] # bad[l]) /\ (l \in D => l \in OutputsOf(gr, gs))
      /\ \A l \in DOMAIN gr.lines \ NamedLines(gr) : l \in D <=> w[l] # u[l]
      /\ SpecLine \in D <=> f.is_stem
      /\ f.line \in D
  BY <1>3, DifferingIs
<1>7. \A l \in QuietLines(gr, f, gs) : l \notin D
  BY <1>3, DifferingIsQuiet
<1>8. Effective(f, D) = f
  BY <1>6 DEF Effective
<1>9. BitIn(T, f.line) = 1 - f.stuck_at
  BY <1>1, <1>4, <1>5
<1>10. \A a \in Bits, b \in Bits : Flip(a, a # b) = b
  BY DEF Flip, Bits
<1>11. \A l \in NamedLines(gr) : l # f.line => bad[l] = Flip(good[l], l \in D)
  <2>1. \A l \in NamedLines(gr) : good[l] \in Bits /\ bad[l] \in Bits
    BY <1>4 DEF HasValues
  <2> QED BY <1>6, <2>1 DEF Flip, Bits
<1>12. bad[f.line] = good[f.line]
  <2>1. f.line \notin OutputsOf(gr, gs)
    <3>1. SUFFICES ASSUME f.line \in OutputsOf(gr, gs)
                   PROVE  FALSE
      OBVIOUS
    <3>2. gr.lines[f.line].source \in gs /\ gr.lines[f.line].source # NoGate
      BY <1>1, <3>1, NamedOutputs
    <3>3. gr.gates[gr.lines[f.line].source].output = f.line
      BY <1>1, <3>2, LineShape
    <3> QED BY <1>1, <3>2, <3>3 DEF ConeFacts
  <2> QED BY <1>1, <1>4, <2>1, OutsideSame
<1>13. PinsUnder(gr, f, bad, g) = FlippedPins(gr, f, w, D, g)
  <2>1. bad[f.line] = BitIn(T, f.line)
    BY <1>1, <1>4, <1>5, <1>12
  <2>2. ASSUME NEW k \in DOMAIN gr.gates[g].inputs, NEW m, m = gr.gates[g].inputs[k], m # f.line
        PROVE  bad[m] = Flip(BitIn(T, m), m \in OutputsOf(gr, gs) /\ m \in D)
    <3>1. m \in NamedLines(gr)
      BY <1>1, <2>2, GateShape
    <3>2. BitIn(T, m) = good[m] /\ bad[m] = Flip(good[m], m \in D)
      BY <1>4, <1>5, <1>11, <2>2, <3>1
    <3>3. m \in D => m \in OutputsOf(gr, gs)
      BY <1>6, <2>2, <3>1
    <3> QED BY <3>2, <3>3 DEF Flip
  <2>3. PinsUnder(gr, Effective(f, D), bad, g) = FlippedPins(gr, f, ValuesIn(gr, T), D, g)
    BY <1>6, <1>7, <1>9, <2>1, <2>2, PinFlips
  <2> QED BY <1>5, <1>8, <2>3
<1>14. Flipped(w, D, gr.gates[g].output) = N!CalValue(gr.gates[g].type, FlippedPins(gr, f, w, D, g))
  <2>1. PICK o : o = gr.gates[g].output
    OBVIOUS
  <2>2. o \in NamedLines(gr) /\ o # f.line
    BY <1>1, <2>1, GateShape DEF ConeFacts
  <2>3. Flipped(w, D, o) = bad[o]
    BY <1>4, <1>11, <2>2 DEF Flipped
  <2>4. bad[o] = N!CalValue(gr.gates[g].type, PinsUnder(gr, f, bad, g))
    BY <1>1, <1>4, <2>1, DrivenValue
  <2> QED BY <1>13, <2>1, <2>3, <2>4
<1>15. ASSUME NEW k \in 1 .. Size(gr, g) - 2
       PROVE  Flipped(w, D, MadeLine(first, g, k))
                = Joined(gr.gates[g].type, FlippedPins(gr, f, w, D, g), k)
  <2>1. PICK l : l = MadeLine(first, g, k)
    OBVIOUS
  <2>2. l \in DOMAIN gr.lines \ NamedLines(gr)
    BY <1>1, <2>1, MadeLines
  <2>3. w[l] \in Bits /\ u[l] \in Bits /\ (l \in D <=> w[l] # u[l])
    BY <1>4, <1>6, <2>2
  <2>4. Flipped(w, D, l) = u[l]
    BY <2>3 DEF Flipped, Flip, Bits
  <2>5. u[l] = Joined(gr.gates[g].type, PinsUnder(gr, f, bad, g), k)
    BY <1>1, <2>1 DEF BothRun, FullValues
  <2> QED BY <1>13, <2>1, <2>4, <2>5
<1>16. FlippedFit(gr, first, f, w, D, g)
  BY <1>14, <1>15 DEF FlippedFit
<1>17. GateFits(gr, w, g)
  BY <1>1, OnesFit DEF BothRun
<1>18. GateTells(gr, f, T, D, g) <=> FlippedFit(gr, first, f, ValuesIn(gr, T), D, g)
  BY <1>1, <1>5, <1>17, GateTellsMeans
<1> QED BY <1>2, <1>3, <1>5, <1>16, <1>18

\* A fault that a vector detects can be described to the formula, unless it is that
\* of an output's stem with fanouts.
LEMMA DetectedIsDescribed ==
  ASSUME NEW gr, NEW rank, NEW first, NEW f, NEW gs, NEW gb, NEW fc,
         Setting(gr, rank, first, f, gs, gb, fc), NEW v,
         NEW good, HasValues(gr, v, Healthy, good), NEW bad, HasValues(gr, v, f, bad),
         DetectsIn(gr, f, good, bad),
         ~(f.is_stem /\ gr.lines[f.line].is_output /\ gr.lines[f.line].dests # <<>>)
  PROVE  \E T \in SUBSET DOMAIN gr.lines : \E D :
           /\ Differs(gr, f, gs, gb, T, D) /\ VectorOf(gr, v, T)
           /\ \E l \in fc.primary_outputs_inside : l \in D
<1>1. /\ Walkable(gr, rank) /\ ConeFacts(gr, f, gs) /\ FaultShape(gr, f)
      /\ f.line \in NamedLines(gr) /\ Chained(gr, rank, first)
      /\ gb \subseteq DOMAIN gr.gates /\ gs \subseteq gb
      /\ StuckIsBit(gr, f) /\ StuckIsBit(gr, Healthy)
  BY SettingFacts DEF Setting
<1>2. PICK w : FullValues(gr, first, v, Healthy, good, w)
  BY <1>1, FullValuesExist
<1>3. PICK u : FullValues(gr, first, v, f, bad, u)
  BY <1>1, FullValuesExist
<1>4. PICK T : T = Ones(gr, w)
  OBVIOUS
<1>5. PICK D : D = Differing(gr, f, w, u)
  OBVIOUS
<1>6. BothRun(gr, first, v, f, good, bad, w, u)
  BY <1>2, <1>3 DEF BothRun
<1>7. good[f.line] = 1 - f.stuck_at
  BY DetectedHasOther
<1>8. /\ ValuesIn(gr, T) = w /\ \A l \in DOMAIN gr.lines : BitIn(T, l) = w[l]
      /\ \A l \in NamedLines(gr) : l \in DOMAIN gr.lines /\ w[l] = good[l]
  BY <1>2, <1>4, OnesAre, NamedAreLines DEF FullValues
<1>9. BaseSays(gr, gb, T)
  BY <1>1, <1>2, <1>8, OnesFit DEF BaseSays
<1>10. \A g \in gs : GateTells(gr, f, T, D, g)
  BY <1>4, <1>5, <1>6, <1>7, DifferingIsTold
<1>11. f.line \in D /\ BitIn(T, f.line) = 1 - f.stuck_at
  BY <1>1, <1>5, <1>6, <1>7, <1>8, DifferingIs
<1>12. \A l \in QuietLines(gr, f, gs) : l \notin D
  BY <1>5, <1>6, DifferingIsQuiet
<1>13. VectorOf(gr, v, T)
  <2>1. ASSUME NEW l \in Range(gr.ins)
        PROVE  v[l] = BitIn(T, l)
    <3>1. l \in NamedLines(gr) /\ gr.lines[l].source = NoGate
      BY <1>1 DEF Walkable, LinesLead
    <3>2. good[l] = v[l]
      BY <3>1 DEF HasValues, ValueOf
    <3> QED BY <1>8, <3>1, <3>2
  <2> QED BY <2>1 DEF VectorOf
<1>14. \E l \in fc.primary_outputs_inside : l \in D
  <2>1. fc.primary_outputs_inside =
          IF From(gr, f) = {} THEN {f.line} ELSE {m \in OutputsOf(gr, gs) : gr.lines[m].is_output}
    BY DEF Setting, ConeSound
  <2>2. CASE From(gr, f) = {}
    BY <1>11, <2>1, <2>2
  <2>3. CASE From(gr, f) # {}
    <3>1. PICK o \in Range(gr.outs) : good[o] # Seen(f, o, f.is_primary_output, bad)
      BY DEF DetectsIn
    <3>2. o \in NamedLines(gr) /\ gr.lines[o].is_output
      BY <1>1, <3>1, OutputLines, NamedAreLines
    <3>3. ~f.is_primary_output
      BY <1>1, <2>3 DEF From, FaultShape
    <3>4. ASSUME o = f.line
          PROVE  ~f.is_stem
      <4>1. SUFFICES ASSUME f.is_stem
                     PROVE  FALSE
        OBVIOUS
      <4>2. gr.lines[f.line].dests = <<>>
        BY <3>2, <3>4, <4>1
      <4>3. Range(gr.lines[f.line].dests) = {}
        BY <4>2 DEF Range
      <4>4. DestinationGates(gr, f.line) = {}
        BY <4>3 DEF DestinationGates
      <4> QED BY <2>3, <4>1, <4>4 DEF From
    <3>5. good[o] # bad[o]
      BY <3>1, <3>3, <3>4 DEF Seen
    <3>6. o \in OutputsOf(gr, gs)
      BY <3>2, <3>5, OutsideSame
    <3>7. o \in D
      BY <1>5, <1>6, <1>11, <3>2, <3>5, DifferingIs
    <3> QED BY <2>1, <2>3, <3>2, <3>6, <3>7
  <2> QED BY <2>2, <2>3
<1>15. T \in SUBSET DOMAIN gr.lines
  BY <1>4 DEF Ones
<1> QED BY <1>9, <1>10, <1>11, <1>12, <1>13, <1>14, <1>15 DEF Differs

------------------------------------------------------------------------------
\* The lines and SpecLine have literals of their own, once they have one, beyond
\* those of the circuit.
Slots(gr) == {SpecLine} \cup DOMAIN gr.lines

GoodContext(gr, f, c) ==
  /\ c \in [fault : {f}, sens : [Slots(gr) -> Nat], max_literal : Nat]
  /\ Len(gr.lines) < c.max_literal
  /\ \A l \in Slots(gr) : c.sens[l] # 0 =>
       Len(gr.lines) < c.sens[l] /\ c.sens[l] < c.max_literal
  /\ \A l, m \in Slots(gr) : c.sens[l] # 0 /\ c.sens[l] = c.sens[m] => l = m

\* d has the literals of c, and perhaps more.
Grows(gr, c, d) ==
  /\ c.max_literal <= d.max_literal
  /\ \A l \in Slots(gr) : c.sens[l] # 0 => d.sens[l] = c.sens[l]

LEMMA GrowsOn ==
  ASSUME NEW gr, NEW f, NEW c, GoodContext(gr, f, c), NEW d, GoodContext(gr, f, d),
         NEW e, GoodContext(gr, f, e), Grows(gr, c, d), Grows(gr, d, e)
  PROVE  Grows(gr, c, e)
<1>1. c.max_literal \in Nat /\ d.max_literal \in Nat /\ e.max_literal \in Nat
  BY DEF GoodContext
<1>2. c.max_literal <= e.max_literal
  BY <1>1 DEF Grows
<1> QED BY <1>2 DEF Grows

LEMMA AllocatedGood ==
  ASSUME NEW gr, Len(gr.lines) \in Nat, NEW f, NEW c, GoodContext(gr, f, c), NEW l \in Slots(gr)
  PROVE  /\ GoodContext(gr, f, Allocated(c, l)) /\ Grows(gr, c, Allocated(c, l))
         /\ Allocated(c, l).sens[l] # 0
<1>1. /\ c \in [fault : {f}, sens : [Slots(gr) -> Nat], max_literal : Nat]
      /\ c.max_literal \in Nat /\ c.sens \in [Slots(gr) -> Nat]
  BY DEF GoodContext
<1>2. CASE c.sens[l] # 0
  <2>1. Allocated(c, l) = c
    BY <1>2 DEF Allocated
  <2>2. Grows(gr, c, c)
    BY <1>1 DEF Grows
  <2> QED BY <1>2, <2>1, <2>2
<1>3. CASE c.sens[l] = 0
  <2>1. PICK d : d = Allocated(c, l)
    OBVIOUS
  <2>2. d = [c EXCEPT !.sens[l] = c.max_literal, !.max_literal = @ + 1]
    BY <1>3, <2>1 DEF Allocated
  <2>3. /\ d.fault = c.fault /\ d.max_literal = c.max_literal + 1
        /\ d.sens = [c.sens EXCEPT ![l] = c.max_literal]
        /\ d \in [fault : {f}, sens : [Slots(gr) -> Nat], max_literal : Nat]
    <3>1. PICK s2 : s2 = [c.sens EXCEPT ![l] = c.max_literal]
      OBVIOUS
    <3>2. PICK m2 : m2 = c.max_literal + 1
      OBVIOUS
    <3>3. s2 \in [Slots(gr) -> Nat] /\ m2 \in Nat
      BY <1>1, <3>1, <3>2
    <3>4. d = [c EXCEPT !.sens = s2, !.max_literal = m2]
      BY <1>1, <2>2, <3>1, <3>2
    <3>5. d.fault = c.fault /\ d.max_literal = m2 /\ d.sens = s2
      BY <1>1, <3>4
    <3>6. d \in [fault : {f}, sens : [Slots(gr) -> Nat], max_literal : Nat]
      BY <1>1, <3>3, <3>4
    <3> QED BY <3>1, <3>2, <3>5, <3>6
  <2>4. PICK m : m = c.max_literal
    OBVIOUS
  <2>5. PICK s : s = c.sens
    OBVIOUS
  <2>6. PICK L : L = Len(gr.lines)
    OBVIOUS
  <2>7. /\ m \in Nat /\ L \in Nat /\ L < m /\ s \in [Slots(gr) -> Nat]
        /\ \A x \in Slots(gr) : s[x] # 0 => L < s[x] /\ s[x] < m
        /\ \A x, y \in Slots(gr) : s[x] # 0 /\ s[x] = s[y] => x = y
    BY <1>1, <2>4, <2>5, <2>6 DEF GoodContext
  <2>8. /\ d.sens[l] = m /\ \A x \in Slots(gr) : x # l => d.sens[x] = s[x]
        /\ d.max_literal = m + 1
    BY <1>1, <2>3, <2>4, <2>5
  <2>9. \A x \in Slots(gr) : d.sens[x] # 0 => L < d.sens[x] /\ d.sens[x] < d.max_literal
    BY <2>7, <2>8
  <2>10. ASSUME NEW x \in Slots(gr), NEW y \in Slots(gr), d.sens[x] # 0, d.sens[x] = d.sens[y]
         PROVE  x = y
    <3>1. CASE x = l /\ y = l
      BY <3>1
    <3>2. CASE x = l /\ y # l
      <4>1. s[y] = m
        BY <2>8, <2>10, <3>2
      <4>2. s[y] # 0
        BY <2>7, <4>1
      <4> QED BY <2>7, <4>1, <4>2
    <3>3. CASE x # l /\ y = l
      <4>1. s[x] = m
        BY <2>8, <2>10, <3>3
      <4>2. s[x] # 0
        BY <2>7, <4>1
      <4> QED BY <2>7, <4>1, <4>2
    <3>4. CASE x # l /\ y # l
      BY <2>7, <2>8, <2>10, <3>4
    <3> QED BY <3>1, <3>2, <3>3, <3>4
  <2>11. L < d.max_literal /\ m <= d.max_literal /\ m # 0
    BY <2>7, <2>8
  <2>12. GoodContext(gr, f, d)
    BY <2>3, <2>6, <2>9, <2>10, <2>11 DEF GoodContext
  <2>13. Grows(gr, c, d)
    <3>1. \A x \in Slots(gr) : c.sens[x] # 0 => x # l
      BY <1>3
    <3> QED BY <2>4, <2>5, <2>8, <2>11, <3>1 DEF Grows
  <2> QED BY <2>1, <2>8, <2>11, <2>12, <2>13
<1> QED BY <1>2, <1>3

\* Allocate, one line after the other.
AllocateBy(c, ls, f) ==
  /\ DOMAIN f = 0 .. Len(ls) /\ f[0] = c
  /\ \A k \in 1 .. Len(ls) : f[k] = Allocated(f[k - 1], ls[k])
  /\ Allocate(c, ls) = f[Len(ls)]

LEMMA AllocateSteps ==
  ASSUME NEW c, NEW ls, Len(ls) \in Nat
  PROVE  \E f : AllocateBy(c, ls, f)
<1> DEFINE Upto(f, m) == f = [k \in 0 .. m |-> IF k = 0 THEN c ELSE Allocated(f[k - 1], ls[k])]
           Found == {m \in Nat : \E f : Upto(f, m)}
<1>1. 0 \in Found
  <2> DEFINE f == [k \in 0 .. 0 |-> c]
  <2>1. Upto(f, 0)
    OBVIOUS
  <2> HIDE DEF Upto
  <2> QED BY <2>1
<1>2. ASSUME NEW m \in Found
      PROVE  m + 1 \in Found
  <2>1. PICK f : Upto(f, m)
    OBVIOUS
  <2> DEFINE more == [k \in 0 .. m + 1 |-> IF k = m + 1 THEN Allocated(f[m], ls[m + 1]) ELSE f[k]]
  <2>2. \A k \in 0 .. m + 1 : more[k] = IF k = 0 THEN c ELSE Allocated(more[k - 1], ls[k])
    BY <2>1
  <2>3. more = [k \in 0 .. m + 1 |-> more[k]]
    OBVIOUS
  <2> HIDE DEF more
  <2>4. Upto(more, m + 1)
    BY <2>2, <2>3
  <2>5. m + 1 \in Nat
    OBVIOUS
  <2> HIDE DEF Upto
  <2> QED BY <2>4, <2>5
<1>3. Found = Nat
  <2>1. Found \in SUBSET Nat
    OBVIOUS
  <2> HIDE DEF Found
  <2> QED BY <1>1, <1>2, <2>1, InductionOverNat
<1>4. PICK f : Upto(f, Len(ls))
  BY <1>3
<1> DEFINE whole == CHOOSE f_1 : Upto(f_1, Len(ls))
<1>5. Upto(whole, Len(ls))
  <2> HIDE DEF Upto
  <2> QED BY <1>4
<1>6. Allocate(c, ls) = whole[Len(ls)]
  BY DEF Allocate
<1> HIDE DEF whole
<1>7. AllocateBy(c, ls, whole)
  <2>1. PICK m : m = Len(ls)
    OBVIOUS
  <2>2. m \in Nat /\ Upto(whole, m)
    BY <1>5, <2>1
  <2>3. DOMAIN whole = 0 .. m
    BY <2>2
  <2>4. \A k \in 0 .. m : whole[k] = IF k = 0 THEN c ELSE Allocated(whole[k - 1], ls[k])
    BY <2>2
  <2> HIDE DEF Upto
  <2>5. whole[0] = c
    BY <2>2, <2>4
  <2>6. \A k \in 1 .. m : whole[k] = Allocated(whole[k - 1], ls[k])
    BY <2>2, <2>4
  <2> QED BY <1>6, <2>1, <2>3, <2>5, <2>6 DEF AllocateBy
<1> QED BY <1>7


\* The lines of a list have literals then.
Provided(ls, k, c) == \A i \in 1 .. k : c.sens[ls[i]] # 0

LEMMA AllocateGood ==
  ASSUME NEW gr, Len(gr.lines) \in Nat, NEW f, NEW c, GoodContext(gr, f, c),
         NEW ls \in Seq(Slots(gr))
  PROVE  /\ GoodContext(gr, f, Allocate(c, ls)) /\ Grows(gr, c, Allocate(c, ls))
         /\ \A l \in Range(ls) : Allocate(c, ls).sens[l] # 0
<1>1. PICK n \in Nat : n = Len(ls)
  OBVIOUS
<1>2. DOMAIN ls = 1 .. n /\ \A k \in 1 .. n : ls[k] \in Slots(gr)
  BY <1>1, SeqElements
<1>3. PICK upto : AllocateBy(c, ls, upto)
  BY <1>1, AllocateSteps
<1>4. /\ upto[0] = c /\ Allocate(c, ls) = upto[n]
      /\ \A k \in 1 .. n : upto[k] = Allocated(upto[k - 1], ls[k])
  BY <1>1, <1>3 DEF AllocateBy
<1> DEFINE Fine(k) == /\ GoodContext(gr, f, upto[k]) /\ Grows(gr, c, upto[k])
                      /\ Provided(ls, k, upto[k])
           B == {k \in Nat : k <= n => Fine(k)}
<1>5. Fine(0)
  <2>1. \A i : i \notin 1 .. 0
    OBVIOUS
  <2>2. Grows(gr, c, c)
    BY DEF Grows, GoodContext
  <2> QED BY <1>4, <2>1, <2>2 DEF Provided
<1>6. ASSUME NEW k \in Nat, k + 1 <= n, Fine(k)
      PROVE  Fine(k + 1)
  <2>1. k + 1 \in 1 .. n /\ (k + 1) - 1 = k
    BY <1>6
  <2>2. PICK d : d = upto[k]
    OBVIOUS
  <2>3. PICK l \in Slots(gr) : l = ls[k + 1]
    BY <1>2, <2>1
  <2>4. PICK e : e = Allocated(d, l)
    OBVIOUS
  <2>5. upto[k + 1] = e
    BY <1>4, <2>1, <2>2, <2>3, <2>4
  <2>6. GoodContext(gr, f, d) /\ Grows(gr, c, d) /\ Provided(ls, k, d)
    BY <1>6, <2>2
  <2>7. GoodContext(gr, f, e) /\ Grows(gr, d, e) /\ e.sens[l] # 0
    BY <2>4, <2>6, AllocatedGood
  <2>8. Grows(gr, c, e)
    BY <2>6, <2>7, GrowsOn
  <2>9. Provided(ls, k + 1, e)
    <3>1. ASSUME NEW i \in 1 .. k + 1
          PROVE  e.sens[ls[i]] # 0
      <4>1. CASE i = k + 1
        BY <2>3, <2>7, <4>1
      <4>2. CASE i # k + 1
        <5>1. i \in 1 .. k /\ i \in 1 .. n
          BY <1>6, <4>2
        <5>2. d.sens[ls[i]] # 0 /\ ls[i] \in Slots(gr)
          BY <1>2, <2>6, <5>1 DEF Provided
        <5> QED BY <2>7, <5>2 DEF Grows
      <4> QED BY <4>1, <4>2
    <3> QED BY <3>1 DEF Provided
  <2> QED BY <2>5, <2>7, <2>8, <2>9
<1>7. ASSUME NEW k \in B
      PROVE  k + 1 \in B
  <2>1. k \in Nat /\ (k + 1 <= n => k <= n)
    BY <1>1
  <2> HIDE DEF Fine
  <2> QED BY <1>6, <2>1
<1>8. n \in B
  <2>1. B \in SUBSET Nat
    OBVIOUS
  <2>2. 0 \in B
    <3> HIDE DEF Fine
    <3> QED BY <1>5
  <2> HIDE DEF B
  <2> QED BY <1>7, <2>1, <2>2, InductionOverNat
<1>9. Fine(n)
  BY <1>8
<1>10. \A l \in Range(ls) : \E i \in 1 .. n : l = ls[i]
  BY <1>2 DEF Range
<1> QED BY <1>4, <1>9, <1>10 DEF Provided

------------------------------------------------------------------------------
\* D are the lines whose literals T has.
Told(gr, c, T, D) == \A l \in Slots(gr) : c.sens[l] # 0 => (c.sens[l] \in T <=> l \in D)

LEMMA ToldBefore ==
  ASSUME NEW gr, NEW c, NEW d, Grows(gr, c, d), NEW T, NEW D, Told(gr, d, T, D)
  PROVE  Told(gr, c, T, D)
BY DEF Told, Grows

\* Lines can be told by their literals.
LEMMA CanBeTold ==
  ASSUME NEW gr, DOMAIN gr.lines = 1 .. Len(gr.lines), Len(gr.lines) \in Nat,
         NEW f, NEW c, GoodContext(gr, f, c),
         NEW T \in SUBSET DOMAIN gr.lines, NEW D
  PROVE  \E U \in SUBSET Nat :
           /\ Told(gr, c, U, D)
           /\ \A l \in DOMAIN gr.lines : l \in U <=> l \in T
<1>1. PICK L : L = Len(gr.lines)
  OBVIOUS
<1>2. PICK s : s = c.sens
  OBVIOUS
<1>3. /\ s \in [Slots(gr) -> Nat] /\ L \in Nat /\ DOMAIN gr.lines = 1 .. L
      /\ \A x \in Slots(gr) : s[x] # 0 => L < s[x]
      /\ \A x, y \in Slots(gr) : s[x] # 0 /\ s[x] = s[y] => x = y
  BY <1>1, <1>2 DEF GoodContext
<1>4. PICK E : E = {s[l] : l \in {x \in Slots(gr) : x \in D /\ s[x] # 0}}
  OBVIOUS
<1>5. \A y : y \in E <=> \E l \in Slots(gr) : l \in D /\ s[l] # 0 /\ y = s[l]
  BY <1>4
<1>6. PICK U : U = T \cup E
  OBVIOUS
<1>7. U \in SUBSET Nat
  BY <1>3, <1>5, <1>6
<1>8. \A l \in DOMAIN gr.lines : l \in U <=> l \in T
  <2>1. \A l \in 1 .. L : l \notin E
    BY <1>3, <1>5
  <2> QED BY <1>3, <1>6, <2>1
<1>9. ASSUME NEW l \in Slots(gr), s[l] # 0
      PROVE  s[l] \in U <=> l \in D
  <2>1. s[l] \notin T
    BY <1>3, <1>9
  <2>2. s[l] \in E <=> l \in D
    BY <1>3, <1>5, <1>9
  <2> QED BY <1>6, <2>1, <2>2
<1> QED BY <1>2, <1>7, <1>8, <1>9 DEF Told

LEMMA WhatIsTold ==
  ASSUME NEW gr, NEW c, NEW T
  PROVE  \E D : Told(gr, c, T, D)
<1> DEFINE D == {l \in Slots(gr) : c.sens[l] \in T}
<1>1. Told(gr, c, T, D)
  BY DEF Told
<1> QED BY <1>1

------------------------------------------------------------------------------
\* No literal of a gate's sensitization clauses is beyond b.
LEMMA SensitizationBounded ==
  ASSUME NEW e, SmallLink(e), NEW b \in Nat, NEW c, NEW xs, NEW ys,
         c.sens[xs] \in 1 .. b, c.sens[ys] \in 1 .. b, c.sens[e.output] \in 1 .. b,
         e.inputs[1] \in 1 .. b, e.inputs[Len(e.inputs)] \in 1 .. b
  PROVE  Bounded(GateSensitization(c, e, xs, ys), b)
<1>1. Head(e.inputs) = e.inputs[1] /\ Last(e.inputs) = e.inputs[Len(e.inputs)]
  BY SmallLinkInputs
<1>2. PICK S : S = {u \in Literals : -b <= u /\ u <= b}
  OBVIOUS
<1>3. \A u \in 1 .. b : u \in S /\ -u \in S /\ -(-u) \in S
  BY <1>2 DEF Literals
<1>4. \A u \in S : u \in Literals /\ -b <= u /\ u <= b
  BY <1>2
<1>5. PICK x \in 1 .. b : x = e.inputs[1]
  OBVIOUS
<1>6. PICK y \in 1 .. b : y = e.inputs[Len(e.inputs)]
  OBVIOUS
<1>7. PICK p \in 1 .. b : p = c.sens[xs]
  OBVIOUS
<1>8. PICK q \in 1 .. b : q = c.sens[ys]
  OBVIOUS
<1>9. PICK z \in 1 .. b : z = c.sens[e.output]
  OBVIOUS
<1>10. PICK C : C = GateSensitization(c, e, xs, ys)
  OBVIOUS
<1>11. \/ C = {{-p, z}, {p, -z}}
       \/ C = AndSensitization(x, p, y, q, z)
       \/ C = AndSensitization(-x, p, -y, q, z)
       \/ C = XorGate(p, q, z)
  <2>1. e.type \in GateTypes
    BY DEF SmallLink
  <2> QED BY <1>1, <1>5, <1>6, <1>7, <1>8, <1>9, <1>10, <2>1 DEF GateSensitization, GateTypes
<1>12. \A k \in C : k \subseteq S
  <2>1. CASE C = {{-p, z}, {p, -z}}
    BY <1>3, <2>1
  <2>2. CASE C = AndSensitization(x, p, y, q, z)
    BY <1>3, <2>2 DEF AndSensitization
  <2>3. CASE C = AndSensitization(-x, p, -y, q, z)
    BY <1>3, <2>3 DEF AndSensitization
  <2>4. CASE C = XorGate(p, q, z)
    BY <1>3, <2>4 DEF XorGate
  <2> QED BY <1>11, <2>1, <2>2, <2>3, <2>4
<1>13. Bounded(C, b)
  BY <1>4, <1>12 DEF Bounded
<1> QED BY <1>10, <1>13

LEMMA BoundedFurther ==
  ASSUME NEW C, NEW a \in Nat, NEW b \in Nat, a <= b, Bounded(C, a)
  PROVE  Bounded(C, b)
BY DEF Bounded, Literals

LEMMA BoundedUnion ==
  ASSUME NEW C, NEW D, NEW b, Bounded(C, b), Bounded(D, b)
  PROVE  Bounded(C \cup D, b)
BY DEF Bounded

\* The links of a gate, by their places.
LinkPlaces(gr, g) == {[gate |-> g, idx |-> k] : k \in DOMAIN gr.gates[g].expanded}

\* The sensitization of the links ps is in the formula, beside the clauses in base.
AccSays(gr, f, base, ps, acc) ==
  /\ GoodContext(gr, f, acc.context)
  /\ Bounded(acc.cnf, acc.context.max_literal)
  /\ \A p \in ps : acc.context.sens[gr.gates[p.gate].expanded[p.idx].output] # 0
  /\ \A T, D : Told(gr, acc.context, T, D) =>
       (AllHold(T, acc.cnf) <=>
          AllHold(T, base) /\ \A p \in ps : LinkTells(gr, f, T, D, p.gate, p.idx))

LEMMA LinkAdds ==
  ASSUME NEW rank, NEW first, Chained(graph, rank, first), NEW f, f.line \in NamedLines(graph),
         NEW base, NEW ps, \A p \in ps : graph.gates[p.gate].expanded[p.idx].output \in Slots(graph),
         NEW acc, AccSays(graph, f, base, ps, acc),
         NEW g \in DOMAIN graph.gates, NEW k \in DOMAIN graph.gates[g].expanded
  PROVE  AccSays(graph, f, base, ps \cup {[gate |-> g, idx |-> k]}, SensitizedLink(acc, g, k))
<1>1. PICK e : e = graph.gates[g].expanded[k]
  OBVIOUS
<1>2. /\ LinkKnown(graph, e) /\ Walkable(graph, rank) /\ SmallLink(e)
  BY <1>1, LinksAreSmall DEF Chained, LinkKnown
<1>3. DOMAIN graph.lines = 1 .. Len(graph.lines) /\ Len(graph.lines) \in Nat
  BY <1>2, GraphParts DEF Walkable, GraphSound
<1>4. /\ Head(e.inputs) = e.inputs[1] /\ Last(e.inputs) = e.inputs[Len(e.inputs)]
      /\ 1 \in DOMAIN e.inputs /\ Len(e.inputs) \in DOMAIN e.inputs
  <2>1. /\ Len(e.inputs) = IF e.type \in {"NOT", "BUF"} THEN 1 ELSE 2
        /\ DOMAIN e.inputs = IF e.type \in {"NOT", "BUF"} THEN {1} ELSE {1, 2}
    BY <1>2, SmallLinkInputs
  <2> QED BY <1>2, <2>1, SmallLinkInputs
<1>5. e.inputs[1] \in DOMAIN graph.lines /\ e.inputs[Len(e.inputs)] \in DOMAIN graph.lines
      /\ e.output \in DOMAIN graph.lines
  BY <1>2, <1>4 DEF LinkKnown
<1>6. PICK xs : xs = XSide(graph, f, g, k)
  OBVIOUS
<1>7. PICK ys : ys = YSide(graph, f, g, k)
  OBVIOUS
<1>8. xs \in Slots(graph) /\ ys \in Slots(graph) /\ e.output \in Slots(graph)
  BY <1>1, <1>5, <1>6, <1>7 DEF XSide, YSide, Side, Slots
<1>9. PICK ls : ls = <<xs, ys, e.output>>
  OBVIOUS
<1>10. ls \in Seq(Slots(graph)) /\ xs \in Range(ls) /\ ys \in Range(ls) /\ e.output \in Range(ls)
  <2>1. \A S : \A x, y, z \in S : <<x, y, z>> \in Seq(S)
    OBVIOUS
  <2>2. DOMAIN ls = 1 .. 3 /\ ls[1] = xs /\ ls[2] = ys /\ ls[3] = e.output
    BY <1>9
  <2> QED BY <1>8, <1>9, <2>1, <2>2 DEF Range
<1>11. PICK c : c = Allocate(acc.context, ls)
  OBVIOUS
<1>12. PICK d : d = acc.context
  OBVIOUS
<1>13. GoodContext(graph, f, d) /\ d.fault = f
  BY <1>12 DEF AccSays, GoodContext
<1>14. /\ GoodContext(graph, f, c) /\ Grows(graph, d, c)
       /\ c.sens[xs] # 0 /\ c.sens[ys] # 0 /\ c.sens[e.output] # 0
  BY <1>3, <1>10, <1>11, <1>12, <1>13, AllocateGood
<1>15. SensitizedLink(acc, g, k)
         = [context |-> c, cnf |-> acc.cnf \cup GateSensitization(c, e, xs, ys)]
  BY <1>1, <1>4, <1>6, <1>7, <1>9, <1>11, <1>12, <1>13 DEF SensitizedLink, XSide, YSide, Size
<1>16. PICK b : b = c.max_literal
  OBVIOUS
<1>17. /\ b \in Nat /\ Len(graph.lines) < b
       /\ c.sens[xs] \in 1 .. b /\ c.sens[ys] \in 1 .. b /\ c.sens[e.output] \in 1 .. b
  <2>1. \A l \in Slots(graph) : c.sens[l] \in Nat /\ (c.sens[l] # 0 => c.sens[l] < b)
    BY <1>14, <1>16 DEF GoodContext
  <2>2. b \in Nat /\ Len(graph.lines) < b
    BY <1>14, <1>16 DEF GoodContext
  <2> QED BY <1>8, <1>14, <2>1, <2>2
<1>18. PICK C : C = GateSensitization(c, e, xs, ys)
  OBVIOUS
<1>19. Bounded(C, b)
  <2>1. e.inputs[1] \in 1 .. b /\ e.inputs[Len(e.inputs)] \in 1 .. b
    BY <1>3, <1>5, <1>17
  <2> QED BY <1>2, <1>17, <1>18, <2>1, SensitizationBounded
<1>20. Bounded(acc.cnf, b)
  <2>1. Bounded(acc.cnf, d.max_literal)
    BY <1>12 DEF AccSays
  <2>2. d.max_literal \in Nat /\ d.max_literal <= b
    BY <1>13, <1>14, <1>16 DEF GoodContext, Grows
  <2> QED BY <1>17, <2>1, <2>2, BoundedFurther
<1>21. PICK acc2 : acc2 = SensitizedLink(acc, g, k)
  OBVIOUS
<1>22. acc2.context = c /\ acc2.cnf = acc.cnf \cup C
  BY <1>15, <1>18, <1>21
<1>23. PICK ps2 : ps2 = ps \cup {[gate |-> g, idx |-> k]}
  OBVIOUS
<1>24. PICK r : r = [gate |-> g, idx |-> k]
  OBVIOUS
<1>25. r.gate = g /\ r.idx = k /\ \A p : p \in ps2 <=> p \in ps \/ p = r
  BY <1>23, <1>24
<1>26. Bounded(acc2.cnf, acc2.context.max_literal)
  BY <1>16, <1>19, <1>20, <1>22, BoundedUnion
<1>27. \A p \in ps2 : acc2.context.sens[graph.gates[p.gate].expanded[p.idx].output] # 0
  <2>1. ASSUME NEW p \in ps
        PROVE  c.sens[graph.gates[p.gate].expanded[p.idx].output] # 0
    <3>1. PICK o \in Slots(graph) : o = graph.gates[p.gate].expanded[p.idx].output
      OBVIOUS
    <3>2. d.sens[o] # 0
      BY <1>12, <3>1 DEF AccSays
    <3> QED BY <1>14, <3>1, <3>2 DEF Grows
  <2>2. c.sens[graph.gates[r.gate].expanded[r.idx].output] # 0
    BY <1>1, <1>14, <1>25
  <2> QED BY <1>22, <1>25, <2>1, <2>2
<1>28. ASSUME NEW T, NEW D, Told(graph, c, T, D)
       PROVE  AllHold(T, acc2.cnf) <=>
                AllHold(T, base) /\ \A p \in ps2 : LinkTells(graph, f, T, D, p.gate, p.idx)
  <2>1. Told(graph, d, T, D)
    BY <1>14, <1>28, ToldBefore
  <2>2. AllHold(T, acc.cnf) <=>
          AllHold(T, base) /\ \A p \in ps : LinkTells(graph, f, T, D, p.gate, p.idx)
    BY <1>12, <2>1 DEF AccSays
  <2>3. /\ c.sens[xs] \in T <=> xs \in D
        /\ c.sens[ys] \in T <=> ys \in D
        /\ c.sens[e.output] \in T <=> e.output \in D
    BY <1>8, <1>14, <1>28 DEF Told
  <2>4. PICK x : x = BitIn(T, e.inputs[1])
    OBVIOUS
  <2>5. PICK y : y = BitIn(T, e.inputs[Len(e.inputs)])
    OBVIOUS
  <2>6. c.sens[xs] \in Nat \ {0} /\ c.sens[ys] \in Nat \ {0} /\ c.sens[e.output] \in Nat \ {0}
    BY <1>17
  <2>7. AllHold(T, C) <=>
          (c.sens[e.output] \in T <=>
             Link2(e.type, x, y)
               # Link2(e.type, Flip(x, c.sens[xs] \in T), Flip(y, c.sens[ys] \in T)))
    BY <1>2, <1>18, <2>4, <2>5, <2>6, GateSensitizationMeans
  <2>8. Flip(x, c.sens[xs] \in T) = Flip(x, xs \in D) /\ Flip(y, c.sens[ys] \in T) = Flip(y, ys \in D)
    BY <2>3 DEF Flip
  <2>9. AllHold(T, C) <=> LinkTells(graph, f, T, D, g, k)
    BY <1>1, <1>6, <1>7, <2>3, <2>4, <2>5, <2>7, <2>8 DEF LinkTells
  <2>10. AllHold(T, acc2.cnf) <=> AllHold(T, acc.cnf) /\ AllHold(T, C)
    BY <1>22, AllHoldUnion
  <2>11. (\A p \in ps2 : LinkTells(graph, f, T, D, p.gate, p.idx)) <=>
           /\ \A p \in ps : LinkTells(graph, f, T, D, p.gate, p.idx)
           /\ LinkTells(graph, f, T, D, g, k)
    <3>1. LinkTells(graph, f, T, D, r.gate, r.idx) <=> LinkTells(graph, f, T, D, g, k)
      BY <1>25
    <3> QED BY <1>25, <3>1
  <2> QED BY <2>2, <2>9, <2>10, <2>11
<1>29. AccSays(graph, f, base, ps2, acc2)
  BY <1>14, <1>22, <1>26, <1>27, <1>28 DEF AccSays
<1> QED BY <1>21, <1>23, <1>29

\* Sensitized, one link after the other.
SensitizedBy(acc, g, f) ==
  /\ DOMAIN f = 0 .. Len(graph.gates[g].expanded) /\ f[0] = acc
  /\ \A k \in 1 .. Len(graph.gates[g].expanded) : f[k] = SensitizedLink(f[k - 1], g, k)
  /\ Sensitized(acc, g) = f[Len(graph.gates[g].expanded)]

LEMMA SensitizedSteps ==
  ASSUME NEW acc, NEW g, Len(graph.gates[g].expanded) \in Nat
  PROVE  \E f : SensitizedBy(acc, g, f)
<1> DEFINE Upto(f, m) == f = [k \in 0 .. m |-> IF k = 0 THEN acc ELSE SensitizedLink(f[k - 1], g, k)]
           Found == {m \in Nat : \E f : Upto(f, m)}
<1>1. 0 \in Found
  <2> DEFINE f == [k \in 0 .. 0 |-> acc]
  <2>1. Upto(f, 0)
    OBVIOUS
  <2> HIDE DEF Upto
  <2> QED BY <2>1
<1>2. ASSUME NEW m \in Found
      PROVE  m + 1 \in Found
  <2>1. PICK f : Upto(f, m)
    OBVIOUS
  <2> DEFINE more == [k \in 0 .. m + 1 |-> IF k = m + 1 THEN SensitizedLink(f[m], g, m + 1) ELSE f[k]]
  <2>2. \A k \in 0 .. m + 1 : more[k] = IF k = 0 THEN acc ELSE SensitizedLink(more[k - 1], g, k)
    BY <2>1
  <2>3. more = [k \in 0 .. m + 1 |-> more[k]]
    OBVIOUS
  <2> HIDE DEF more
  <2>4. Upto(more, m + 1)
    BY <2>2, <2>3
  <2>5. m + 1 \in Nat
    OBVIOUS
  <2> HIDE DEF Upto
  <2> QED BY <2>4, <2>5
<1>3. Found = Nat
  <2>1. Found \in SUBSET Nat
    OBVIOUS
  <2> HIDE DEF Found
  <2> QED BY <1>1, <1>2, <2>1, InductionOverNat
<1>4. PICK f : Upto(f, Len(graph.gates[g].expanded))
  BY <1>3
<1> DEFINE whole == CHOOSE f_1 : Upto(f_1, Len(graph.gates[g].expanded))
<1>5. Upto(whole, Len(graph.gates[g].expanded))
  <2> HIDE DEF Upto
  <2> QED BY <1>4
<1>6. Sensitized(acc, g) = whole[Len(graph.gates[g].expanded)]
  BY DEF Sensitized
<1> HIDE DEF whole
<1>7. SensitizedBy(acc, g, whole)
  <2>1. PICK m : m = Len(graph.gates[g].expanded)
    OBVIOUS
  <2>2. m \in Nat /\ Upto(whole, m)
    BY <1>5, <2>1
  <2>3. DOMAIN whole = 0 .. m
    BY <2>2
  <2>4. \A k \in 0 .. m : whole[k] = IF k = 0 THEN acc ELSE SensitizedLink(whole[k - 1], g, k)
    BY <2>2
  <2> HIDE DEF Upto
  <2>5. whole[0] = acc
    BY <2>2, <2>4
  <2>6. \A k \in 1 .. m : whole[k] = SensitizedLink(whole[k - 1], g, k)
    BY <2>2, <2>4
  <2> QED BY <1>6, <2>1, <2>3, <2>5, <2>6 DEF SensitizedBy
<1> QED BY <1>7

\* SensitizedAll, one gate after the other.
SensitizedAllBy(acc, gs, f) ==
  /\ DOMAIN f = 0 .. Len(gs) /\ f[0] = acc
  /\ \A k \in 1 .. Len(gs) : f[k] = Sensitized(f[k - 1], gs[k])
  /\ SensitizedAll(acc, gs) = f[Len(gs)]

LEMMA SensitizedAllSteps ==
  ASSUME NEW acc, NEW gs, Len(gs) \in Nat
  PROVE  \E f : SensitizedAllBy(acc, gs, f)
<1> DEFINE Upto(f, m) == f = [k \in 0 .. m |-> IF k = 0 THEN acc ELSE Sensitized(f[k - 1], gs[k])]
           Found == {m \in Nat : \E f : Upto(f, m)}
<1>1. 0 \in Found
  <2> DEFINE f == [k \in 0 .. 0 |-> acc]
  <2>1. Upto(f, 0)
    OBVIOUS
  <2> HIDE DEF Upto
  <2> QED BY <2>1
<1>2. ASSUME NEW m \in Found
      PROVE  m + 1 \in Found
  <2>1. PICK f : Upto(f, m)
    OBVIOUS
  <2> DEFINE more == [k \in 0 .. m + 1 |-> IF k = m + 1 THEN Sensitized(f[m], gs[m + 1]) ELSE f[k]]
  <2>2. \A k \in 0 .. m + 1 : more[k] = IF k = 0 THEN acc ELSE Sensitized(more[k - 1], gs[k])
    BY <2>1
  <2>3. more = [k \in 0 .. m + 1 |-> more[k]]
    OBVIOUS
  <2> HIDE DEF more
  <2>4. Upto(more, m + 1)
    BY <2>2, <2>3
  <2>5. m + 1 \in Nat
    OBVIOUS
  <2> HIDE DEF Upto
  <2> QED BY <2>4, <2>5
<1>3. Found = Nat
  <2>1. Found \in SUBSET Nat
    OBVIOUS
  <2> HIDE DEF Found
  <2> QED BY <1>1, <1>2, <2>1, InductionOverNat
<1>4. PICK f : Upto(f, Len(gs))
  BY <1>3
<1> DEFINE whole == CHOOSE f_1 : Upto(f_1, Len(gs))
<1>5. Upto(whole, Len(gs))
  <2> HIDE DEF Upto
  <2> QED BY <1>4
<1>6. SensitizedAll(acc, gs) = whole[Len(gs)]
  BY DEF SensitizedAll
<1> HIDE DEF whole
<1>7. SensitizedAllBy(acc, gs, whole)
  <2>1. PICK m : m = Len(gs)
    OBVIOUS
  <2>2. m \in Nat /\ Upto(whole, m)
    BY <1>5, <2>1
  <2>3. DOMAIN whole = 0 .. m
    BY <2>2
  <2>4. \A k \in 0 .. m : whole[k] = IF k = 0 THEN acc ELSE Sensitized(whole[k - 1], gs[k])
    BY <2>2
  <2> HIDE DEF Upto
  <2>5. whole[0] = acc
    BY <2>2, <2>4
  <2>6. \A k \in 1 .. m : whole[k] = Sensitized(whole[k - 1], gs[k])
    BY <2>2, <2>4
  <2> QED BY <1>6, <2>1, <2>3, <2>5, <2>6 DEF SensitizedAllBy
<1> QED BY <1>7


\* The links with places in ps are links of the circuit.
PlacesKnown(gr, ps) ==
  \A p \in ps : p.gate \in DOMAIN gr.gates /\ p.idx \in DOMAIN gr.gates[p.gate].expanded

LEMMA PlacesDrive ==
  ASSUME NEW gr, NEW rank, NEW first, Chained(gr, rank, first), NEW ps, PlacesKnown(gr, ps)
  PROVE  \A p \in ps : gr.gates[p.gate].expanded[p.idx].output \in Slots(gr)
BY LinksAreSmall DEF PlacesKnown, LinkKnown, Slots

LEMMA GateAdds ==
  ASSUME NEW rank, NEW first, Chained(graph, rank, first), NEW f, f.line \in NamedLines(graph),
         NEW base, NEW ps, PlacesKnown(graph, ps),
         NEW acc, AccSays(graph, f, base, ps, acc), NEW g \in DOMAIN graph.gates
  PROVE  AccSays(graph, f, base, ps \cup LinkPlaces(graph, g), Sensitized(acc, g))
<1>1. PICK ex : ex = graph.gates[g].expanded
  OBVIOUS
<1>2. PICK n : n = Len(ex)
  OBVIOUS
<1>3. n \in Nat /\ DOMAIN ex = 1 .. n
  <2>1. graph.gates[g] \in GateType
    BY GraphParts DEF Chained, Walkable, GraphSound
  <2> QED BY <1>1, <1>2, <2>1 DEF GateType
<1>4. PICK upto : SensitizedBy(acc, g, upto)
  BY <1>1, <1>2, <1>3, SensitizedSteps
<1>5. /\ upto[0] = acc /\ Sensitized(acc, g) = upto[n]
      /\ \A k \in 1 .. n : upto[k] = SensitizedLink(upto[k - 1], g, k)
  BY <1>1, <1>2, <1>4 DEF SensitizedBy
<1> DEFINE Places(k) == ps \cup {[gate |-> g, idx |-> i] : i \in 1 .. k}
           Fine(k) == AccSays(graph, f, base, Places(k), upto[k])
           B == {k \in Nat : k <= n => Fine(k)}
<1>6. Fine(0)
  <2>1. 1 .. 0 = {}
    OBVIOUS
  <2>2. Places(0) = ps
    BY <2>1
  <2> QED BY <1>5, <2>2
<1>7. ASSUME NEW k \in Nat, k + 1 <= n, Fine(k)
      PROVE  Fine(k + 1)
  <2>1. k + 1 \in 1 .. n /\ (k + 1) - 1 = k
    BY <1>7
  <2>2. PICK j \in DOMAIN ex : j = k + 1
    BY <1>3, <2>1
  <2>3. PICK d : d = upto[k]
    OBVIOUS
  <2>4. PICK qs : qs = Places(k)
    OBVIOUS
  <2>5. PlacesKnown(graph, qs)
    <3>1. 1 .. k \subseteq 1 .. n
      BY <1>3, <1>7
    <3> QED BY <1>1, <1>3, <2>4, <3>1 DEF PlacesKnown
  <2>6. AccSays(graph, f, base, qs, d)
    BY <1>7, <2>3, <2>4
  <2>7. AccSays(graph, f, base, qs \cup {[gate |-> g, idx |-> j]}, SensitizedLink(d, g, j))
    <3>1. \A p \in qs : graph.gates[p.gate].expanded[p.idx].output \in Slots(graph)
      BY <2>5, PlacesDrive
    <3> QED BY <1>1, <2>6, <3>1, LinkAdds
  <2>8. upto[k + 1] = SensitizedLink(d, g, j)
    BY <1>5, <2>1, <2>2, <2>3
  <2>9. Places(k + 1) = qs \cup {[gate |-> g, idx |-> j]}
    <3>1. \A i : i \in 1 .. k + 1 <=> i \in 1 .. k \/ i = k + 1
      BY <1>7
    <3> QED BY <2>2, <2>4, <3>1
  <2> QED BY <2>7, <2>8, <2>9
<1>8. ASSUME NEW k \in B
      PROVE  k + 1 \in B
  <2>1. k \in Nat /\ (k + 1 <= n => k <= n)
    BY <1>3
  <2> HIDE DEF Fine
  <2> QED BY <1>7, <2>1
<1>9. n \in B
  <2>1. B \in SUBSET Nat
    OBVIOUS
  <2>2. 0 \in B
    <3> HIDE DEF Fine
    <3> QED BY <1>6
  <2> HIDE DEF B
  <2> QED BY <1>3, <1>8, <2>1, <2>2, InductionOverNat
<1>10. Fine(n)
  <2> HIDE DEF Fine
  <2> QED BY <1>3, <1>9
<1>11. Places(n) = ps \cup LinkPlaces(graph, g)
  BY <1>1, <1>3 DEF LinkPlaces
<1> QED BY <1>5, <1>10, <1>11

\* The links of the gates in gs.
AllPlaces(gr, gs) == UNION {LinkPlaces(gr, g) : g \in gs}

LEMMA GatesAdd ==
  ASSUME NEW rank, NEW first, Chained(graph, rank, first), NEW f, f.line \in NamedLines(graph),
         NEW base, NEW acc, AccSays(graph, f, base, {}, acc),
         NEW list \in Seq(DOMAIN graph.gates)
  PROVE  AccSays(graph, f, base, AllPlaces(graph, Range(list)), SensitizedAll(acc, list))
<1>1. PICK n : n = Len(list)
  OBVIOUS
<1>2. n \in Nat /\ DOMAIN list = 1 .. n /\ \A k \in 1 .. n : list[k] \in DOMAIN graph.gates
  BY <1>1, SeqElements
<1>3. PICK upto : SensitizedAllBy(acc, list, upto)
  BY <1>1, <1>2, SensitizedAllSteps
<1>4. /\ upto[0] = acc /\ SensitizedAll(acc, list) = upto[n]
      /\ \A k \in 1 .. n : upto[k] = Sensitized(upto[k - 1], list[k])
  BY <1>1, <1>3 DEF SensitizedAllBy
<1> DEFINE Met(k) == {list[i] : i \in 1 .. k}
           Fine(k) == AccSays(graph, f, base, AllPlaces(graph, Met(k)), upto[k])
           B == {k \in Nat : k <= n => Fine(k)}
<1>5. Fine(0)
  <2>1. 1 .. 0 = {}
    OBVIOUS
  <2>2. AllPlaces(graph, Met(0)) = {}
    BY <2>1 DEF AllPlaces
  <2> QED BY <1>4, <2>2
<1>6. ASSUME NEW k \in Nat, k + 1 <= n, Fine(k)
      PROVE  Fine(k + 1)
  <2>1. k + 1 \in 1 .. n /\ (k + 1) - 1 = k
    BY <1>6
  <2>2. PICK g \in DOMAIN graph.gates : g = list[k + 1]
    BY <1>2, <2>1
  <2>3. PICK d : d = upto[k]
    OBVIOUS
  <2>4. PICK qs : qs = AllPlaces(graph, Met(k))
    OBVIOUS
  <2>5. \A h \in Met(k) : h \in DOMAIN graph.gates
    <3>1. 1 .. k \subseteq 1 .. n
      BY <1>2, <1>6
    <3> QED BY <1>2, <3>1
  <2>6. PlacesKnown(graph, qs)
    BY <2>4, <2>5 DEF PlacesKnown, AllPlaces, LinkPlaces
  <2>7. AccSays(graph, f, base, qs, d)
    BY <1>6, <2>3, <2>4
  <2>8. AccSays(graph, f, base, qs \cup LinkPlaces(graph, g), Sensitized(d, g))
    BY <2>6, <2>7, GateAdds
  <2>9. upto[k + 1] = Sensitized(d, g)
    BY <1>4, <2>1, <2>2, <2>3
  <2>10. AllPlaces(graph, Met(k + 1)) = qs \cup LinkPlaces(graph, g)
    <3>1. \A i : i \in 1 .. k + 1 <=> i \in 1 .. k \/ i = k + 1
      BY <1>6
    <3>2. \A h : h \in Met(k + 1) <=> h \in Met(k) \/ h = g
      BY <2>2, <3>1
    <3>3. \A p : p \in AllPlaces(graph, Met(k + 1)) <=> p \in qs \/ p \in LinkPlaces(graph, g)
      <4> HIDE DEF Met
      <4> QED BY <2>4, <3>2 DEF AllPlaces
    <3> HIDE DEF Met
    <3> QED BY <3>3
  <2> QED BY <2>8, <2>9, <2>10
<1>7. ASSUME NEW k \in B
      PROVE  k + 1 \in B
  <2>1. k \in Nat /\ (k + 1 <= n => k <= n)
    BY <1>2
  <2> HIDE DEF Fine
  <2> QED BY <1>6, <2>1
<1>8. n \in B
  <2>1. B \in SUBSET Nat
    OBVIOUS
  <2>2. 0 \in B
    <3> HIDE DEF Fine
    <3> QED BY <1>5
  <2> HIDE DEF B
  <2> QED BY <1>2, <1>7, <2>1, <2>2, InductionOverNat
<1>9. Fine(n)
  <2> HIDE DEF Fine
  <2> QED BY <1>2, <1>8
<1>10. Met(n) = Range(list)
  BY <1>2 DEF Range
<1> QED BY <1>4, <1>9, <1>10

------------------------------------------------------------------------------
\* The gates add_sensitization goes through.
DestsInOrder(gr, l) == [k \in DOMAIN gr.lines[l].dests |-> gr.lines[l].dests[k].gate]

EnteredFirst(f) == IF f.is_stem \/ f.is_primary_output THEN <<>> ELSE <<f.connection.gate>>

LinesBehind(f, cn) == {l \in cn.lines_inside : f.is_stem \/ l # f.line}

GatesBehind(gr, f, cn) ==
  FlattenSeq([k \in DOMAIN Ascending(LinesBehind(f, cn)) |->
                DestsInOrder(gr, Ascending(LinesBehind(f, cn))[k])])

LEMMA DestsListed ==
  ASSUME NEW gr, NEW rank, Walkable(gr, rank), NEW l \in DOMAIN gr.lines
  PROVE  /\ DestsInOrder(gr, l) \in Seq(DOMAIN gr.gates)
         /\ \A g : g \in Range(DestsInOrder(gr, l)) <=> g \in DestinationGates(gr, l)
         /\ l \notin NamedLines(gr) => DestinationGates(gr, l) = {}
<1>1. PICK ds : ds = gr.lines[l].dests
  OBVIOUS
<1>2. PICK gates : gates = DestsInOrder(gr, l)
  OBVIOUS
<1>3. gates = [k \in DOMAIN ds |-> ds[k].gate]
  BY <1>1, <1>2 DEF DestsInOrder
<1>4. Len(ds) \in Nat /\ DOMAIN ds = 1 .. Len(ds)
  <2>1. gr.lines[l] \in LineType(STRING)
    BY GraphParts DEF Walkable, GraphSound
  <2>2. ds \in Seq([gate : Nat, idx : Nat])
    BY <1>1, <2>1 DEF LineType
  <2> QED BY <2>2
<1>5. \A c : c \in Range(ds) <=> \E k \in DOMAIN ds : c = ds[k]
  BY DEF Range
<1>6. \A g : g \in Range(gates) <=> g \in DestinationGates(gr, l)
  <2>1. \A g : g \in Range(gates) <=> \E k \in DOMAIN ds : g = ds[k].gate
    BY <1>3 DEF Range
  <2>2. \A g : g \in DestinationGates(gr, l) <=> \E c \in Range(ds) : g = c.gate
    BY <1>1 DEF DestinationGates
  <2> QED BY <1>5, <2>1, <2>2
<1>7. gates \in Seq(DOMAIN gr.gates)
  <2>1. \A c \in Range(ds) : c.gate \in DOMAIN gr.gates
    BY <1>1 DEF Walkable, GraphSound, DestsSound
  <2>2. \A k \in DOMAIN ds : ds[k].gate \in DOMAIN gr.gates
    BY <1>5, <2>1
  <2>3. PICK n \in Nat : n = Len(ds)
    BY <1>4
  <2>4. gates \in [1 .. n -> DOMAIN gr.gates]
    BY <1>3, <1>4, <2>2, <2>3
  <2> QED BY <2>4, SeqDef
<1>8. l \notin NamedLines(gr) => DestinationGates(gr, l) = {}
  <2>1. SUFFICES ASSUME l \notin NamedLines(gr)
                 PROVE  DestinationGates(gr, l) = {}
    OBVIOUS
  <2>2. gr.lines[l].dests = <<>>
    BY <2>1 DEF Walkable, GraphSound, LinesSound, NamedLines
  <2>3. Range(gr.lines[l].dests) = {}
    BY <2>2 DEF Range
  <2> QED BY <2>3 DEF DestinationGates
<1> QED BY <1>2, <1>6, <1>7, <1>8

LEMMA ConeLines ==
  ASSUME NEW gr, NEW rank, NEW first, NEW f, NEW gs, NEW gb, NEW fc,
         Setting(gr, rank, first, f, gs, gb, fc)
  PROVE  /\ fc.lines_inside \subseteq DOMAIN gr.lines
         /\ fc.boundary_lines \subseteq DOMAIN gr.lines
         /\ fc.primary_outputs_inside \subseteq DOMAIN gr.lines
         /\ DOMAIN gr.lines \subseteq Nat \ {0} /\ IsFiniteSet(DOMAIN gr.lines)
         /\ DOMAIN gr.lines = 1 .. Len(gr.lines) /\ Len(gr.lines) \in Nat
<1>1. /\ Walkable(gr, rank) /\ Chained(gr, rank, first) /\ gs \subseteq DOMAIN gr.gates
      /\ f.line \in DOMAIN gr.lines
  BY SettingFacts, NamedAreLines DEF Setting
<1>2. DOMAIN gr.lines = 1 .. Len(gr.lines) /\ Len(gr.lines) \in Nat
  BY <1>1, GraphParts DEF Walkable, GraphSound
<1>3. IsFiniteSet(DOMAIN gr.lines)
  <2>1. PICK n \in Nat : n = Len(gr.lines)
    BY <1>2
  <2>2. PICK I : I = 1 .. n
    OBVIOUS
  <2>3. IsFiniteSet(I)
    BY <2>2, FS_Interval
  <2> QED BY <1>2, <2>1, <2>2, <2>3
<1>4. ASSUME NEW g \in gs
      PROVE  LinkOutputs(gr, g) \subseteq DOMAIN gr.lines /\ LinkInputs(gr, g) \subseteq DOMAIN gr.lines
  <2>1. LinkLines(gr, g)
    BY <1>1, <1>4, LinkLinesAre
  <2>2. \A k \in DOMAIN gr.gates[g].inputs : gr.gates[g].inputs[k] \in DOMAIN gr.lines
    BY <1>1, <1>4, GateShape, NamedAreLines
  <2> QED BY <2>1, <2>2 DEF LinkLines
<1>5. Inside(gr, f, gs) \subseteq DOMAIN gr.lines
  BY <1>1, <1>4 DEF Inside, OutputsOf
<1>6. ASSUME NEW l \in fc.boundary_lines
      PROVE  l \in DOMAIN gr.lines
  <2>1. PICK g \in gs : l \in Around(gr, f, g, Inside(gr, f, gs))
    BY DEF Setting, ConeSound
  <2>2. l \in LinkInputs(gr, g)
    BY <2>1 DEF Around
  <2> QED BY <1>4, <2>2
<1>7. fc.primary_outputs_inside \subseteq DOMAIN gr.lines
  <2>1. OutputsOf(gr, gs) \subseteq DOMAIN gr.lines
    BY <1>4 DEF OutputsOf
  <2> QED BY <1>1, <2>1 DEF Setting, ConeSound
<1> QED BY <1>2, <1>3, <1>5, <1>6, <1>7 DEF Setting, ConeSound

LEMMA GatesBehindAre ==
  ASSUME NEW gr, NEW rank, NEW first, NEW f, NEW gs, NEW gb, NEW fc,
         Setting(gr, rank, first, f, gs, gb, fc)
  PROVE  /\ GatesBehind(gr, f, fc) \in Seq(DOMAIN gr.gates)
         /\ \A g : g \in Range(GatesBehind(gr, f, fc)) <=>
              \E l \in LinesBehind(f, fc) : g \in DestinationGates(gr, l)
<1>1. PICK S : S = LinesBehind(f, fc)
  OBVIOUS
<1>2. Walkable(gr, rank) /\ S \subseteq DOMAIN gr.lines /\ S \in SUBSET (Nat \ {0}) /\ IsFiniteSet(S)
  <2>1. S \subseteq DOMAIN gr.lines
    BY <1>1, ConeLines DEF LinesBehind
  <2> QED BY <2>1, ConeLines, FS_Subset, SettingFacts
<1>3. PICK ls : ls = Ascending(S)
  OBVIOUS
<1>4. ls \in Seq(Nat) /\ Range(ls) = S
  BY <1>2, <1>3, AscendingSorts
<1>5. PICK n \in Nat : n = Len(ls)
  BY <1>4
<1>6. DOMAIN ls = 1 .. n
  BY <1>4, <1>5
<1>7. \A l : l \in S <=> \E k \in 1 .. n : l = ls[k]
  BY <1>4, <1>6 DEF Range
<1>8. PICK rows : rows = [k \in 1 .. n |-> DestsInOrder(gr, ls[k])]
  OBVIOUS
<1>9. \A k \in 1 .. n : /\ rows[k] \in Seq(DOMAIN gr.gates)
                       /\ \A g : g \in Range(rows[k]) <=> g \in DestinationGates(gr, ls[k])
  <2>1. ASSUME NEW k \in 1 .. n
        PROVE  /\ rows[k] \in Seq(DOMAIN gr.gates)
               /\ \A g : g \in Range(rows[k]) <=> g \in DestinationGates(gr, ls[k])
    <3>1. PICK l \in DOMAIN gr.lines : l = ls[k]
      BY <1>2, <1>7
    <3>2. rows[k] = DestsInOrder(gr, l)
      BY <1>8, <3>1
    <3> QED BY <1>2, <3>1, <3>2, DestsListed
  <2> QED BY <2>1
<1>10. rows \in [1 .. n -> Seq(DOMAIN gr.gates)]
  BY <1>8, <1>9
<1>11. PICK R : R = DOMAIN gr.gates
  OBVIOUS
<1>12. /\ FlattenSeq(rows) \in Seq(R)
       /\ \A x : x \in Range(FlattenSeq(rows)) <=> \E i \in 1 .. n : x \in Range(rows[i])
  BY <1>10, <1>11, FlattenRange
<1>13. GatesBehind(gr, f, fc) = FlattenSeq(rows)
  BY <1>1, <1>3, <1>6, <1>8 DEF GatesBehind
<1>14. ASSUME NEW g
       PROVE  (\E i \in 1 .. n : g \in Range(rows[i])) <=> \E l \in S : g \in DestinationGates(gr, l)
  BY <1>7, <1>9
<1> QED BY <1>1, <1>11, <1>12, <1>13, <1>14

\* They are the gates the fault can reach, each of them once.
LEMMA SensitizedGates ==
  ASSUME NEW gr, NEW rank, NEW first, NEW f, NEW gs, NEW gb, NEW fc,
         Setting(gr, rank, first, f, gs, gb, fc)
  PROVE  /\ Once(EnteredFirst(f) \o GatesBehind(gr, f, fc)) \in Seq(DOMAIN gr.gates)
         /\ Range(Once(EnteredFirst(f) \o GatesBehind(gr, f, fc))) = gs
<1>1. /\ Walkable(gr, rank) /\ ConeFacts(gr, f, gs) /\ FaultShape(gr, f)
      /\ Chained(gr, rank, first) /\ gs \subseteq DOMAIN gr.gates
      /\ WalkClosed(DOMAIN gr.gates, Ahead(gr), From(gr, f), gs)
      /\ f.line \in NamedLines(gr) /\ f.line \in DOMAIN gr.lines
  <2>1. FaultShape(gr, f) /\ Chained(gr, rank, first) /\ ConeSound(gr, f, gs, fc)
    BY DEF Setting
  <2>2. Walkable(gr, rank) /\ ConeFacts(gr, f, gs) /\ gs \subseteq DOMAIN gr.gates
        /\ f.line \in NamedLines(gr)
    BY SettingFacts
  <2>3. f.line \in DOMAIN gr.lines
    BY <2>2, NamedAreLines
  <2>4. WalkClosed(DOMAIN gr.gates, Ahead(gr), From(gr, f), gs)
    BY <2>1 DEF ConeSound
  <2> QED BY <2>1, <2>2, <2>3, <2>4
<1>2. PICK R : R = DOMAIN gr.gates
  OBVIOUS
<1>3. PICK s : s = EnteredFirst(f)
  OBVIOUS
<1>4. s \in Seq(R) /\ \A g : g \in Range(s) <=> ~f.is_stem /\ ~f.is_primary_output /\ g = f.connection.gate
  <2>1. CASE f.is_stem \/ f.is_primary_output
    <3>1. s = <<>>
      BY <1>3, <2>1 DEF EnteredFirst
    <3>2. Range(s) = {} /\ s \in Seq(R)
      BY <3>1 DEF Range
    <3> QED BY <2>1, <3>2
  <2>2. CASE ~(f.is_stem \/ f.is_primary_output)
    <3>1. f.connection.gate \in R
      BY <1>1, <1>2, <2>2, ReadersAre DEF FaultShape
    <3>2. PICK g0 \in R : g0 = f.connection.gate
      BY <3>1
    <3>3. s = <<g0>>
      BY <1>3, <2>2, <3>2 DEF EnteredFirst
    <3>4. s \in Seq(R) /\ DOMAIN s = {1} /\ s[1] = g0
      BY <3>3
    <3> QED BY <2>2, <3>2, <3>4 DEF Range
  <2> QED BY <2>1, <2>2
<1>5. PICK t : t = GatesBehind(gr, f, fc)
  OBVIOUS
<1>6. t \in Seq(R) /\ \A g : g \in Range(t) <=>
        \E l \in LinesBehind(f, fc) : g \in DestinationGates(gr, l)
  BY <1>2, <1>5, GatesBehindAre
<1>7. s \o t \in Seq(R) /\ \A g : g \in Range(s \o t) <=> g \in Range(s) \/ g \in Range(t)
  BY <1>4, <1>6, JoinedRange
<1>8. PICK all : all = s \o t
  OBVIOUS
<1>9. Once(all) \in Seq(R) /\ Range(Once(all)) = Range(all)
  BY <1>7, <1>8, OnceHolds
<1>10. fc.lines_inside = {f.line} \cup OutputsOf(gr, gs)
  BY DEF Setting, ConeSound, Inside
<1>11. \A l : l \in LinesBehind(f, fc) <=>
         (l = f.line \/ l \in OutputsOf(gr, gs)) /\ (f.is_stem \/ l # f.line)
  BY <1>10 DEF LinesBehind
<1>12. ASSUME NEW g \in Range(all)
       PROVE  g \in gs
  <2>1. CASE g \in Range(s)
    <3>1. From(gr, f) = {g}
      BY <1>4, <2>1 DEF From
    <3> QED BY <1>1, <3>1 DEF ConeFacts
  <2>2. CASE g \in Range(t)
    <3>1. PICK l \in LinesBehind(f, fc) : g \in DestinationGates(gr, l)
      BY <1>6, <2>2
    <3>2. CASE l = f.line
      <4>1. From(gr, f) = DestinationGates(gr, l)
        BY <1>11, <3>2 DEF From
      <4> QED BY <1>1, <3>1, <4>1 DEF ConeFacts
    <3>3. CASE l # f.line
      <4>1. PICK h \in gs : l \in LinkOutputs(gr, h)
        BY <1>11, <3>3 DEF OutputsOf
      <4>2. LinkLines(gr, h)
        BY <1>1, LinkLinesAre
      <4>3. l \in NamedLines(gr)
        BY <1>1, <3>1, <4>1, <4>2, DestsListed DEF LinkLines
      <4>4. l = gr.gates[h].output
        BY <4>1, <4>2, <4>3 DEF LinkLines
      <4>5. g \in Ahead(gr)[h]
        BY <1>1, <3>1, <4>4 DEF Ahead
      <4> QED BY <1>1, <4>5 DEF WalkClosed
    <3> QED BY <3>2, <3>3
  <2> QED BY <1>7, <1>8, <2>1, <2>2
<1>13. ASSUME NEW g \in gs
       PROVE  g \in Range(all)
  <2>1. CASE g \in From(gr, f)
    <3>1. CASE f.is_stem
      <4>1. g \in DestinationGates(gr, f.line)
        BY <2>1, <3>1 DEF From
      <4>2. f.line \in LinesBehind(f, fc)
        BY <1>11, <3>1
      <4> QED BY <1>6, <1>7, <1>8, <4>1, <4>2
    <3>2. CASE ~f.is_stem
      <4>1. ~f.is_primary_output /\ g = f.connection.gate
        BY <2>1, <3>2 DEF From
      <4> QED BY <1>4, <1>7, <1>8, <3>2, <4>1
    <3> QED BY <3>1, <3>2
  <2>2. CASE g \notin From(gr, f)
    <3>1. PICK h \in gs : g \in Ahead(gr)[h]
      BY <1>1, <2>2 DEF WalkClosed
    <3>2. PICK l : l = gr.gates[h].output
      OBVIOUS
    <3>3. g \in DestinationGates(gr, l)
      BY <1>1, <3>1, <3>2 DEF Ahead
    <3>4. l # f.line
      BY <1>1, <3>2 DEF ConeFacts
    <3>5. l \in OutputsOf(gr, gs)
      BY <1>1, <3>2, LinkLinesAre DEF OutputsOf, LinkLines
    <3>6. l \in LinesBehind(f, fc)
      BY <1>11, <3>4, <3>5
    <3> QED BY <1>6, <1>7, <1>8, <3>3, <3>6
  <2> QED BY <2>1, <2>2
<1>14. Range(all) = gs
  BY <1>12, <1>13
<1> QED BY <1>2, <1>3, <1>5, <1>8, <1>9, <1>14

------------------------------------------------------------------------------
\* What the formula says when p of its parts stand: of the values T and of the lines
\* D that differ.
Said(gr, f, gs, gb, cn, p, T, D) ==
  /\ BaseSays(gr, gb, T)
  /\ p >= 1 => \A g \in gs : GateTells(gr, f, T, D, g)
  /\ p >= 2 => f.line \in D /\ BitIn(T, f.line) = 1 - f.stuck_at
  /\ p >= 3 => \A l \in QuietLines(gr, f, gs) : l \notin D
  /\ p >= 4 => \E l \in cn.primary_outputs_inside : l \in D

\* The clauses F say that, by the literals in c.
PartSays(gr, f, gs, gb, cn, p, c, F) ==
  /\ GoodContext(gr, f, c)
  /\ Bounded(F, c.max_literal)
  /\ p >= 1 => \A l \in OutputsOf(gr, gs) : c.sens[l] # 0
  /\ \A T, D : Told(gr, c, T, D) => (AllHold(T, F) <=> Said(gr, f, gs, gb, cn, p, T, D))

LEMMA BasePart ==
  ASSUME NEW rank, NEW first, NEW f, NEW gs, NEW gb, NEW cn,
         Setting(graph, rank, first, f, gs, gb, cn),
         NEW c, GoodContext(graph, f, c)
  PROVE  PartSays(graph, f, gs, gb, cn, 0, c, ClausesOf(gb))
<1>1. Chained(graph, rank, first) /\ gb \subseteq DOMAIN graph.gates /\ Len(graph.lines) \in Nat
  BY SettingFacts, ConeLines DEF Setting
<1>2. PICK B \in SUBSET DOMAIN graph.gates : B = gb
  BY <1>1
<1>3. /\ Bounded(ClausesOf(B), Len(graph.lines))
      /\ \A T : AllHold(T, ClausesOf(B)) <=> BaseSays(graph, B, T)
  BY <1>1, BaseClauses
<1>4. c.max_literal \in Nat /\ Len(graph.lines) <= c.max_literal
  BY <1>1 DEF GoodContext
<1>5. Bounded(ClausesOf(B), c.max_literal)
  BY <1>1, <1>3, <1>4, BoundedFurther
<1>6. \A T, D : Said(graph, f, gs, gb, cn, 0, T, D) <=> BaseSays(graph, gb, T)
  BY DEF Said
<1> QED BY <1>2, <1>3, <1>5, <1>6 DEF PartSays

LEMMA ClosedOutputs ==
  ASSUME NEW gr, NEW rank, NEW first, NEW f, NEW gs, NEW gb, NEW cn,
         Setting(gr, rank, first, f, gs, gb, cn)
  PROVE  OutputsOf(gr, gs) \subseteq DOMAIN gr.lines
<1>1. Chained(gr, rank, first) /\ gs \subseteq DOMAIN gr.gates
  BY SettingFacts DEF Setting
<1>2. \A g \in gs : LinkLines(gr, g)
  BY <1>1, LinkLinesAre
<1> QED BY <1>2 DEF LinkLines, OutputsOf

\* add_sensitization, from the formula of the circuit part.
LEMMA SensitizationPart ==
  ASSUME NEW rank, NEW first, NEW f, NEW gs, NEW gb, NEW cn,
         Setting(graph, rank, first, f, gs, gb, cn),
         NEW c, NEW F, PartSays(graph, f, gs, gb, cn, 0, c, F),
         NEW acc, acc = [context |-> c, cnf |-> F],
         NEW list, list = Once(EnteredFirst(f) \o GatesBehind(graph, f, cn)),
         NEW r, r = SensitizedAll(acc, list)
  PROVE  PartSays(graph, f, gs, gb, cn, 1, r.context, r.cnf)
<1>1. Chained(graph, rank, first) /\ f.line \in NamedLines(graph)
  BY SettingFacts DEF Setting
<1>2. list \in Seq(DOMAIN graph.gates) /\ Range(list) = gs
  BY SensitizedGates
<1>3. acc.context = c /\ acc.cnf = F
  OBVIOUS
<1>4. AccSays(graph, f, F, {}, acc)
  BY <1>3 DEF AccSays, PartSays
<1>5. AccSays(graph, f, F, AllPlaces(graph, Range(list)), r)
  BY <1>1, <1>2, <1>4, GatesAdd
<1>6. AccSays(graph, f, F, AllPlaces(graph, gs), r)
  BY <1>2, <1>5
<1>7. \A T : AllHold(T, F) <=> BaseSays(graph, gb, T)
  <2>1. TAKE T
  <2>2. PICK D : Told(graph, c, T, D)
    BY WhatIsTold
  <2>3. AllHold(T, F) <=> Said(graph, f, gs, gb, cn, 0, T, D)
    BY <2>2 DEF PartSays
  <2> QED BY <2>3 DEF Said
<1>8. ASSUME NEW T, NEW D
      PROVE  (\A p \in AllPlaces(graph, gs) : LinkTells(graph, f, T, D, p.gate, p.idx))
               <=> \A g \in gs : GateTells(graph, f, T, D, g)
  <2>1. ASSUME \A p \in AllPlaces(graph, gs) : LinkTells(graph, f, T, D, p.gate, p.idx),
               NEW g \in gs, NEW k \in DOMAIN graph.gates[g].expanded
        PROVE  LinkTells(graph, f, T, D, g, k)
    <3>1. PICK p : p = [gate |-> g, idx |-> k]
      OBVIOUS
    <3>2. p \in AllPlaces(graph, gs)
      BY <3>1 DEF AllPlaces, LinkPlaces
    <3>3. p.gate = g /\ p.idx = k
      BY <3>1
    <3> QED BY <2>1, <3>2, <3>3
  <2>2. ASSUME \A g \in gs : GateTells(graph, f, T, D, g), NEW p \in AllPlaces(graph, gs)
        PROVE  LinkTells(graph, f, T, D, p.gate, p.idx)
    <3>1. PICK g \in gs : p \in LinkPlaces(graph, g)
      BY DEF AllPlaces
    <3>2. PICK k \in DOMAIN graph.gates[g].expanded : p = [gate |-> g, idx |-> k]
      BY <3>1 DEF LinkPlaces
    <3>3. p.gate = g /\ p.idx = k
      BY <3>2
    <3>4. LinkTells(graph, f, T, D, g, k)
      BY <2>2 DEF GateTells
    <3> QED BY <3>3, <3>4
  <2> QED BY <2>1, <2>2 DEF GateTells
<1>9. \A T, D : Said(graph, f, gs, gb, cn, 1, T, D) <=>
        BaseSays(graph, gb, T) /\ \A g \in gs : GateTells(graph, f, T, D, g)
  BY DEF Said
<1>10. ASSUME NEW l \in OutputsOf(graph, gs)
       PROVE  r.context.sens[l] # 0
  <2>1. PICK g \in gs : l \in LinkOutputs(graph, g)
    BY DEF OutputsOf
  <2>2. PICK e \in Range(graph.gates[g].expanded) : l = e.output
    BY <2>1 DEF LinkOutputs
  <2>3. PICK k \in DOMAIN graph.gates[g].expanded : e = graph.gates[g].expanded[k]
    BY DEF Range
  <2>4. PICK p : p = [gate |-> g, idx |-> k]
    OBVIOUS
  <2>5. p \in AllPlaces(graph, gs)
    BY <2>4 DEF AllPlaces, LinkPlaces
  <2>6. p.gate = g /\ p.idx = k
    BY <2>4
  <2>7. r.context.sens[graph.gates[p.gate].expanded[p.idx].output] # 0
    BY <1>6, <2>5 DEF AccSays
  <2> QED BY <2>2, <2>3, <2>6, <2>7
<1>11. GoodContext(graph, f, r.context) /\ Bounded(r.cnf, r.context.max_literal)
  BY <1>6 DEF AccSays
<1>12. ASSUME NEW T, NEW D, Told(graph, r.context, T, D)
       PROVE  AllHold(T, r.cnf) <=> Said(graph, f, gs, gb, cn, 1, T, D)
  <2>1. AllHold(T, r.cnf) <=>
          AllHold(T, F) /\ \A p \in AllPlaces(graph, gs) : LinkTells(graph, f, T, D, p.gate, p.idx)
    BY <1>6, <1>12 DEF AccSays
  <2> QED BY <1>7, <1>8, <1>9, <2>1
<1> QED BY <1>10, <1>11, <1>12 DEF PartSays

\* The clauses C, with literals for more lines, say what part q says more than p.
SaysMore(gr, f, gs, gb, cn, p, q, d, C) ==
  \A T, D : Told(gr, d, T, D) =>
    (Said(gr, f, gs, gb, cn, q, T, D) <=> Said(gr, f, gs, gb, cn, p, T, D) /\ AllHold(T, C))

LEMMA PartGrows ==
  ASSUME NEW gr, NEW f, NEW gs, NEW gb, NEW cn, NEW p \in 1 .. 4, NEW q \in 1 .. 4,
         NEW c, NEW F, PartSays(gr, f, gs, gb, cn, p, c, F),
         OutputsOf(gr, gs) \subseteq Slots(gr),
         NEW d, GoodContext(gr, f, d), Grows(gr, c, d), NEW C, Bounded(C, d.max_literal),
         SaysMore(gr, f, gs, gb, cn, p, q, d, C)
  PROVE  PartSays(gr, f, gs, gb, cn, q, d, F \cup C)
<1>1. c.max_literal \in Nat /\ d.max_literal \in Nat /\ c.max_literal <= d.max_literal
  BY DEF PartSays, GoodContext, Grows
<1>2. Bounded(F, d.max_literal)
  BY <1>1, BoundedFurther DEF PartSays
<1>3. Bounded(F \cup C, d.max_literal)
  BY <1>2, BoundedUnion
<1>4. \A l \in OutputsOf(gr, gs) : c.sens[l] # 0
  BY DEF PartSays
<1>5. \A l \in OutputsOf(gr, gs) : d.sens[l] # 0
  BY <1>4 DEF Grows
<1>6. ASSUME NEW T, NEW D, Told(gr, d, T, D)
      PROVE  AllHold(T, F \cup C) <=> Said(gr, f, gs, gb, cn, q, T, D)
  <2>1. Told(gr, c, T, D)
    BY <1>6, ToldBefore
  <2>2. AllHold(T, F) <=> Said(gr, f, gs, gb, cn, p, T, D)
    BY <2>1 DEF PartSays
  <2> QED BY <1>6, <2>2, AllHoldUnion DEF SaysMore
<1> QED BY <1>3, <1>5, <1>6 DEF PartSays

------------------------------------------------------------------------------
\* What a literal says under T is what D says of its line.
LEMMA ToldLiteral ==
  ASSUME NEW gr, Len(gr.lines) \in Nat, NEW f, NEW c, GoodContext(gr, f, c), NEW T, NEW D,
         Told(gr, c, T, D), NEW l \in Slots(gr), c.sens[l] # 0
  PROVE  /\ c.sens[l] \in Literals /\ -c.sens[l] \in Literals
         /\ Holds(T, c.sens[l]) <=> l \in D
         /\ Holds(T, -c.sens[l]) <=> l \notin D
         /\ -c.max_literal <= c.sens[l] /\ c.sens[l] <= c.max_literal
         /\ -c.max_literal <= -c.sens[l] /\ -c.sens[l] <= c.max_literal
<1>1. PICK x : x = c.sens[l]
  OBVIOUS
<1>2. x \in Nat /\ x # 0 /\ x < c.max_literal /\ c.max_literal \in Nat
  BY <1>1 DEF GoodContext
<1>3. x \in T <=> l \in D
  BY <1>1 DEF Told
<1>4. x \in Literals /\ -x \in Literals /\ (Holds(T, x) <=> x \in T) /\ (Holds(T, -x) <=> ~Holds(T, x))
  BY <1>2, Positive, Negated
<1>5. PICK m \in Nat : m = c.max_literal
  BY <1>2
<1>6. -m <= x /\ x <= m /\ -m <= -x /\ -x <= m
  BY <1>2, <1>5
<1> QED BY <1>1, <1>3, <1>4, <1>5, <1>6

LEMMA OneSlot ==
  ASSUME NEW gr, NEW l \in Slots(gr)
  PROVE  <<l>> \in Seq(Slots(gr)) /\ l \in Range(<<l>>)
<1>1. \A S : \A x \in S : <<x>> \in Seq(S)
  OBVIOUS
<1>2. DOMAIN <<l>> = 1 .. 1 /\ <<l>>[1] = l /\ 1 \in 1 .. 1
  OBVIOUS
<1> QED BY <1>1, <1>2 DEF Range

\* add_fault_activation.
LEMMA ActivationPart ==
  ASSUME NEW rank, NEW first, NEW f, NEW gs, NEW gb, NEW cn,
         Setting(graph, rank, first, f, gs, gb, cn),
         NEW c, NEW F, PartSays(graph, f, gs, gb, cn, 1, c, F),
         NEW d, d = Allocate(c, <<f.line>>)
  PROVE  PartSays(graph, f, gs, gb, cn, 2, d, F \cup {{d.sens[f.line]}, {Activated(f)}})
<1>1. /\ Len(graph.lines) \in Nat /\ DOMAIN graph.lines = 1 .. Len(graph.lines)
      /\ f.line \in DOMAIN graph.lines /\ f.line \in Slots(graph) /\ f.stuck_at \in Bits
      /\ OutputsOf(graph, gs) \subseteq Slots(graph)
  BY SettingFacts, NamedAreLines, ConeLines, ClosedOutputs DEF Slots
<1>2. PICK one : one = <<f.line>>
  OBVIOUS
<1>3. one \in Seq(Slots(graph)) /\ f.line \in Range(one)
  BY <1>1, <1>2, OneSlot
<1>4. GoodContext(graph, f, c)
  BY DEF PartSays
<1>5. GoodContext(graph, f, d) /\ Grows(graph, c, d) /\ d.sens[f.line] # 0
  BY <1>1, <1>2, <1>3, <1>4, AllocateGood
<1>6. PICK a : a = Activated(f)
  OBVIOUS
<1>7. \A T : /\ a \in Literals /\ -Len(graph.lines) <= a /\ a <= Len(graph.lines)
             /\ Holds(T, a) <=> BitIn(T, f.line) = 1 - f.stuck_at
  <2>1. PICK x \in Nat \ {0} : x = f.line
    BY <1>1
  <2>2. PICK n \in Nat : n = Len(graph.lines)
    BY <1>1
  <2>3. x <= n /\ -n <= x /\ -x <= n /\ -n <= -x
    BY <1>1, <2>1, <2>2
  <2>4. x \in Literals /\ -x \in Literals
        /\ \A T : (Holds(T, x) <=> x \in T) /\ (Holds(T, -x) <=> ~Holds(T, x))
    BY Positive, Negated
  <2>5. CASE f.stuck_at = 0
    <3>1. a = x
      BY <1>6, <2>1, <2>5 DEF Activated
    <3>2. 1 - f.stuck_at = 1
      BY <2>5
    <3> QED BY <2>1, <2>2, <2>3, <2>4, <3>1, <3>2 DEF BitIn, BitOf
  <2>6. CASE f.stuck_at = 1
    <3>1. a = -x
      BY <1>6, <2>1, <2>6 DEF Activated
    <3>2. 1 - f.stuck_at = 0
      BY <2>6
    <3> QED BY <2>1, <2>2, <2>3, <2>4, <3>1, <3>2 DEF BitIn, BitOf
  <2> QED BY <1>1, <2>5, <2>6 DEF Bits
<1>8. PICK s : s = d.sens[f.line]
  OBVIOUS
<1>9. \A T, D : Told(graph, d, T, D) =>
        /\ s \in Literals /\ -d.max_literal <= s /\ s <= d.max_literal
        /\ Holds(T, s) <=> f.line \in D
  BY <1>1, <1>5, <1>8, ToldLiteral
<1>10. Bounded({{s}, {a}}, d.max_literal)
  <2>1. d.max_literal \in Nat /\ Len(graph.lines) < d.max_literal
    BY <1>5 DEF GoodContext
  <2>2. -d.max_literal <= a /\ a <= d.max_literal
    <3>1. PICK m \in Nat : m = d.max_literal
      BY <2>1
    <3>2. PICK n \in Nat : n = Len(graph.lines)
      BY <1>1
    <3>3. a \in Int /\ n < m /\ -n <= a /\ a <= n
      BY <1>7, <2>1, <3>1, <3>2 DEF Literals
    <3>4. -m <= a /\ a <= m
      BY <3>3
    <3> QED BY <3>1, <3>4
  <2>3. PICK D : Told(graph, d, {}, D)
    BY WhatIsTold
  <2>4. s \in Literals /\ -d.max_literal <= s /\ s <= d.max_literal
    BY <1>9, <2>3
  <2> QED BY <1>7, <2>2, <2>4 DEF Bounded
<1>11. ASSUME NEW T, NEW D, Told(graph, d, T, D)
       PROVE  Said(graph, f, gs, gb, cn, 2, T, D) <=>
                Said(graph, f, gs, gb, cn, 1, T, D) /\ AllHold(T, {{s}, {a}})
  <2>1. AllHold(T, {{s}, {a}}) <=> Holds(T, s) /\ Holds(T, a)
    <3>1. AllHold(T, {{s}, {a}}) <=> ClauseHolds(T, {s}) /\ ClauseHolds(T, {a})
      BY DEF AllHold
    <3> QED BY <3>1, OneLiteral
  <2>2. AllHold(T, {{s}, {a}}) <=> f.line \in D /\ BitIn(T, f.line) = 1 - f.stuck_at
    BY <1>7, <1>9, <1>11, <2>1
  <2> QED BY <2>2 DEF Said
<1>12. PICK C : C = {{s}, {a}}
  OBVIOUS
<1>13. PartSays(graph, f, gs, gb, cn, 2, d, F \cup C)
  <2>1. 1 \in 1 .. 4 /\ 2 \in 1 .. 4
    OBVIOUS
  <2>2. SaysMore(graph, f, gs, gb, cn, 1, 2, d, C)
    BY <1>11, <1>12 DEF SaysMore
  <2>3. Bounded(C, d.max_literal)
    BY <1>10, <1>12
  <2> QED BY <1>1, <1>5, <1>10, <1>11, <1>12, <2>1, <2>2, <2>3, PartGrows
<1> QED BY <1>6, <1>8, <1>12, <1>13

\* add_boundary_scan.
Outer(f, cn) ==
  [k \in DOMAIN Ascending(cn.boundary_lines) |->
     IF Ascending(cn.boundary_lines)[k] = f.line THEN SpecLine ELSE Ascending(cn.boundary_lines)[k]]

Quiet(gr, f, cn) == Outer(f, cn) \o IF ~f.is_stem /\ Again(gr, f) THEN <<SpecLine>> ELSE <<>>

LEMMA QuietIs ==
  ASSUME NEW gr, NEW rank, NEW first, NEW f, NEW gs, NEW gb, NEW cn,
         Setting(gr, rank, first, f, gs, gb, cn)
  PROVE  /\ Quiet(gr, f, cn) \in Seq(Slots(gr))
         /\ \A l : l \in Range(Quiet(gr, f, cn)) <=> l \in QuietLines(gr, f, gs)
<1>1. PICK S : S = cn.boundary_lines
  OBVIOUS
<1>2. S \subseteq DOMAIN gr.lines /\ S \in SUBSET (Nat \ {0}) /\ IsFiniteSet(S)
  BY <1>1, ConeLines, FS_Subset
<1>3. PICK ls : ls = Ascending(S)
  OBVIOUS
<1>4. ls \in Seq(Nat) /\ Range(ls) = S
  BY <1>2, <1>3, AscendingSorts
<1>5. PICK n \in Nat : n = Len(ls)
  BY <1>4
<1>6. DOMAIN ls = 1 .. n
  BY <1>4, <1>5
<1>7. \A l : l \in S <=> \E k \in 1 .. n : l = ls[k]
  BY <1>4, <1>6 DEF Range
<1>8. PICK R : R = Slots(gr)
  OBVIOUS
<1>9. S \subseteq R /\ SpecLine \in R
  BY <1>2, <1>8 DEF Slots
<1>10. PICK o : o = Outer(f, cn)
  OBVIOUS
<1>11. o = [k \in 1 .. n |-> IF ls[k] = f.line THEN SpecLine ELSE ls[k]]
  BY <1>1, <1>3, <1>6, <1>10 DEF Outer
<1>12. o \in Seq(R)
  <2>1. o \in [1 .. n -> R]
    BY <1>7, <1>9, <1>11
  <2> QED BY <2>1, SeqDef
<1>13. \A l : l \in Range(o) <=> \E k \in S : l = IF k = f.line THEN SpecLine ELSE k
  <2>1. \A l : l \in Range(o) <=> \E k \in 1 .. n : l = o[k]
    BY <1>11 DEF Range
  <2>2. \A k \in 1 .. n : o[k] = IF ls[k] = f.line THEN SpecLine ELSE ls[k]
    BY <1>11
  <2> QED BY <1>7, <2>1, <2>2
<1>14. PICK e : e = IF ~f.is_stem /\ Again(gr, f) THEN <<SpecLine>> ELSE <<>>
  OBVIOUS
<1>15. e \in Seq(R) /\ \A l : l \in Range(e) <=> ~f.is_stem /\ Again(gr, f) /\ l = SpecLine
  <2>1. CASE ~f.is_stem /\ Again(gr, f)
    <3>1. PICK z \in R : z = SpecLine
      BY <1>9
    <3>2. e = <<z>>
      BY <1>14, <2>1, <3>1
    <3>3. e \in Seq(R) /\ DOMAIN e = {1} /\ e[1] = z
      BY <3>2
    <3> QED BY <2>1, <3>1, <3>3 DEF Range
  <2>2. CASE ~(~f.is_stem /\ Again(gr, f))
    <3>1. e = <<>>
      BY <1>14, <2>2
    <3>2. Range(e) = {} /\ e \in Seq(R)
      BY <3>1 DEF Range
    <3> QED BY <2>2, <3>2
  <2> QED BY <2>1, <2>2
<1>16. o \o e \in Seq(R) /\ \A l : l \in Range(o \o e) <=> l \in Range(o) \/ l \in Range(e)
  BY <1>12, <1>15, JoinedRange
<1>17. Quiet(gr, f, cn) = o \o e
  BY <1>10, <1>14 DEF Quiet
<1>18. S = UNION {Around(gr, f, g, Inside(gr, f, gs)) : g \in gs}
  BY <1>1 DEF Setting, ConeSound
<1>19. ASSUME NEW l
       PROVE  l \in QuietLines(gr, f, gs) <=>
                \/ \E k \in S : l = IF k = f.line THEN SpecLine ELSE k
                \/ ~f.is_stem /\ Again(gr, f) /\ l = SpecLine
  <2>1. QuietLines(gr, f, gs) =
          {IF k = f.line THEN SpecLine ELSE k : k \in S}
          \cup IF ~f.is_stem /\ Again(gr, f) THEN {SpecLine} ELSE {}
    BY <1>18 DEF QuietLines
  <2>2. l \in {IF k = f.line THEN SpecLine ELSE k : k \in S}
          <=> \E k \in S : l = IF k = f.line THEN SpecLine ELSE k
    OBVIOUS
  <2> QED BY <2>1, <2>2
<1> QED BY <1>8, <1>13, <1>15, <1>16, <1>17, <1>19

LEMMA BoundaryPart ==
  ASSUME NEW rank, NEW first, NEW f, NEW gs, NEW gb, NEW cn,
         Setting(graph, rank, first, f, gs, gb, cn),
         NEW c, NEW F, PartSays(graph, f, gs, gb, cn, 2, c, F),
         NEW quiet, quiet = Quiet(graph, f, cn), NEW d, d = Allocate(c, quiet)
  PROVE  PartSays(graph, f, gs, gb, cn, 3, d, F \cup {{-d.sens[l]} : l \in Range(quiet)})
<1>1. Len(graph.lines) \in Nat /\ OutputsOf(graph, gs) \subseteq Slots(graph)
  BY ConeLines, ClosedOutputs DEF Slots
<1>2. /\ quiet \in Seq(Slots(graph))
      /\ \A l : l \in Range(quiet) <=> l \in QuietLines(graph, f, gs)
  BY QuietIs
<1>3. GoodContext(graph, f, c)
  BY DEF PartSays
<1>4. /\ GoodContext(graph, f, d) /\ Grows(graph, c, d)
      /\ \A l \in Range(quiet) : d.sens[l] # 0 /\ l \in Slots(graph)
  <2>1. \A l \in Range(quiet) : l \in Slots(graph)
    BY <1>2 DEF Range
  <2> QED BY <1>1, <1>2, <1>3, <2>1, AllocateGood
<1>5. PICK C : C = {{-d.sens[l]} : l \in Range(quiet)}
  OBVIOUS
<1>6. \A T, D : Told(graph, d, T, D) => \A l \in Range(quiet) :
        /\ -d.sens[l] \in Literals
        /\ -d.max_literal <= -d.sens[l] /\ -d.sens[l] <= d.max_literal
        /\ Holds(T, -d.sens[l]) <=> l \notin D
  BY <1>1, <1>4, ToldLiteral
<1>7. Bounded(C, d.max_literal)
  <2>1. PICK D : Told(graph, d, {}, D)
    BY WhatIsTold
  <2> QED BY <1>5, <1>6, <2>1 DEF Bounded
<1>8. ASSUME NEW T, NEW D, Told(graph, d, T, D)
      PROVE  Said(graph, f, gs, gb, cn, 3, T, D) <=>
               Said(graph, f, gs, gb, cn, 2, T, D) /\ AllHold(T, C)
  <2>1. AllHold(T, C) <=> \A l \in Range(quiet) : ClauseHolds(T, {-d.sens[l]})
    BY <1>5 DEF AllHold
  <2>2. AllHold(T, C) <=> \A l \in Range(quiet) : Holds(T, -d.sens[l])
    BY <2>1, OneLiteral
  <2>3. AllHold(T, C) <=> \A l \in QuietLines(graph, f, gs) : l \notin D
    BY <1>2, <1>6, <1>8, <2>2
  <2> QED BY <2>3 DEF Said
<1>9. PartSays(graph, f, gs, gb, cn, 3, d, F \cup C)
  <2>1. 2 \in 1 .. 4 /\ 3 \in 1 .. 4
    OBVIOUS
  <2>2. SaysMore(graph, f, gs, gb, cn, 2, 3, d, C)
    BY <1>8 DEF SaysMore
  <2>3. Bounded(C, d.max_literal)
    BY <1>7
  <2> QED BY <1>1, <1>4, <1>7, <1>8, <2>1, <2>2, <2>3, PartGrows
<1> QED BY <1>5, <1>9

\* add_fault_presentation.
LEMMA PresentationPart ==
  ASSUME NEW rank, NEW first, NEW f, NEW gs, NEW gb, NEW cn,
         Setting(graph, rank, first, f, gs, gb, cn),
         NEW c, NEW F, PartSays(graph, f, gs, gb, cn, 3, c, F),
         NEW d, d = Allocate(c, Ascending(cn.primary_outputs_inside))
  PROVE  PartSays(graph, f, gs, gb, cn, 4, d,
                  F \cup {{d.sens[l] : l \in cn.primary_outputs_inside}})
<1>1. Len(graph.lines) \in Nat /\ OutputsOf(graph, gs) \subseteq Slots(graph)
  BY ConeLines, ClosedOutputs DEF Slots
<1>2. PICK S : S = cn.primary_outputs_inside
  OBVIOUS
<1>3. S \subseteq DOMAIN graph.lines /\ S \in SUBSET (Nat \ {0}) /\ IsFiniteSet(S)
      /\ S \subseteq Slots(graph)
  BY <1>2, ConeLines, FS_Subset DEF Slots
<1>4. PICK ls : ls = Ascending(S)
  OBVIOUS
<1>5. ls \in Seq(Nat) /\ Range(ls) = S
  BY <1>3, <1>4, AscendingSorts
<1>6. ls \in Seq(Slots(graph))
  <2>1. PICK R : R = Slots(graph)
    OBVIOUS
  <2>2. PICK n \in Nat : n = Len(ls)
    BY <1>5
  <2>3. DOMAIN ls = 1 .. n /\ ls = [k \in 1 .. n |-> ls[k]]
    BY <1>5, <2>2
  <2>4. \A k \in 1 .. n : ls[k] \in R
    BY <1>3, <1>5, <2>1, <2>3 DEF Range
  <2>5. ls \in [1 .. n -> R]
    BY <2>3, <2>4
  <2> QED BY <2>1, <2>5, SeqDef
<1>7. GoodContext(graph, f, c)
  BY DEF PartSays
<1>8. /\ GoodContext(graph, f, d) /\ Grows(graph, c, d)
      /\ \A l \in S : d.sens[l] # 0 /\ l \in Slots(graph)
  BY <1>1, <1>2, <1>3, <1>4, <1>5, <1>6, <1>7, AllocateGood
<1>9. PICK e : e = {d.sens[l] : l \in S}
  OBVIOUS
<1>10. \A T, D : Told(graph, d, T, D) => \A l \in S :
        /\ d.sens[l] \in Literals
        /\ -d.max_literal <= d.sens[l] /\ d.sens[l] <= d.max_literal
        /\ Holds(T, d.sens[l]) <=> l \in D
  BY <1>1, <1>8, ToldLiteral
<1>11. Bounded({e}, d.max_literal)
  <2>1. PICK D : Told(graph, d, {}, D)
    BY WhatIsTold
  <2> QED BY <1>9, <1>10, <2>1 DEF Bounded
<1>12. ASSUME NEW T, NEW D, Told(graph, d, T, D)
       PROVE  Said(graph, f, gs, gb, cn, 4, T, D) <=>
                Said(graph, f, gs, gb, cn, 3, T, D) /\ AllHold(T, {e})
  <2>1. AllHold(T, {e}) <=> \E x \in e : Holds(T, x)
    BY OneClause DEF ClauseHolds
  <2>2. AllHold(T, {e}) <=> \E l \in S : Holds(T, d.sens[l])
    BY <1>9, <2>1
  <2>3. AllHold(T, {e}) <=> \E l \in S : l \in D
    BY <1>10, <1>12, <2>2
  <2> QED BY <1>2, <2>3 DEF Said
<1>13. PICK C : C = {e}
  OBVIOUS
<1>14. PartSays(graph, f, gs, gb, cn, 4, d, F \cup C)
  <2>1. 3 \in 1 .. 4 /\ 4 \in 1 .. 4
    OBVIOUS
  <2>2. SaysMore(graph, f, gs, gb, cn, 3, 4, d, C)
    BY <1>12, <1>13 DEF SaysMore
  <2>3. Bounded(C, d.max_literal)
    BY <1>11, <1>13
  <2> QED BY <1>1, <1>8, <1>11, <1>12, <1>13, <2>1, <2>2, <2>3, PartGrows
<1> QED BY <1>2, <1>9, <1>13, <1>14

------------------------------------------------------------------------------
\* The gates that drive the lines S.
Drivers(gr, S) == {gr.lines[l].source : l \in S} \ {NoGate}

LEMMA InputsAreLines ==
  ASSUME NEW gr, NEW rank, Walkable(gr, rank)
  PROVE  /\ Range(gr.ins) \subseteq NamedLines(gr)
         /\ Len(gr.lines) \in Nat /\ DOMAIN gr.lines = 1 .. Len(gr.lines)
         /\ Range(gr.ins) \subseteq 1 .. Len(gr.lines)
<1>1. Range(gr.ins) \subseteq NamedLines(gr)
  BY DEF Walkable, LinesLead
<1>2. Len(gr.lines) \in Nat /\ DOMAIN gr.lines = 1 .. Len(gr.lines)
  BY GraphParts DEF Walkable, GraphSound
<1> QED BY <1>1, <1>2, NamedAreLines

\* The circuit part of make_fault, small or whole.
LEMMA FaultStarts ==
  ASSUME NEW rank, NEW first, Chained(graph, rank, first), NEW f, FaultShape(graph, f),
         NEW cn, cn = MakeFanoutCone(f),
         NEW gb, \/ gb = DOMAIN graph.gates
                 \/ gb = Walked(Drivers(graph, cn.primary_outputs_inside), TowardInputs)
  PROVE  \E gs : Setting(graph, rank, first, f, gs, gb, cn)
<1>1. Walkable(graph, rank)
  BY DEF Chained
<1>2. PICK gs : ConeSound(graph, f, gs, cn)
  BY <1>1, ConeIsSound
<1>3. \A l \in NamedLines(graph) :
        graph.lines[l].source # NoGate => graph.lines[l].source \in DOMAIN graph.gates
  BY <1>1, LineShape
<1>4. \A g \in DOMAIN graph.gates : \A k \in DOMAIN graph.gates[g].inputs :
        graph.gates[g].inputs[k] \in NamedLines(graph)
  BY <1>1, GateShape
<1>5. cn.primary_outputs_inside \subseteq NamedLines(graph)
  <2>1. ConeFacts(graph, f, gs)
    BY <1>1, <1>2, ConeFactsHold
  <2>2. \A g \in gs : LinkLines(graph, g)
    BY <2>1, LinkLinesAre DEF ConeFacts
  <2>3. OutputsOf(graph, gs) \subseteq DOMAIN graph.lines
    BY <2>2 DEF OutputsOf, LinkLines
  <2>4. \A l \in DOMAIN graph.lines : graph.lines[l].is_output => l \in NamedLines(graph)
    BY <1>1, OutputLines
  <2>5. f.line \in NamedLines(graph)
    BY DEF FaultShape
  <2>6. cn.primary_outputs_inside =
          IF From(graph, f) = {} THEN {f.line}
          ELSE {l \in OutputsOf(graph, gs) : graph.lines[l].is_output}
    BY <1>2 DEF ConeSound
  <2>7. CASE From(graph, f) = {}
    BY <2>5, <2>6, <2>7
  <2>8. CASE From(graph, f) # {}
    BY <2>3, <2>4, <2>6, <2>8
  <2> QED BY <2>7, <2>8
<1>6. BaseSound(graph, gb, cn)
  <2>1. CASE gb = DOMAIN graph.gates
    BY <1>3, <1>4, <1>5, <2>1 DEF BaseSound
  <2>2. CASE gb = Walked(Drivers(graph, cn.primary_outputs_inside), TowardInputs)
    <3>1. PICK next : next = TowardInputs
      OBVIOUS
    <3>2. PICK from : from = Drivers(graph, cn.primary_outputs_inside)
      OBVIOUS
    <3>3. \A g : g \in from <=>
            g # NoGate /\ \E l \in cn.primary_outputs_inside : g = graph.lines[l].source
      BY <3>2 DEF Drivers
    <3>4. from \in SUBSET DOMAIN graph.gates
      BY <1>3, <1>5, <3>3
    <3>5. ASSUME NEW g \in DOMAIN graph.gates
          PROVE  /\ next[g] \in SUBSET DOMAIN graph.gates
                 /\ \A k \in DOMAIN graph.gates[g].inputs :
                      graph.lines[graph.gates[g].inputs[k]].source # NoGate =>
                        graph.lines[graph.gates[g].inputs[k]].source \in next[g]
      <4>1. next[g] = {graph.lines[l].source : l \in Range(graph.gates[g].inputs)} \ {NoGate}
        BY <3>1 DEF TowardInputs, Gates
      <4>2. \A l : l \in Range(graph.gates[g].inputs) <=>
              \E k \in DOMAIN graph.gates[g].inputs : l = graph.gates[g].inputs[k]
        BY DEF Range
      <4>3. \A h : h \in next[g] <=>
              h # NoGate /\ \E l \in Range(graph.gates[g].inputs) : h = graph.lines[l].source
        BY <4>1
      <4>4. \A h \in next[g] : h \in DOMAIN graph.gates
        BY <1>3, <1>4, <4>2, <4>3
      <4>5. \A k \in DOMAIN graph.gates[g].inputs : graph.gates[g].inputs[k] \in Range(graph.gates[g].inputs)
        BY <4>2
      <4> QED BY <4>3, <4>4, <4>5
    <3>6. next \in [DOMAIN graph.gates -> SUBSET DOMAIN graph.gates]
      <4>1. next = [g \in DOMAIN graph.gates |-> next[g]]
        BY <3>1 DEF TowardInputs, Gates
      <4> QED BY <3>5, <4>1
    <3>7. Len(graph.gates) \in Nat /\ DOMAIN graph.gates = 1 .. Len(graph.gates)
      BY <1>1, GraphParts DEF Walkable, GraphSound
    <3>8. WalkClosed(DOMAIN graph.gates, next, from, Walked(from, next))
      BY <3>4, <3>6, <3>7, WalkCloses
    <3>9. WalkClosed(DOMAIN graph.gates, next, from, gb)
      BY <2>2, <3>1, <3>2, <3>8
    <3>10. gb \subseteq DOMAIN graph.gates /\ from \subseteq gb /\ \A g \in gb : next[g] \subseteq gb
      BY <3>9 DEF WalkClosed
    <3>11. \A l \in cn.primary_outputs_inside :
             graph.lines[l].source # NoGate => graph.lines[l].source \in from
      BY <3>3
    <3>12. \A g \in gb : \A k \in DOMAIN graph.gates[g].inputs :
             graph.lines[graph.gates[g].inputs[k]].source # NoGate =>
               graph.lines[graph.gates[g].inputs[k]].source \in gb
      BY <3>5, <3>10
    <3> QED BY <3>10, <3>11, <3>12 DEF BaseSound
  <2> QED BY <2>1, <2>2
<1> QED BY <1>2, <1>6 DEF Setting

\* No line has a literal yet.
FreshContext(gr) == [fault |-> NoFault, sens |-> NoLiterals(gr), max_literal |-> 0]

\* The context of fault f before the first part that makes literals.
StartedContext(gr, f) ==
  [FreshContext(gr) EXCEPT !.fault = f, !.max_literal = Len(gr.lines) + 1]

LEMMA StartedIsGood ==
  ASSUME NEW gr, Len(gr.lines) \in Nat, NEW f
  PROVE  GoodContext(gr, f, StartedContext(gr, f))
<1>1. PICK s : s = NoLiterals(gr)
  OBVIOUS
<1>2. s = [l \in Slots(gr) |-> 0]
  BY <1>1 DEF NoLiterals, Slots
<1>3. PICK n \in Nat : n = Len(gr.lines)
  OBVIOUS
<1>4. PICK b : b = n + 1
  OBVIOUS
<1>5. PICK c : c = StartedContext(gr, f)
  OBVIOUS
<1>6. c = [fault |-> f, sens |-> s, max_literal |-> b]
  BY <1>1, <1>3, <1>4, <1>5 DEF StartedContext, FreshContext
<1>7. s \in [Slots(gr) -> Nat] /\ \A l \in Slots(gr) : s[l] = 0
  BY <1>2
<1>8. c.fault = f /\ c.sens = s /\ c.max_literal = b
  BY <1>6
<1>9. c \in [fault : {f}, sens : [Slots(gr) -> Nat], max_literal : Nat]
  BY <1>4, <1>6, <1>7
<1>10. n < b
  BY <1>4
<1> QED BY <1>3, <1>5, <1>7, <1>8, <1>9, <1>10 DEF GoodContext

\* The formula only speaks of the values of lines.
LEMMA SaidOfLines ==
  ASSUME NEW gr, NEW rank, NEW first, NEW f, NEW gs, NEW gb, NEW cn,
         Setting(gr, rank, first, f, gs, gb, cn), NEW p, NEW T, NEW U, NEW D,
         \A l \in DOMAIN gr.lines : l \in U <=> l \in T,
         Said(gr, f, gs, gb, cn, p, T, D)
  PROVE  Said(gr, f, gs, gb, cn, p, U, D)
<1>1. \A l \in DOMAIN gr.lines : BitIn(U, l) = BitIn(T, l)
  BY DEF BitIn
<1>2. ValuesIn(gr, U) = ValuesIn(gr, T)
  BY <1>1 DEF ValuesIn
<1>3. BaseSays(gr, gb, T) => BaseSays(gr, gb, U)
  BY <1>2 DEF BaseSays
<1>4. f.line \in DOMAIN gr.lines /\ gs \subseteq DOMAIN gr.gates /\ Chained(gr, rank, first)
  BY SettingFacts, NamedAreLines DEF Setting
<1>5. ASSUME NEW g \in gs, GateTells(gr, f, T, D, g)
      PROVE  GateTells(gr, f, U, D, g)
  <2>1. ASSUME NEW k \in DOMAIN gr.gates[g].expanded
        PROVE  LinkTells(gr, f, U, D, g, k)
    <3>1. PICK e : e = gr.gates[g].expanded[k]
      OBVIOUS
    <3>2. LinkKnown(gr, e)
      BY <1>4, <3>1, LinksAreSmall
    <3>3. e.inputs[1] \in DOMAIN gr.lines /\ e.inputs[Len(e.inputs)] \in DOMAIN gr.lines
      <4>1. DOMAIN e.inputs = IF e.type \in {"NOT", "BUF"} THEN {1} ELSE {1, 2}
        BY <3>2, SmallLinkInputs DEF LinkKnown
      <4>2. Len(e.inputs) = IF e.type \in {"NOT", "BUF"} THEN 1 ELSE 2
        BY <3>2, SmallLinkInputs DEF LinkKnown
      <4>3. 1 \in DOMAIN e.inputs /\ Len(e.inputs) \in DOMAIN e.inputs
        BY <4>1, <4>2
      <4> QED BY <3>2, <4>3 DEF LinkKnown
    <3>4. BitIn(U, e.inputs[1]) = BitIn(T, e.inputs[1])
          /\ BitIn(U, e.inputs[Len(e.inputs)]) = BitIn(T, e.inputs[Len(e.inputs)])
      BY <1>1, <3>3
    <3>5. LinkTells(gr, f, T, D, g, k)
      BY <1>5 DEF GateTells
    <3> QED BY <3>1, <3>4, <3>5 DEF LinkTells
  <2> QED BY <2>1 DEF GateTells
<1> QED BY <1>1, <1>3, <1>4, <1>5 DEF Said

LEMMA SaidDiffers ==
  ASSUME NEW gr, NEW f, NEW gs, NEW gb, NEW cn, NEW T, NEW D
  PROVE  /\ Said(gr, f, gs, gb, cn, 3, T, D) <=> Differs(gr, f, gs, gb, T, D)
         /\ Said(gr, f, gs, gb, cn, 4, T, D) <=>
              Differs(gr, f, gs, gb, T, D) /\ \E l \in cn.primary_outputs_inside : l \in D
BY DEF Said, Differs

\* The vector shows the fault, whatever solves the equations of the values.
Shows(gr, f, v) ==
  \A good, bad : HasValues(gr, v, Healthy, good) /\ HasValues(gr, v, f, bad) =>
    DetectsIn(gr, f, good, bad)

Hides(gr, f, v) ==
  \A good, bad : HasValues(gr, v, Healthy, good) /\ HasValues(gr, v, f, bad) =>
    ~DetectsIn(gr, f, good, bad)

\* A vector read off a model of the whole formula shows the fault.
LEMMA ModelShows ==
  ASSUME NEW gr, NEW rank, NEW first, NEW f, NEW gs, NEW gb, NEW cn,
         Setting(gr, rank, first, f, gs, gb, cn),
         NEW c, NEW F, PartSays(gr, f, gs, gb, cn, 4, c, F),
         NEW m \in Models(F), NEW v \in [Range(gr.ins) -> Bits], ReadsModel(gr, m, v)
  PROVE  Shows(gr, f, v)
<1>1. Walkable(gr, rank)
  BY SettingFacts
<1>2. Len(gr.lines) \in Nat /\ Range(gr.ins) \subseteq 1 .. Len(gr.lines)
  BY <1>1, InputsAreLines
<1>3. c.max_literal \in Nat /\ Bounded(F, c.max_literal)
  BY DEF PartSays, GoodContext
<1>4. PICK T \in SUBSET Nat : AllHold(T, F) /\ VectorOf(gr, v, T)
  BY <1>2, <1>3, ModelVector
<1>5. PICK D : Told(gr, c, T, D)
  BY WhatIsTold
<1>6. Said(gr, f, gs, gb, cn, 4, T, D)
  BY <1>4, <1>5 DEF PartSays
<1>7. Differs(gr, f, gs, gb, T, D) /\ \E l \in cn.primary_outputs_inside : l \in D
  BY <1>6, SaidDiffers
<1> QED BY <1>4, <1>7, FormulaDetects DEF Shows

\* Without a model no vector shows the fault, unless it is the stem of an output.
LEMMA NoModelHides ==
  ASSUME NEW gr, NEW rank, NEW first, NEW f, NEW gs, NEW gb, NEW cn,
         Setting(gr, rank, first, f, gs, gb, cn),
         NEW c, NEW F, PartSays(gr, f, gs, gb, cn, 4, c, F), Models(F) = {},
         ~(f.is_stem /\ gr.lines[f.line].is_output /\ gr.lines[f.line].dests # <<>>),
         NEW v
  PROVE  Hides(gr, f, v)
<1> SUFFICES ASSUME NEW good, HasValues(gr, v, Healthy, good),
                    NEW bad, HasValues(gr, v, f, bad), DetectsIn(gr, f, good, bad)
             PROVE  FALSE
  BY DEF Hides
<1>1. PICK T \in SUBSET DOMAIN gr.lines : \E D :
        /\ Differs(gr, f, gs, gb, T, D) /\ VectorOf(gr, v, T)
        /\ \E l \in cn.primary_outputs_inside : l \in D
  BY DetectedIsDescribed
<1>2. PICK D : Differs(gr, f, gs, gb, T, D) /\ \E l \in cn.primary_outputs_inside : l \in D
  BY <1>1
<1>3. Said(gr, f, gs, gb, cn, 4, T, D)
  BY <1>2, SaidDiffers
<1>4. GoodContext(gr, f, c) /\ c.max_literal \in Nat /\ Bounded(F, c.max_literal)
  BY DEF PartSays, GoodContext
<1>5. Len(gr.lines) \in Nat /\ DOMAIN gr.lines = 1 .. Len(gr.lines)
  BY ConeLines
<1>6. PICK U \in SUBSET Nat : Told(gr, c, U, D) /\ \A l \in DOMAIN gr.lines : l \in U <=> l \in T
  BY <1>4, <1>5, CanBeTold
<1>7. Said(gr, f, gs, gb, cn, 4, U, D)
  BY <1>3, <1>6, SaidOfLines
<1>8. AllHold(U, F)
  BY <1>6, <1>7 DEF PartSays
<1> QED BY <1>4, <1>8, NoModel

\* Before the presentation the literals of a model tell which lines differ for a
\* vector read off it, if that of the other branches is right.
LEMMA ModelTells ==
  ASSUME NEW gr, NEW rank, NEW first, NEW f, NEW gs, NEW gb, NEW cn,
         Setting(gr, rank, first, f, gs, gb, cn),
         NEW c, NEW F, PartSays(gr, f, gs, gb, cn, 3, c, F),
         NEW m \in Models(F), NEW v \in [Range(gr.ins) -> Bits], ReadsModel(gr, m, v),
         c.sens[SpecLine] # 0 => (c.sens[SpecLine] \in m <=> f.is_stem),
         NEW good, HasValues(gr, v, Healthy, good), NEW bad, HasValues(gr, v, f, bad),
         NEW l \in OutputsOf(gr, gs), l \in NamedLines(gr)
  PROVE  c.sens[l] \in m <=> good[l] # bad[l]
<1>1. Walkable(gr, rank) /\ OutputsOf(gr, gs) \subseteq DOMAIN gr.lines /\ f.line \in NamedLines(gr)
  BY SettingFacts, ClosedOutputs
<1>2. PICK L \in Nat : L = Len(gr.lines)
  BY <1>1, InputsAreLines
<1>3. Range(gr.ins) \subseteq 1 .. L /\ DOMAIN gr.lines = 1 .. L
  BY <1>1, <1>2, InputsAreLines
<1>4. c.max_literal \in Nat /\ Bounded(F, c.max_literal) /\ GoodContext(gr, f, c)
  BY DEF PartSays, GoodContext
<1>5. PICK T \in SUBSET Nat : AllHold(T, F) /\ VectorOf(gr, v, T) /\ AgreeAbove(L, m, T)
  BY <1>3, <1>4, ModelVector
<1>6. \A k \in Slots(gr) : c.sens[k] # 0 => (c.sens[k] \in m <=> c.sens[k] \in T)
  <2>1. \A k \in Slots(gr) : c.sens[k] # 0 => c.sens[k] \in Nat /\ L < c.sens[k]
    BY <1>2, <1>4 DEF GoodContext
  <2> QED BY <1>5, <2>1 DEF AgreeAbove
<1>7. SpecLine \in Slots(gr) /\ l \in Slots(gr) /\ 0 \notin DOMAIN gr.lines /\ SpecLine = 0
  BY <1>1, <1>3 DEF Slots, SpecLine
<1>8. PICK D : Told(gr, c, T, D) /\ (f.is_stem => SpecLine \in D)
  <2>1. PICK E : Told(gr, c, T, E)
    BY WhatIsTold
  <2>2. CASE c.sens[SpecLine] = 0
    <3>1. Told(gr, c, T, E \cup {SpecLine})
      BY <2>1, <2>2 DEF Told
    <3> QED BY <3>1
  <2>3. CASE c.sens[SpecLine] # 0
    <3>1. f.is_stem => SpecLine \in E
      BY <1>6, <1>7, <2>1, <2>3 DEF Told
    <3> QED BY <2>1, <3>1
  <2> QED BY <2>2, <2>3
<1>9. Said(gr, f, gs, gb, cn, 3, T, D)
  BY <1>5, <1>8 DEF PartSays
<1>10. Differs(gr, f, gs, gb, T, D)
  BY <1>9, SaidDiffers
<1>11. l \in D <=> good[l] # bad[l]
  BY <1>5, <1>8, <1>10, FormulaIsExact
<1>12. c.sens[l] # 0
  BY DEF PartSays
<1>13. c.sens[l] \in T <=> l \in D
  BY <1>7, <1>8, <1>12 DEF Told
<1> QED BY <1>6, <1>7, <1>11, <1>12, <1>13

------------------------------------------------------------------------------
\* What the solver has stands for the first p parts of the formula.
FormulaStands(p) ==
  \E rank, first, gs, gb, cn, c :
    /\ Setting(graph, rank, first, target, gs, gb, cn)
    /\ PartSays(graph, target, gs, gb, cn, p, c, cnf)
    /\ p < 4 => context = c /\ cone = cn

\* The answer is right, whatever the circuit is.
AnswerRight(gr, f, ans) ==
  ans # <<>> =>
    /\ StuckIsBit(gr, f)
    /\ ans.sat => ans.vector \in [Range(gr.ins) -> Bits] /\ Shows(gr, f, ans.vector)
    /\ ~ans.sat /\ ~(f.is_stem /\ gr.lines[f.line].is_output /\ gr.lines[f.line].dests # <<>>) =>
         \A v : Hides(gr, f, v)

\* The inductive invariant: each part of the formula says of the circuit what it is
\* to say, and nothing is left of an earlier fault.
FormulaInv ==
  /\ CircuitIsRead
  /\ m_circuit_cnf \in {{}, WholeCircuit(graph)}
  /\ stage \in {"idle", "solve"} => context = FreshContext(graph)
  /\ stage = "idle" => AnswerRight(graph, target, answer)
  /\ stage = "sensitization" => FormulaStands(0)
  /\ stage = "activation" => FormulaStands(1)
  /\ stage = "boundary" => FormulaStands(2)
  /\ stage = "presentation" => FormulaStands(3)
  /\ stage = "solve" => FormulaStands(4)

LEMMA FormulaBegins == Init => FormulaInv
<1> SUFFICES ASSUME Init
             PROVE  FormulaInv
  OBVIOUS
<1>1. stage = "idle" /\ answer = <<>> /\ m_circuit_cnf = {} /\ CircuitIsRead
  BY DEF Init, CircuitIsRead
<1>2. context = FreshContext(graph)
  BY DEF Init, Reset, FreshContext
<1> QED BY <1>1, <1>2 DEF FormulaInv, AnswerRight

LEMMA CircuitStays ==
  ASSUME CircuitIsRead, UNCHANGED circuit
  PROVE  CircuitIsRead' /\ graph' = graph
BY DEF CircuitIsRead, circuit

LEMMA MakeFaultKeeps ==
  ASSUME FormulaInv, NEW f \in Range(ManagedFaults(graph)), MakeFault(f)
  PROVE  FormulaInv'
<1>1. CircuitIsRead /\ context = FreshContext(graph) /\ m_circuit_cnf \in {{}, WholeCircuit(graph)}
  BY DEF FormulaInv, MakeFault
<1>2. CircuitIsRead' /\ graph' = graph
  BY <1>1, CircuitStays DEF MakeFault
<1>3. PICK rank : Walkable(graph, rank)
  BY <1>1, ReadCircuitIsWalkable
<1>4. PICK first : Chained(graph, rank, first)
  BY <1>3, WalkableIsChained
<1>5. FaultShape(graph, f)
  BY <1>3, ManagedShape
<1>6. PICK cn : cn = MakeFanoutCone(f)
  OBVIOUS
<1>7. PICK few \in BOOLEAN : few <=> Cardinality(cn.primary_outputs_inside)
                                       < (Len(graph.outs) * ThresholdRatio) \div 100
  <2>1. CASE Cardinality(cn.primary_outputs_inside) < (Len(graph.outs) * ThresholdRatio) \div 100
    <3> WITNESS TRUE \in BOOLEAN
    <3> QED BY <2>1
  <2>2. CASE ~(Cardinality(cn.primary_outputs_inside) < (Len(graph.outs) * ThresholdRatio) \div 100)
    <3> WITNESS FALSE \in BOOLEAN
    <3> QED BY <2>2
  <2> QED BY <2>1, <2>2
<1>8. PICK small : small = Walked(Drivers(graph, cn.primary_outputs_inside), TowardInputs)
  OBVIOUS
<1>9. /\ m_circuit_cnf' = IF few THEN m_circuit_cnf
                          ELSE IF m_circuit_cnf = {} THEN WholeCircuit(graph) ELSE m_circuit_cnf
      /\ cnf' = IF few THEN ClausesOf(small)
                ELSE IF m_circuit_cnf = {} THEN WholeCircuit(graph) ELSE m_circuit_cnf
      /\ target' = f /\ cone' = cn /\ stage' = "sensitization"
      /\ context' = [context EXCEPT !.fault = f, !.max_literal = Len(graph.lines) + 1]
  BY <1>6, <1>7, <1>8 DEF MakeFault, Drivers
<1>10. PICK gb : /\ gb = DOMAIN graph.gates \/ gb = small
                 /\ cnf' = ClausesOf(gb)
  <2>1. CASE few
    <3> WITNESS small
    <3> QED BY <1>9, <2>1
  <2>2. CASE ~few
    <3>1. cnf' = WholeCircuit(graph)
      BY <1>1, <1>9, <2>2
    <3>2. cnf' = ClausesOf(DOMAIN graph.gates)
      BY <3>1 DEF WholeCircuit
    <3> WITNESS DOMAIN graph.gates
    <3> QED BY <3>2
  <2> QED BY <2>1, <2>2
<1>11. PICK gs : Setting(graph, rank, first, f, gs, gb, cn)
  BY <1>4, <1>5, <1>6, <1>8, <1>10, FaultStarts
<1>12. context' = StartedContext(graph, f)
  BY <1>1, <1>9 DEF StartedContext
<1>13. PICK c : c = StartedContext(graph, f)
  OBVIOUS
<1>14. GoodContext(graph, f, c)
  BY <1>11, <1>13, ConeLines, StartedIsGood
<1>15. PartSays(graph, f, gs, gb, cn, 0, c, cnf')
  BY <1>10, <1>11, <1>14, BasePart
<1>16. FormulaStands(0)'
  BY <1>2, <1>9, <1>11, <1>12, <1>13, <1>15 DEF FormulaStands
<1>17. m_circuit_cnf' \in {{}, WholeCircuit(graph)}
  BY <1>1, <1>9
<1>18. (m_circuit_cnf \in {{}, WholeCircuit(graph)})'
  BY <1>2, <1>17 DEF WholeCircuit, ClausesOf, Expanded
<1> QED BY <1>2, <1>9, <1>16, <1>18 DEF FormulaInv

\* What the parts after the first leave alone.
LEMMA RestKept ==
  ASSUME CircuitIsRead, m_circuit_cnf \in {{}, WholeCircuit(graph)},
         UNCHANGED <<circuit, m_circuit_cnf>>
  PROVE  /\ CircuitIsRead' /\ graph' = graph
         /\ (m_circuit_cnf \in {{}, WholeCircuit(graph)})'
<1>1. CircuitIsRead' /\ graph' = graph
  BY CircuitStays
<1> QED BY <1>1 DEF WholeCircuit, ClausesOf, Expanded

LEMMA SensitizationKeeps == FormulaInv /\ AddSensitization => FormulaInv'
<1> SUFFICES ASSUME FormulaInv, AddSensitization
             PROVE  FormulaInv'
  OBVIOUS
<1>1. /\ CircuitIsRead' /\ graph' = graph /\ (m_circuit_cnf \in {{}, WholeCircuit(graph)})'
      /\ stage = "sensitization" /\ stage' = "activation" /\ target' = target /\ cone' = cone
  BY RestKept DEF FormulaInv, AddSensitization
<1>2. PICK rank, first, gs, gb, cn, c :
        /\ Setting(graph, rank, first, target, gs, gb, cn)
        /\ PartSays(graph, target, gs, gb, cn, 0, c, cnf)
        /\ context = c /\ cone = cn
  BY <1>1 DEF FormulaInv, FormulaStands
<1>3. context.fault = target
  BY <1>2 DEF PartSays, GoodContext
<1>4. PICK acc : acc = [context |-> context, cnf |-> cnf]
  OBVIOUS
<1>5. PICK list : list = Once(EnteredFirst(target) \o GatesBehind(graph, target, cone))
  OBVIOUS
<1>6. PICK r : r = SensitizedAll(acc, list)
  OBVIOUS
<1>7. context' = r.context /\ cnf' = r.cnf
  <2> DEFINE f0      == context.fault
             first0  == IF f0.is_stem \/ f0.is_primary_output THEN <<>> ELSE <<f0.connection.gate>>
             lines0  == Ascending({l \in cone.lines_inside : f0.is_stem \/ l # f0.line})
             GatesOf(l) == [k \in DOMAIN graph.lines[l].dests |-> graph.lines[l].dests[k].gate]
             behind0 == FlattenSeq([k \in DOMAIN lines0 |-> GatesOf(lines0[k])])
             result0 == SensitizedAll([context |-> context, cnf |-> cnf], Once(first0 \o behind0))
  <2>1. context' = result0.context /\ cnf' = result0.cnf
    BY DEF AddSensitization
  <2>2. first0 = EnteredFirst(target)
    BY <1>3 DEF EnteredFirst
  <2>3. lines0 = Ascending(LinesBehind(target, cone))
    BY <1>3 DEF LinesBehind
  <2>4. behind0 = GatesBehind(graph, target, cone)
    <3>1. \A l : GatesOf(l) = DestsInOrder(graph, l)
      BY DEF DestsInOrder
    <3>2. PICK ls : ls = lines0
      OBVIOUS
    <3>3. ls = Ascending(LinesBehind(target, cone))
      BY <2>3, <3>2
    <3> HIDE DEF GatesOf, lines0
    <3>4. [k \in DOMAIN ls |-> GatesOf(ls[k])] = [k \in DOMAIN ls |-> DestsInOrder(graph, ls[k])]
      BY <3>1
    <3>5. behind0 = FlattenSeq([k \in DOMAIN ls |-> DestsInOrder(graph, ls[k])])
      BY <3>2, <3>4
    <3> QED BY <3>3, <3>5 DEF GatesBehind
  <2> HIDE DEF first0, lines0, behind0
  <2>5. result0 = r
    BY <1>4, <1>5, <1>6, <2>2, <2>4
  <2> QED BY <2>1, <2>5
<1>8. PartSays(graph, target, gs, gb, cn, 1, r.context, r.cnf)
  BY <1>2, <1>4, <1>5, <1>6, SensitizationPart
<1>9. FormulaStands(1)'
  BY <1>1, <1>2, <1>7, <1>8 DEF FormulaStands
<1> QED BY <1>1, <1>9 DEF FormulaInv

LEMMA ActivationKeeps == FormulaInv /\ AddFaultActivation => FormulaInv'
<1> SUFFICES ASSUME FormulaInv, AddFaultActivation
             PROVE  FormulaInv'
  OBVIOUS
<1>1. /\ CircuitIsRead' /\ graph' = graph /\ (m_circuit_cnf \in {{}, WholeCircuit(graph)})'
      /\ stage = "activation" /\ stage' = "boundary" /\ target' = target /\ cone' = cone
  BY RestKept DEF FormulaInv, AddFaultActivation
<1>2. PICK rank, first, gs, gb, cn, c :
        /\ Setting(graph, rank, first, target, gs, gb, cn)
        /\ PartSays(graph, target, gs, gb, cn, 1, c, cnf)
        /\ context = c /\ cone = cn
  BY <1>1 DEF FormulaInv, FormulaStands
<1>3. context.fault = target
  BY <1>2 DEF PartSays, GoodContext
<1>4. PICK d : d = Allocate(context, <<target.line>>)
  OBVIOUS
<1>5. context' = d /\ cnf' = cnf \cup {{d.sens[target.line]}, {Activated(target)}}
  BY <1>3, <1>4 DEF AddFaultActivation
<1>6. PartSays(graph, target, gs, gb, cn, 2, d,
               cnf \cup {{d.sens[target.line]}, {Activated(target)}})
  BY <1>2, <1>4, ActivationPart
<1>7. FormulaStands(2)'
  BY <1>1, <1>2, <1>5, <1>6 DEF FormulaStands
<1> QED BY <1>1, <1>7 DEF FormulaInv

LEMMA BoundaryKeeps == FormulaInv /\ AddBoundaryScan => FormulaInv'
<1> SUFFICES ASSUME FormulaInv, AddBoundaryScan
             PROVE  FormulaInv'
  OBVIOUS
<1>1. /\ CircuitIsRead' /\ graph' = graph /\ (m_circuit_cnf \in {{}, WholeCircuit(graph)})'
      /\ stage = "boundary" /\ stage' = "presentation" /\ target' = target /\ cone' = cone
  BY RestKept DEF FormulaInv, AddBoundaryScan
<1>2. PICK rank, first, gs, gb, cn, c :
        /\ Setting(graph, rank, first, target, gs, gb, cn)
        /\ PartSays(graph, target, gs, gb, cn, 2, c, cnf)
        /\ context = c /\ cone = cn
  BY <1>1 DEF FormulaInv, FormulaStands
<1>3. context.fault = target
  BY <1>2 DEF PartSays, GoodContext
<1>4. PICK quiet : quiet = Quiet(graph, target, cone)
  OBVIOUS
<1>5. PICK d : d = Allocate(context, quiet)
  OBVIOUS
<1>6. context' = d /\ cnf' = cnf \cup {{-d.sens[l]} : l \in Range(quiet)}
  <2> DEFINE f0     == context.fault
             again0 == Cardinality({x \in Range(graph.lines[f0.line].dests) :
                                      x.gate = f0.connection.gate}) >= 2
             around0 == Ascending(cone.boundary_lines)
             outer0 == [k \in DOMAIN around0 |->
                          IF around0[k] = f0.line THEN SpecLine ELSE around0[k]]
             quiet0 == outer0 \o IF ~f0.is_stem /\ again0 THEN <<SpecLine>> ELSE <<>>
             c0     == Allocate(context, quiet0)
  <2>1. context' = c0 /\ cnf' = cnf \cup {{-c0.sens[l]} : l \in Range(quiet0)}
    BY DEF AddBoundaryScan
  <2>2. quiet0 = quiet
    BY <1>3, <1>4 DEF Quiet, Outer, Again
  <2> HIDE DEF quiet0
  <2>3. c0 = d
    BY <1>5, <2>2
  <2> HIDE DEF c0
  <2> QED BY <2>1, <2>2, <2>3
<1>7. PartSays(graph, target, gs, gb, cn, 3, d, cnf \cup {{-d.sens[l]} : l \in Range(quiet)})
  BY <1>2, <1>4, <1>5, BoundaryPart
<1>8. FormulaStands(3)'
  BY <1>1, <1>2, <1>6, <1>7 DEF FormulaStands
<1> QED BY <1>1, <1>8 DEF FormulaInv

LEMMA PresentationKeeps == FormulaInv /\ AddFaultPresentation => FormulaInv'
<1> SUFFICES ASSUME FormulaInv, AddFaultPresentation
             PROVE  FormulaInv'
  OBVIOUS
<1>1. /\ CircuitIsRead' /\ graph' = graph /\ (m_circuit_cnf \in {{}, WholeCircuit(graph)})'
      /\ stage = "presentation" /\ stage' = "solve" /\ target' = target
  BY RestKept DEF FormulaInv, AddFaultPresentation
<1>2. PICK rank, first, gs, gb, cn, c :
        /\ Setting(graph, rank, first, target, gs, gb, cn)
        /\ PartSays(graph, target, gs, gb, cn, 3, c, cnf)
        /\ context = c /\ cone = cn
  BY <1>1 DEF FormulaInv, FormulaStands
<1>3. PICK d : d = Allocate(context, Ascending(cone.primary_outputs_inside))
  OBVIOUS
<1>4. context' = Reset(d) /\ cnf' = cnf \cup {{d.sens[l] : l \in cone.primary_outputs_inside}}
  BY <1>3 DEF AddFaultPresentation
<1>5. PartSays(graph, target, gs, gb, cn, 4, d,
               cnf \cup {{d.sens[l] : l \in cn.primary_outputs_inside}})
  BY <1>2, <1>3, PresentationPart
<1>6. FormulaStands(4)'
  <2>1. PICK F : F = cnf \cup {{d.sens[l] : l \in cn.primary_outputs_inside}}
    OBVIOUS
  <2>2. PartSays(graph, target, gs, gb, cn, 4, d, F)
    BY <1>5, <2>1
  <2>3. cnf' = F
    BY <1>2, <1>4, <2>1
  <2>4. \E r1, r2, r3, r4, r5, r6 :
          /\ Setting(graph', r1, r2, target', r3, r4, r5)
          /\ PartSays(graph', target', r3, r4, r5, 4, r6, cnf')
    BY <1>1, <1>2, <2>2, <2>3
  <2>5. ~(4 < 4)
    OBVIOUS
  <2> QED BY <2>4, <2>5 DEF FormulaStands
<1>7. (context = FreshContext(graph))'
  BY <1>1, <1>4 DEF Reset, FreshContext
<1> QED BY <1>1, <1>6, <1>7 DEF FormulaInv

LEMMA SolveKeeps == FormulaInv /\ Solve => FormulaInv'
<1> SUFFICES ASSUME FormulaInv, Solve
             PROVE  FormulaInv'
  OBVIOUS
<1>1. /\ CircuitIsRead' /\ graph' = graph /\ (m_circuit_cnf \in {{}, WholeCircuit(graph)})'
      /\ stage = "solve" /\ stage' = "idle" /\ target' = target
      /\ context' = context /\ context = FreshContext(graph)
  BY RestKept DEF FormulaInv, Solve
<1>2. PICK rank, first, gs, gb, cn, c :
        /\ Setting(graph, rank, first, target, gs, gb, cn)
        /\ PartSays(graph, target, gs, gb, cn, 4, c, cnf)
  BY <1>1 DEF FormulaInv, FormulaStands
<1>3. StuckIsBit(graph, target)
  BY <1>2, SettingFacts
<1>4. AnswerRight(graph, target, answer')
  <2>1. CASE Models(cnf) = {}
    <3>1. answer' = [sat |-> FALSE]
      BY <2>1 DEF Solve
    <3>2. answer'.sat = FALSE
      BY <3>1
    <3>3. ~(target.is_stem /\ graph.lines[target.line].is_output
             /\ graph.lines[target.line].dests # <<>>) => \A v : Hides(graph, target, v)
      BY <1>2, <2>1, NoModelHides
    <3> QED BY <1>3, <3>2, <3>3 DEF AnswerRight
  <2>2. CASE Models(cnf) # {}
    <3>1. PICK m \in Models(cnf), v \in InputVectors :
            /\ \A l \in Range(graph.ins) : Reads(m, l, v[l])
            /\ answer' = [sat |-> TRUE, vector |-> v]
      BY <2>2 DEF Solve
    <3>2. answer'.sat = TRUE /\ answer'.vector = v
      BY <3>1
    <3>3. v \in [Range(graph.ins) -> Bits] /\ ReadsModel(graph, m, v)
      BY <3>1 DEF InputVectors, Bits, ReadsModel
    <3>4. Shows(graph, target, v)
      BY <1>2, <3>1, <3>3, ModelShows
    <3> QED BY <1>3, <3>2, <3>3, <3>4 DEF AnswerRight
  <2> QED BY <2>1, <2>2
<1>5. (context = FreshContext(graph))' /\ AnswerRight(graph, target, answer)'
  BY <1>1, <1>4
<1> QED BY <1>1, <1>5 DEF FormulaInv

\* Each part of the formula says of the circuit what it is to say, for the fault
\* asked for, whatever was asked before.
THEOREM FormulaInvHolds == Spec => []FormulaInv
<1>1. FormulaInv /\ [Next]_vars => FormulaInv'
  <2> SUFFICES ASSUME FormulaInv, [Next]_vars
               PROVE  FormulaInv'
    OBVIOUS
  <2>1. CASE Ask
    BY <2>1, MakeFaultKeeps DEF Ask
  <2>2. CASE AddSensitization
    BY <2>2, SensitizationKeeps
  <2>3. CASE AddFaultActivation
    BY <2>3, ActivationKeeps
  <2>4. CASE AddBoundaryScan
    BY <2>4, BoundaryKeeps
  <2>5. CASE AddFaultPresentation
    BY <2>5, PresentationKeeps
  <2>6. CASE Solve
    BY <2>6, SolveKeeps
  <2>7. CASE UNCHANGED vars
    BY <2>7 DEF FormulaInv, CircuitIsRead, FormulaStands, WholeCircuit, ClausesOf, Expanded,
                vars, circuit
  <2> QED BY <2>1, <2>2, <2>3, <2>4, <2>5, <2>6, <2>7 DEF Next
<1> QED BY <1>1, FormulaBegins, PTL DEF Spec

------------------------------------------------------------------------------
LEMMA NoHealthyLine ==
  ASSUME NEW gr, NEW rank, Walkable(gr, rank)
  PROVE  StuckIsBit(gr, Healthy)
<1>1. 0 \notin NamedLines(gr)
  BY LineShape
<1> QED BY <1>1 DEF StuckIsBit, Healthy

\* The vectors sat_atpg returns are tests: in every circuit, for every fault of the
\* list and whatever was asked before, the vector read off any model of the formula
\* shows the fault at an output. ls_main starts from it and asserts that it does.
THEOREM SpecAnswersTests == Spec => []AnswersAreTests
<1>1. FormulaInv => AnswersAreTests
  <2> SUFFICES ASSUME FormulaInv, stage = "idle", answer # <<>>, answer.sat
               PROVE  Detects(answer.vector, target)
    BY DEF AnswersAreTests
  <2>1. PICK rank : Walkable(graph, rank)
    BY ReadCircuitIsWalkable DEF FormulaInv
  <2>2. /\ StuckIsBit(graph, target) /\ answer.vector \in [Range(graph.ins) -> Bits]
        /\ Shows(graph, target, answer.vector)
    BY DEF FormulaInv, AnswerRight
  <2>3. PICK v : v = answer.vector
    OBVIOUS
  <2>4. v \in InputVectors
    BY <2>2, <2>3 DEF InputVectors, Bits
  <2>5. StuckIsBit(graph, Healthy)
    BY <2>1, NoHealthyLine
  <2>6. HasValues(graph, v, Healthy, LineValues(v, Healthy))
        /\ HasValues(graph, v, target, LineValues(v, target))
    BY <2>1, <2>2, <2>4, <2>5, LineValuesAre
  <2>7. DetectsIn(graph, target, LineValues(v, Healthy), LineValues(v, target))
    BY <2>2, <2>3, <2>6 DEF Shows
  <2>8. Detects(v, target)
    BY <2>7 DEF Detects, DetectsIn
  <2> QED BY <2>3, <2>8
<1> QED BY <1>1, FormulaInvHolds, PTL

\* What sat_atpg gives up as unsat has no test: no vector whatever shows the fault,
\* unless it is the stem fault of an output that has fanouts as well.
THEOREM SpecGivesUpRightly == Spec => []UnsatMeansUntestable
<1>1. FormulaInv => UnsatMeansUntestable
  <2> SUFFICES ASSUME FormulaInv, stage = "idle", answer # <<>>, ~answer.sat,
                      ~OutputStem(target), NEW v \in InputVectors
               PROVE  ~Detects(v, target)
    BY DEF UnsatMeansUntestable
  <2>1. PICK rank : Walkable(graph, rank)
    BY ReadCircuitIsWalkable DEF FormulaInv
  <2>2. StuckIsBit(graph, target) /\ Hides(graph, target, v)
    BY DEF FormulaInv, AnswerRight, OutputStem
  <2>3. StuckIsBit(graph, Healthy)
    BY <2>1, NoHealthyLine
  <2>4. HasValues(graph, v, Healthy, LineValues(v, Healthy))
        /\ HasValues(graph, v, target, LineValues(v, target))
    BY <2>1, <2>2, <2>3, LineValuesAre
  <2>5. ~DetectsIn(graph, target, LineValues(v, Healthy), LineValues(v, target))
    BY <2>2, <2>4 DEF Hides
  <2> QED BY <2>5 DEF Detects, DetectsIn
<1> QED BY <1>1, FormulaInvHolds, PTL

\* What the sensitization literals mean: in every model of the clauses before the
\* presentation, a named line behind the fault's differs between the good and the
\* faulty circuit iff its literal is true, if that of the other branches is right.
THEOREM SpecSensitizes == Spec => []SensitizedIsDifferent
<1>1. FormulaInv => SensitizedIsDifferent
  <2> SUFFICES ASSUME FormulaInv, stage = "presentation", NEW m \in Models(cnf)
               PROVE  LET v    == CHOOSE w \in InputVectors :
                                    \A l \in Range(graph.ins) : Reads(m, l, w[l])
                          good == LineValues(v, Healthy)
                          bad  == LineValues(v, target)
                          spec == context.sens[SpecLine]
                          seen == (cone.lines_inside \ {target.line}) \cap NamedLines(graph)
                      IN  (spec # 0 => (spec \in m <=> target.is_stem)) =>
                            \A l \in seen : context.sens[l] \in m <=> good[l] # bad[l]
    BY DEF SensitizedIsDifferent
  <2>1. PICK rank, first, gs, gb, cn, c :
          /\ Setting(graph, rank, first, target, gs, gb, cn)
          /\ PartSays(graph, target, gs, gb, cn, 3, c, cnf)
          /\ context = c /\ cone = cn
    BY DEF FormulaInv, FormulaStands
  <2>2. Walkable(graph, rank) /\ StuckIsBit(graph, target) /\ StuckIsBit(graph, Healthy)
    BY <2>1, SettingFacts
  <2>3. c.max_literal \in Nat /\ Bounded(cnf, c.max_literal)
    BY <2>1 DEF PartSays, GoodContext
  <2>4. Len(graph.lines) \in Nat /\ Range(graph.ins) \subseteq 1 .. Len(graph.lines)
    BY <2>2, InputsAreLines
  <2>5. \E w \in InputVectors : \A l \in Range(graph.ins) : Reads(m, l, w[l])
    <3>1. \E w \in [Range(graph.ins) -> Bits] : ReadsModel(graph, m, w)
      BY <2>3, <2>4, ModelHasVector
    <3> QED BY <3>1 DEF ReadsModel, InputVectors, Bits
  <2>6. PICK v : v = CHOOSE w \in InputVectors : \A l \in Range(graph.ins) : Reads(m, l, w[l])
    OBVIOUS
  <2>7. v \in InputVectors /\ ReadsModel(graph, m, v)
    BY <2>5, <2>6 DEF ReadsModel
  <2>8. v \in [Range(graph.ins) -> Bits]
    BY <2>7 DEF InputVectors, Bits
  <2>9. PICK good : good = LineValues(v, Healthy)
    OBVIOUS
  <2>10. PICK bad : bad = LineValues(v, target)
    OBVIOUS
  <2>11. HasValues(graph, v, Healthy, good) /\ HasValues(graph, v, target, bad)
    BY <2>2, <2>7, <2>9, <2>10, LineValuesAre
  <2>12. ASSUME context.sens[SpecLine] # 0 => (context.sens[SpecLine] \in m <=> target.is_stem),
                NEW l \in (cone.lines_inside \ {target.line}) \cap NamedLines(graph)
         PROVE  context.sens[l] \in m <=> good[l] # bad[l]
    <3>1. l \in OutputsOf(graph, gs)
      BY <2>1, <2>12 DEF Setting, ConeSound, Inside
    <3>2. l \in NamedLines(graph)
      BY <2>12
    <3> QED BY <2>1, <2>7, <2>8, <2>11, <2>12, <3>1, <3>2, ModelTells
  <2> QED BY <2>6, <2>9, <2>10, <2>12
<1> QED BY <1>1, FormulaInvHolds, PTL
==============================================================================
