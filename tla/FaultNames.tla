----------------------------- MODULE FaultNames ------------------------------
(***************************************************************************)
(* Two fault lists of one netlist. sat_atpg_init lets tg-pro's             *)
(* FaultManager collapse the faults of its graph and enters each in        *)
(* fault_map under the name the generator is expected to use; ls_main      *)
(* collapses the faults of its own gates, lines included, and sat_atpg     *)
(* looks the targets up. Neither side knows how the other one names or     *)
(* collapses.                                                              *)
(*                                                                         *)
(* The generator's netlist comes from StemLines; a netlist has a field     *)
(* types beside ins and outs. A connection is <<g, k>>, input k of gate g, *)
(* or <<0, g>>, gate g being an output; a fault sits on a set of them.     *)
(***************************************************************************)
EXTENDS StemLines, FaultManager

Gate == INSTANCE Netlist

ReadersOf(n, g) == {c \in UNION {{h} \X DOMAIN n.ins[h] : h \in DOMAIN n.ins} :
                      n.ins[c[1]][c[2]] = g}

\* All connections gate g drives.
Wires(n, g) == ReadersOf(n, g) \cup {<<0, o>> : o \in Range(n.outs) \cap {g}}

\* Both programs assert that they know the type of a gate and its number of inputs.
\* main has given up before if a gate has no way to an output (init_avg_dist).
ASSUME TypedNetlists ==
  \A n \in Netlists :
    /\ DOMAIN n.types = DOMAIN n.ins
    /\ \A g \in DOMAIN n.ins :
         /\ Wires(n, g) # {}
         /\ n.ins[g] # <<>> =>
              n.types[g] \in GateTypes /\ ArityOk(n.types[g], Len(n.ins[g]))

VARIABLES
  phase,       \* lines, manager, names, list, search; abort: an assertion failed
  graph,       \* CircuitGraph of tg-pro
  at,          \* the line, fault or gate the current loop is at
  m_faults,    \* FaultManager::m_faults
  fault_map,   \* a function from names to tg-pro's faults
  t_faults,    \* the faults ls_main has listed
  asked        \* the target last looked up and what was found, if any

fvars == <<vars, phase, graph, at, m_faults, fault_map, t_faults, asked>>

\* The file as tg-pro reads it: inputs and gates in the file's order, after the
\* outputs as benchmark files have it.
Statements(n) ==
  [k \in DOMAIN n.outs |-> [kind |-> "output", name |-> <<n.outs[k]>>]]
  \o [g \in DOMAIN n.ins |->
        IF n.ins[g] = <<>> THEN [kind |-> "input", name |-> <<g>>]
        ELSE [kind |-> "gate", name |-> <<g>>, type |-> n.types[g],
              ins |-> [k \in DOMAIN n.ins[g] |-> <<n.ins[g][k]>>]]]

NamesInit ==
  /\ Init
  /\ phase = "lines"
  /\ graph = EmptyGraph
  /\ at = 1
  /\ m_faults = <<>>
  /\ fault_map = <<>>
  /\ t_faults = <<>>
  /\ asked = <<>>

\* Circuit::insert_lines_for_stem
SplitStems ==
  /\ phase = "lines"
  /\ pc # "done"
  /\ Next
  /\ UNCHANGED <<phase, graph, at, m_faults, fault_map, t_faults, asked>>

\* The beginning of sat_atpg_init.
ParseGraph ==
  /\ phase = "lines"
  /\ pc = "done"
  /\ graph' = GraphOf(Statements(file))
  /\ phase' = "manager"
  /\ UNCHANGED <<vars, at, m_faults, fault_map, t_faults, asked>>

------------------------------------------------------------------------------
\* Lines that lead nowhere make the program exit.
LeadsNowhere(line) == line.dests = <<>> /\ ~line.is_output

Walked(gr, l) == ~gr.lines[l].generated

AddLineFaults ==
  /\ phase = "manager"
  /\ IF at \in DOMAIN graph.lines
     THEN LET walked  == Walked(graph, at)
              invalid == walked /\ LeadsNowhere(graph.lines[at])
          IN  /\ phase' = IF invalid THEN "abort" ELSE phase
              /\ m_faults' = m_faults \o IF walked /\ ~invalid
                                         THEN LineFaults(graph, at) ELSE <<>>
              /\ at' = at + 1
     ELSE /\ phase' = "names"
          /\ at' = 1
          /\ UNCHANGED m_faults
  /\ UNCHANGED <<vars, graph, fault_map, t_faults, asked>>

------------------------------------------------------------------------------
\* Mutant: only stems go by their own name.
NamedByLineStems(gr, f) == f.is_stem

\* The faults sat_atpg_init names after their line alone.
NamedByLine(gr, f) ==
  \/ f.is_stem
  \/ gr.lines[f.line].source = NoGate /\ Len(gr.lines[f.line].dests) = 1

\* TMP_FAULT without the gate: what operator < compares.
Key(name, v, stem, po) ==
  [name |-> name, stuck_at |-> v, is_stem |-> stem, is_PO |-> po]

KeyOf(gr, f) ==
  LET own    == gr.lines[f.line].name
      reader == gr.lines[gr.gates[f.connection.gate].output].name
      name   == IF NamedByLine(gr, f) THEN own
                ELSE own \o IF f.is_primary_output THEN <<0>> ELSE reader
  IN  Key(name, f.stuck_at, f.is_stem, f.is_primary_output)

\* The loop of sat_atpg_init, with its assertion.
NameFault ==
  /\ phase = "names"
  /\ IF at \in DOMAIN m_faults
     THEN LET key == KeyOf(graph, m_faults[at]) IN
          /\ phase' = IF key \in DOMAIN fault_map THEN "abort" ELSE phase
          /\ fault_map' = [k \in DOMAIN fault_map \cup {key} |->
                           IF k = key THEN m_faults[at] ELSE fault_map[k]]
          /\ at' = at + 1
     ELSE /\ phase' = "list"
          /\ at' = 1
          /\ UNCHANGED fault_map
  /\ UNCHANGED <<vars, graph, m_faults, t_faults, asked>>

------------------------------------------------------------------------------
TypeOf(g) == IF IsLine(g) THEN "LINE" ELSE file.types[g]

\* Mutant: the controlling value is taken for the other type.
StuckInFrontSwapped(type) ==
  CASE type \in {"BUF", "NOT"}  -> <<>>
    [] type \in {"XOR", "XNOR"} -> <<0, 1>>
    [] type \in {"AND", "NAND"} -> <<0>>
    [] type \in {"OR", "NOR"}   -> <<1>>

StuckInFront(type) ==
  CASE type \in {"BUF", "NOT"}  -> <<>>
    [] type \in {"XOR", "XNOR"} -> <<0, 1>>
    [] type \in {"AND", "NAND"} -> <<1>>
    [] type \in {"OR", "NOR"}   -> <<0>>

\* The faults ls_main lists for a gate: its polarities and its flags.
GateFaults(g) ==
  LET gate == gates[g]
      flags == CASE gate.is_stem -> <<TRUE, FALSE>>
                 [] ~gate.is_stem /\ gate.isPO -> <<~IsLine(g), IsLine(g)>>
                 [] OTHER -> <<gate.type = "GATE", FALSE>>
      stuck == IF gate.is_stem \/ gate.isPO THEN <<0, 1>>
               ELSE StuckInFront(TypeOf(gate.fanouts[1]))
  IN  [k \in DOMAIN stuck |->
         [gate |-> g, key |-> Key(gate.name, stuck[k], flags[1], flags[2])]]

\* The loop over the gates and the check of t_verify_set.
ListGate ==
  /\ phase = "list"
  /\ IF at \in DOMAIN gates
     THEN /\ t_faults' = t_faults \o GateFaults(at)
          /\ phase' = IF \/ gates[at].is_stem \/ gates[at].isPO
                         \/ Len(gates[at].fanouts) = 1
                      THEN phase ELSE "abort"
          /\ at' = at + 1
     ELSE /\ phase' = IF IsInjective([k \in DOMAIN t_faults |-> t_faults[k].key])
                      THEN "search" ELSE "abort"
          /\ UNCHANGED <<at, t_faults>>
  /\ UNCHANGED <<vars, graph, m_faults, fault_map, asked>>

\* sat_atpg for one of the targets. Which ones are asked for depends on what the
\* patterns before them detect: it may be any.
Ask ==
  /\ phase = "search"
  /\ \E f \in Range(t_faults) :
       IF f.key \in DOMAIN fault_map
       THEN /\ asked' = <<f, fault_map[f.key]>>
            /\ UNCHANGED phase
       ELSE /\ phase' = "abort"
            /\ asked' = <<f>>
  /\ UNCHANGED <<vars, graph, at, m_faults, fault_map, t_faults>>

NamesNext ==
  \/ SplitStems \/ ParseGraph \/ AddLineFaults \/ NameFault
  \/ ListGate \/ Ask

NamesSpec == NamesInit /\ [][NamesNext]_fvars

------------------------------------------------------------------------------
\* No assertion fails: names are not given twice on either side
\* (sat_atpg.cpp 95 and 111, ls.cpp 238), a gate that is no stem has one fanout
\* (ls.cpp 209), and each target has an entry in fault_map (sat_atpg.cpp 30).
NeverAborts == phase # "abort"

\* Every target has an entry in fault_map: assert(fault_map.count(fal) != 0) of
\* sat_atpg.
TargetsAreNamed == Len(asked) # 1

\* An input that is an output and is read once: sat_atpg_init leaves the names of
\* its branches out.
OutputReadOnce(n) ==
  \E k \in DOMAIN n.outs :
    n.ins[n.outs[k]] = <<>> /\ Cardinality(ReadersOf(n, n.outs[k])) = 1

\* The file's number of the gate that drives line l.
GateOf(l) == graph.lines[l].name[1]

\* The connections a fault of tg-pro and one of the generator sit on.
TgSite(f) ==
  CASE f.is_primary_output -> {<<0, GateOf(f.line)>>}
    [] f.connection # NoConnection ->
         {<<GateOf(graph.gates[f.connection.gate].output), f.connection.idx>>}
    [] OTHER -> Wires(file, GateOf(f.line))

SiteOf(g) ==
  LET name == gates[g].name IN
  CASE ~IsLine(g) -> Wires(file, name[1])
    [] IsLine(g) /\ name[2] = 0 -> {<<0, name[1]>>}
    [] OTHER -> {c \in ReadersOf(file, name[1]) : c[1] = name[2]}

\* The oracle is asked about the fault the generator means: the entry found under
\* the target's name is stuck at the same value at the same connections. A vector
\* for another fault would fail assert(check_fault(pattern, f)) much later.
SameFault ==
  Len(asked) = 2 =>
    /\ TgSite(asked[2]) = SiteOf(asked[1].gate)
    /\ asked[2].stuck_at = asked[1].key.stuck_at

\* Both sides collapse alike: fault_map has no entry that is never asked for, the
\* two sizes the program prints are the same.
ListsAgree ==
  phase = "search" => DOMAIN fault_map = {f.key : f \in Range(t_faults)}

\* Values of the file's gates under v with the connections of site stuck at x.
FaultyValue(n, v, site, x) ==
  LET val[g \in DOMAIN n.ins] ==
        IF n.ins[g] = <<>> THEN v[g]
        ELSE Gate!CalValue(n.types[g],
               [k \in DOMAIN n.ins[g] |->
                  IF <<g, k>> \in site THEN x ELSE val[n.ins[g][k]]])
  IN  [k \in DOMAIN n.outs |-> IF <<0, n.outs[k]>> \in site THEN x ELSE val[n.outs[k]]]

FileVectors(n) == [{g \in DOMAIN n.ins : n.ins[g] = <<>>} -> {0, 1}]

DetectedBy(n, site, x) ==
  {v \in FileVectors(n) : FaultyValue(n, v, site, x) # FaultyValue(n, v, {}, x)}

\* Collapsing loses nothing: a single stuck-at fault of any gate or any branch,
\* listed or not, is detected by exactly the vectors that detect some listed one.
CollapsingIsExact ==
  phase = "search" /\ asked = <<>> =>
    LET Tests(f) == DetectedBy(file, SiteOf(f.gate), f.key.stuck_at)
        listed   == {Tests(f) : f \in Range(t_faults)}
        Sites    == {SiteOf(g) : g \in DOMAIN gates}
                    \cup {{c} : c \in UNION {Wires(file, g) : g \in DOMAIN file.ins}}
    IN  \A site \in Sites, x \in {0, 1} : DetectedBy(file, site, x) \in listed

\* The vector of sat_atpg and the primary inputs of the generator match by
\* position (ls.cpp 293-297): both parsers list the inputs in the file's order.
InputsMatch ==
  phase = "search" =>
    LET inputs == SelectSeq(gates, LAMBDA g : g.type = "INPUT") IN
    [k \in DOMAIN graph.ins |-> graph.lines[graph.ins[k]].name]
      = [k \in DOMAIN inputs |-> inputs[k].name]
==============================================================================
