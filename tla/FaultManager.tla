---------------------------- MODULE FaultManager -----------------------------
(***************************************************************************)
(* tg-pro's FaultManager: the collapsed faults of a graph, line by line.   *)
(***************************************************************************)
EXTENDS TgGraph

NoConnection == [gate |-> NoGate, idx |-> 0]

TgFault(l, v, stem, c, po) ==
  [line |-> l, stuck_at |-> v, is_stem |-> stem, connection |-> c,
   is_primary_output |-> po]

\* add_gate_input_fault, and nothing for inverters and buffers.
GateInputFaults(gr, l, c, stem) ==
  LET type == gr.gates[c.gate].type
      stuck == CASE type \in {"NOT", "BUF"}  -> <<>>
                 [] type \in {"XOR", "XNOR"} -> <<1, 0>>
                 [] type \in {"AND", "NAND"} -> <<1>>
                 [] type \in {"OR", "NOR"}   -> <<0>>
  IN  [k \in DOMAIN stuck |-> TgFault(l, stuck[k], stem, c, FALSE)]

\* Mutant: being an output is no branch.
HasFanoutBranchesDests(line) == Len(line.dests) > 1

HasFanoutBranches(line) ==
  IF line.is_output THEN line.dests # <<>> ELSE Len(line.dests) > 1

\* FaultManager::FaultManager, one line.
LineFaults(gr, l) ==
  LET line == gr.lines[l]
      Both(stem, po) == <<TgFault(l, 0, stem, NoConnection, po),
                          TgFault(l, 1, stem, NoConnection, po)>>
      branches == [k \in DOMAIN line.dests |->
                     GateInputFaults(gr, l, line.dests[k], FALSE)]
  IN  IF HasFanoutBranches(line) \/ line.is_output
      THEN Both(TRUE, FALSE)
           \o (IF line.is_output /\ HasFanoutBranches(line)
               THEN Both(FALSE, TRUE) ELSE <<>>)
           \o FlattenSeq(branches)
      ELSE GateInputFaults(gr, l, line.dests[1], line.source # NoGate)

\* m_faults: the faults of all lines of m_lines.
ManagedFaults(gr) ==
  FlattenSeq([l \in DOMAIN gr.lines |->
                IF gr.lines[l].generated THEN <<>> ELSE LineFaults(gr, l)])
==============================================================================
