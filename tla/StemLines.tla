------------------------------ MODULE StemLines ------------------------------
(***************************************************************************)
(* Circuit::parse_from_file and Circuit::insert_lines_for_stem: a stem, a  *)
(* gate with several branches, gets a LINE gate of its own on each branch, *)
(* so that a fault of the stem and one of a branch are faults of different *)
(* gates. Being a primary output counts as a branch.                       *)
(*                                                                         *)
(* The function walks two vectors while it changes them: the gates, to     *)
(* which the lines are appended, and the fanouts of the stem, of which it  *)
(* removes the first and appends the line until it meets a line.           *)
(***************************************************************************)
EXTENDS Integers, Sequences, FiniteSets, SequencesExt

CONSTANT Netlists   \* files: [ins |-> fanins of each gate, outs |-> OUTPUT lines]

\* A gate reads gates above it in the file; no gate is an output twice.
ASSUME NetlistAssumption ==
  \A n \in Netlists :
    /\ n.ins \in Seq(Seq(Nat))
    /\ \A g \in DOMAIN n.ins : Range(n.ins[g]) \subseteq 1 .. g - 1
    /\ n.outs \in Seq(DOMAIN n.ins) /\ IsInjective(n.outs)

VARIABLES
  pc,      \* gates: in the outer loop; branches: in the inner one; done
  file,    \* the netlist that was read
  gates,   \* Circuit::gates, a gate being its position
  POs,     \* Circuit::POs
  j,       \* the gate the outer loop is at
  i        \* the fanout of it the inner loop is at

vars == <<pc, file, gates, POs, j, i>>

\* How often e is in the sequence s.
Count(s, e) == Cardinality({k \in DOMAIN s : s[k] = e})

\* The gates that read g, once for each time they do.
Readers(ins, g) ==
  FlattenSeq([h \in DOMAIN ins |-> [k \in 1 .. Count(ins[h], g) |-> h]])

\* A gate is named by itself, a line by its stem and its reader (0: _line_PO).
Parsed(n) ==
  [g \in DOMAIN n.ins |->
     [type |-> IF n.ins[g] = <<>> THEN "INPUT" ELSE "GATE", name |-> <<g>>,
      fanins |-> n.ins[g], fanouts |-> Readers(n.ins, g),
      isPO |-> g \in Range(n.outs), is_stem |-> FALSE]]

Init ==
  /\ file \in Netlists
  /\ gates = Parsed(file)
  /\ POs = file.outs
  /\ pc = "gates"
  /\ j = 1
  /\ i = 1

IsLine(g) == gates[g].type = "LINE"

IsStem(g) == Len(gates[g].fanouts) >= IF gates[g].isPO THEN 1 ELSE 2

Walking == pc = "gates" /\ j <= Len(gates) /\ ~IsLine(j)

\* The gate is no stem.
Skip ==
  /\ Walking
  /\ ~IsStem(j)
  /\ j' = j + 1
  /\ UNCHANGED <<pc, file, gates, POs, i>>

\* The gates after the stem g handed its output over to a line.
OutputLine(g) ==
  Append([gates EXCEPT ![g].is_stem = TRUE, ![g].isPO = FALSE,
                       ![g].fanouts = Append(@, Len(gates) + 1)],
         [type |-> "LINE", name |-> <<g, 0>>, fanins |-> <<g>>, fanouts |-> <<>>,
          isPO |-> TRUE, is_stem |-> FALSE])

\* The gate is a stem; its output branch comes first.
Enter ==
  /\ Walking
  /\ IsStem(j)
  /\ IF gates[j].isPO
     THEN /\ gates' = OutputLine(j)
          /\ POs' = Append(RemoveFirst(POs, j), Len(gates) + 1)
     ELSE /\ gates' = [gates EXCEPT ![j].is_stem = TRUE]
          /\ UNCHANGED POs
  /\ pc' = "branches"
  /\ i' = 1
  /\ UNCHANGED <<file, j>>

\* Mutants: the reader keeps reading the stem; it loses every connection to it.
BranchLineBeside(g, out) ==
  Append([gates EXCEPT
            ![g].fanouts  = Append(RemoveFirst(@, out), Len(gates) + 1),
            ![out].fanins = Append(@, Len(gates) + 1)],
         [type |-> "LINE", name |-> <<g, out>>, fanins |-> <<g>>,
          fanouts |-> <<out>>, isPO |-> FALSE, is_stem |-> FALSE])
BranchLineForAll(g, out) ==
  Append([gates EXCEPT
            ![g].fanouts  = Append(Remove(@, out), Len(gates) + 1),
            ![out].fanins = Append(Remove(@, g), Len(gates) + 1)],
         [type |-> "LINE", name |-> <<g, out>>, fanins |-> <<g>>,
          fanouts |-> <<out>>, isPO |-> FALSE, is_stem |-> FALSE])

\* The gates with a line put into one connection from g to out.
BranchLine(g, out) ==
  Append([gates EXCEPT
            ![g].fanouts  = Append(RemoveFirst(@, out), Len(gates) + 1),
            ![out].fanins = Append(RemoveFirst(@, g), Len(gates) + 1)],
         [type |-> "LINE", name |-> <<g, out>>, fanins |-> <<g>>,
          fanouts |-> <<out>>, isPO |-> FALSE, is_stem |-> FALSE])

More == i <= Len(gates[j].fanouts) /\ ~IsLine(gates[j].fanouts[i])

\* Mutant: the next fanout is skipped, as the one at i has been removed.
BranchSkipping ==
  /\ pc = "branches"
  /\ More
  /\ gates' = BranchLine(j, gates[j].fanouts[i])
  /\ i' = i + 1
  /\ UNCHANGED <<pc, file, POs, j>>

\* One connection: it leaves position i, which is visited again.
Branch ==
  /\ pc = "branches"
  /\ More
  /\ gates' = BranchLine(j, gates[j].fanouts[i])
  /\ UNCHANGED <<pc, file, POs, j, i>>

\* Mutant: the walk goes on with the same gate.
LeaveAgain ==
  /\ pc = "branches"
  /\ ~More
  /\ pc' = "gates"
  /\ UNCHANGED <<file, gates, POs, i, j>>

Leave ==
  /\ pc = "branches"
  /\ ~More
  /\ pc' = "gates"
  /\ j' = j + 1
  /\ UNCHANGED <<file, gates, POs, i>>

\* The walk ends at the first line: all that follow are lines.
Finish ==
  /\ pc = "gates" /\ ~Walking
  /\ pc' = "done"
  /\ UNCHANGED <<file, gates, POs, j, i>>

Done == pc = "done" /\ UNCHANGED vars

Next == Skip \/ Enter \/ Branch \/ Leave \/ Finish \/ Done

\* One thread.
Spec == Init /\ [][Next]_vars /\ WF_vars(Next)

------------------------------------------------------------------------------
GateData ==
  LET Gs == 1 .. Len(gates) IN
  [type : {"INPUT", "GATE", "LINE"}, name : Seq(Nat), fanins : Seq(Gs),
   fanouts : Seq(Gs), isPO : BOOLEAN, is_stem : BOOLEAN]

\* Where a gate reads another: the reader and the place among its fanins.
Pins == UNION {{h} \X DOMAIN file.ins[h] : h \in DOMAIN file.ins}

\* The connections of the netlist, its outputs included.
Connections == Cardinality(Pins) + Len(file.outs)

\* Type invariant. The gates grow by one line for a connection at most.
TypeOK ==
  /\ pc \in {"gates", "branches", "done"}
  /\ file \in Netlists
  /\ \A g \in DOMAIN gates : gates[g] \in GateData
  /\ Len(gates) <= Len(file.ins) + Connections
  /\ POs \in Seq(DOMAIN gates)
  /\ j \in 1 .. Len(gates) + 1
  /\ i \in 1 .. Len(gates) + 1

\* The vectors are well formed at every step. Fanins and fanouts tell the same
\* story, as often as a connection is there: each function that walks the
\* netlist later uses one of the two directions.
Mirrored ==
  /\ TypeOK
  /\ \A g, h \in DOMAIN gates : Count(gates[g].fanouts, h) = Count(gates[h].fanins, g)

\* The gate that drives g, seen through a line.
Driver(g) == IF IsLine(g) THEN gates[g].fanins[1] ELSE g

Drivers(s) == [k \in DOMAIN s |-> Driver(s[k])]

\* Inserting lines does not change the circuit, at no step: every gate reads the
\* same gates as often as in the file, and the outputs are driven by the same.
SameCircuit ==
  /\ \A g \in DOMAIN file.ins, f \in DOMAIN file.ins :
       Count(Drivers(gates[g].fanins), f) = Count(file.ins[g], f)
  /\ \A g \in DOMAIN file.ins :
       Count(Drivers(POs), g) = Count(file.outs, g)

Branches(g) ==
  Cardinality({p \in Pins : file.ins[p[1]][p[2]] = g}) + Count(file.outs, g)

\* In the end is_stem says which gates have two branches or more; these have
\* lines only, one for each branch, others have none. A line has one fanin,
\* which is no line, and one fanout or is an output: the fault list of ls_main
\* relies on it (assert(g->fanouts.size() == 1)). POs lists the outputs, and an
\* output has no fanouts: init_avg_dist starts from POs and tests isPO,
\* build_lut_circuit takes a gate with isPO and no fanouts as a root.
StemsAreSplit ==
  pc = "done" =>
    /\ Range(POs) = {g \in DOMAIN gates : gates[g].isPO}
    /\ \A g \in Range(POs) : gates[g].fanouts = <<>>
    /\ \A g \in DOMAIN gates :
      LET outs == gates[g].fanouts IN
      IF IsLine(g)
      THEN /\ Len(gates[g].fanins) = 1 /\ ~IsLine(gates[g].fanins[1])
           /\ Len(outs) = IF gates[g].isPO THEN 0 ELSE 1
           /\ ~gates[g].is_stem
      ELSE /\ gates[g].is_stem <=> Branches(g) >= 2
           /\ IF Branches(g) >= 2
              THEN Len(outs) = Branches(g) /\ \A k \in DOMAIN outs : IsLine(outs[k])
              ELSE \A k \in DOMAIN outs : ~IsLine(outs[k])
==============================================================================
