------------------------------ MODULE TopoIndex ------------------------------
(***************************************************************************)
(* What main does with a netlist before it builds the LUTs:                *)
(* parse_from_file and insert_lines_for_stem (StemLines), then             *)
(* Circuit::init_topo_index, which numbers the gates forwards and          *)
(* backwards, and Circuit::init_avg_dist, the mean distance of a gate to   *)
(* the outputs it reaches.                                                 *)
(***************************************************************************)
EXTENDS StemLines

VARIABLES
  stage,        \* lines, inputs, forward, outputs, backward, next_po, walk,
                \* done; giveup: exit(-1); abort: a failed assertion
  q,            \* the queue of the current walk
  waiting,      \* ins or outs: the connections of a gate not yet walked
  topo,         \* the next number
  id,           \* Gate::id, 0 when not set
  rtopo,        \* Gate::rtopo, 0 when not set
  po,           \* the position in POs init_avg_dist is at
  now_dist, total_dist, total_cnt, avg_dist

numbers   == <<topo, waiting, id, rtopo>>
distances == <<po, now_dist, total_dist, total_cnt, avg_dist>>
topoVars  == <<stage, q, numbers, distances>>
allVars   == <<vars, topoVars>>

Infinite == 1061109567   \* 0x3f3f3f3f

TopoInit ==
  /\ Init
  /\ stage = "lines"
  /\ q = <<>>
  /\ waiting = <<>> /\ id = <<>> /\ rtopo = <<>>
  /\ topo = 1
  /\ po = 1
  /\ now_dist = <<>> /\ total_dist = <<>> /\ total_cnt = <<>> /\ avg_dist = <<>>

\* A value for each gate.
PerGate(Value(_)) == [g \in DOMAIN gates |-> Value(g)]

\* The elements of the sequence s that are in S, in their order.
Chosen(s, S) ==
  LET upto[k \in 0 .. Len(s)] ==
        IF k = 0 THEN <<>>
        ELSE IF s[k] \in S THEN Append(upto[k - 1], s[k]) ELSE upto[k - 1]
  IN  upto[Len(s)]

\* The gates of S in the order of the vector.
InOrder(S) == Chosen([g \in DOMAIN gates |-> g], S)

PIs == InOrder({g \in DOMAIN gates : gates[g].type = "INPUT"})

\* The numbers with the gates of the sequence s numbered topo, topo + 1, ...
Numbered(num, s) ==
  [g \in DOMAIN gates |->
     IF g \in Range(s) THEN topo - 1 + (CHOOSE k \in DOMAIN s : s[k] = g) ELSE num[g]]

\* Mutant: a gate is ready as soon as one connection is walked.
ReadyAny(s) == Chosen(s, {g \in DOMAIN gates : waiting[g] >= 1})

\* The gates of s that wait for one connection only, and the counts after it. No
\* gate is twice in s: two connections between the same gates are two lines.
Ready(s) == Chosen(s, {g \in DOMAIN gates : waiting[g] = 1})
Counted(s) == PerGate(LAMBDA g : waiting[g] - Count(s, g))

InsertLines ==
  /\ stage = "lines"
  /\ Skip \/ Enter \/ Branch \/ Leave \/ Finish
  /\ stage' = IF pc' = "done" THEN "inputs" ELSE stage
  /\ UNCHANGED <<q, numbers, distances>>

\* The primary inputs come first, in the order of the file.
NumberInputs ==
  /\ stage = "inputs"
  /\ waiting' = PerGate(LAMBDA g : Len(gates[g].fanins))
  /\ id' = Numbered(PerGate(LAMBDA g : 0), PIs)
  /\ topo' = topo + Len(PIs)
  /\ q' = PIs
  /\ stage' = "forward"
  /\ UNCHANGED <<vars, rtopo, distances>>

\* The next gate: the readers that waited for it alone get their numbers.
Forward ==
  /\ stage = "forward" /\ q # <<>>
  /\ LET s     == gates[Head(q)].fanouts
         ready == Ready(s)
     IN  /\ waiting' = Counted(s)
         /\ id' = Numbered(id, ready)
         /\ topo' = topo + Len(ready)
         /\ q' = Tail(q) \o ready
  /\ UNCHANGED <<vars, stage, rtopo, distances>>

\* Backwards from the gates without fanouts, in the order of the vector.
NumberEnds ==
  /\ stage = "forward" /\ q = <<>>
  /\ LET ends == InOrder({g \in DOMAIN gates : gates[g].fanouts = <<>>})
     IN  /\ rtopo' = [g \in DOMAIN gates |->
                        IF g \in Range(ends) THEN CHOOSE k \in DOMAIN ends : ends[k] = g
                        ELSE 0]
         /\ topo' = Len(ends) + 1
         /\ q' = ends
  /\ waiting' = PerGate(LAMBDA g : Len(gates[g].fanouts))
  /\ stage' = "backward"
  /\ UNCHANGED <<vars, id, distances>>

Backward ==
  /\ stage = "backward" /\ q # <<>>
  /\ LET s     == gates[Head(q)].fanins
         ready == Ready(s)
     IN  /\ waiting' = Counted(s)
         /\ rtopo' = Numbered(rtopo, ready)
         /\ topo' = topo + Len(ready)
         /\ q' = Tail(q) \o ready
  /\ UNCHANGED <<vars, stage, id, distances>>

\* init_avg_dist begins.
StartDistances ==
  /\ stage = "backward" /\ q = <<>>
  /\ now_dist' = PerGate(LAMBDA g : 0)
  /\ total_dist' = PerGate(LAMBDA g : 0)
  /\ total_cnt' = PerGate(LAMBDA g : 0)
  /\ stage' = "next_po"
  /\ UNCHANGED <<vars, q, numbers, po, avg_dist>>

\* Mutant: the distances to the output before are kept.
StartOutputKept ==
  /\ stage = "next_po" /\ po <= Len(POs)
  /\ now_dist' = PerGate(LAMBDA g : IF gates[g].isPO THEN 0
                                    ELSE IF po = 1 THEN Infinite ELSE now_dist[g])
  /\ q' = <<POs[po]>>
  /\ stage' = "walk"
  /\ UNCHANGED <<vars, numbers, po, total_dist, total_cnt, avg_dist>>

StartOutput ==
  /\ stage = "next_po" /\ po <= Len(POs)
  /\ now_dist' = PerGate(LAMBDA g : IF gates[g].isPO THEN 0 ELSE Infinite)
  /\ q' = <<POs[po]>>
  /\ stage' = "walk"
  /\ UNCHANGED <<vars, numbers, po, total_dist, total_cnt, avg_dist>>

\* The fanins of u that u brings closer to the output.
Closer(u) ==
  Chosen(gates[u].fanins, {f \in DOMAIN gates : now_dist[u] + 1 < now_dist[f]})

\* Mutant: the step from a gate to its fanin has no length.
VisitForFree ==
  /\ stage = "walk" /\ q # <<>>
  /\ LET u == Head(q) IN
     /\ total_dist' = [total_dist EXCEPT ![u] = @ + now_dist[u]]
     /\ total_cnt' = [total_cnt EXCEPT ![u] = @ + 1]
     /\ now_dist' = [f \in DOMAIN gates |->
                       IF f \in Range(Closer(u)) THEN now_dist[u] ELSE now_dist[f]]
     /\ q' = Tail(q) \o Closer(u)
  /\ UNCHANGED <<vars, stage, numbers, po, avg_dist>>

Visit ==
  /\ stage = "walk" /\ q # <<>>
  /\ LET u == Head(q) IN
     /\ total_dist' = [total_dist EXCEPT ![u] = @ + now_dist[u]]
     /\ total_cnt' = [total_cnt EXCEPT ![u] = @ + 1]
     /\ now_dist' = [f \in DOMAIN gates |->
                       IF f \in Range(Closer(u)) THEN now_dist[u] + 1 ELSE now_dist[f]]
     /\ q' = Tail(q) \o Closer(u)
  /\ UNCHANGED <<vars, stage, numbers, po, avg_dist>>

EndOutput ==
  /\ stage = "walk" /\ q = <<>>
  /\ po' = po + 1
  /\ stage' = "next_po"
  /\ UNCHANGED <<vars, q, numbers, now_dist, total_dist, total_cnt, avg_dist>>

\* The averages; the first gate in the order of the ids that no output was
\* reached from ends the program, as one with distance 0 does.
Average ==
  /\ stage = "next_po" /\ po > Len(POs)
  /\ LET Avg(g)    == IF total_cnt[g] = 0 THEN 0 ELSE total_dist[g] \div total_cnt[g]
         unreached == {g \in DOMAIN gates : total_cnt[g] = 0}
         touching  == {g \in DOMAIN gates \ unreached : ~gates[g].isPO /\ Avg(g) = 0}
         first     == CHOOSE g \in unreached \cup touching :
                        \A h \in unreached \cup touching : id[g] <= id[h]
     IN  /\ avg_dist' = PerGate(Avg)
         /\ stage' = IF unreached \cup touching = {} THEN "done"
                     ELSE IF first \in unreached THEN "giveup" ELSE "abort"
  /\ UNCHANGED <<vars, q, numbers, po, now_dist, total_dist, total_cnt>>

Prepared == stage \in {"done", "giveup", "abort"} /\ UNCHANGED allVars

TopoNext ==
  \/ InsertLines
  \/ NumberInputs \/ Forward \/ NumberEnds \/ Backward
  \/ StartDistances \/ StartOutput \/ Visit \/ EndOutput \/ Average
  \/ Prepared

\* One thread.
TopoSpec == TopoInit /\ [][TopoNext]_allVars /\ WF_allVars(TopoNext)

------------------------------------------------------------------------------
N == Len(gates)

Numbers(num) == IsInjective(num) /\ Range(num) = 1 .. N

\* The ids are 1, 2, ... with every gate behind its fanins, and the inputs first
\* in the order of the file: gates are evaluated in the order of the ids, and
\* position k of a vector belongs to input k. rtopo is 1, 2, ... with every gate
\* behind its fanouts: the simulator and cal_fault_info go backward.
IdsAreTopological ==
  /\ stage \notin {"lines", "inputs", "forward"} =>
       /\ Numbers(id)
       /\ \A g \in DOMAIN gates : \A f \in Range(gates[g].fanins) : id[f] < id[g]
       /\ \A k \in DOMAIN PIs : id[PIs[k]] = k
  /\ stage \in {"next_po", "walk", "done", "giveup", "abort"} =>
       /\ Numbers(rtopo)
       /\ \A g \in DOMAIN gates : \A h \in Range(gates[g].fanouts) : rtopo[h] < rtopo[g]

\* The length of a shortest path to output o, for each gate that has one.
DistancesTo(o) ==
  LET away[k \in 0 .. N] ==            \* the gates with a path of k connections
        IF k = 0 THEN {o}
        ELSE UNION {Range(gates[g].fanins) : g \in away[k - 1]}
      lengths(g) == {k \in 0 .. N : g \in away[k]}
  IN  [g \in {f \in DOMAIN gates : lengths(f) # {}} |-> Min(lengths(g))]

\* For each output done with, a gate that reaches it has been counted once, with
\* the length of a shortest path.
CountedOnce ==
  stage \in {"next_po", "done", "giveup"} =>
    LET dist == [k \in 1 .. po - 1 |-> DistancesTo(POs[k])] IN
    \A g \in DOMAIN gates :
      LET reached == {k \in 1 .. po - 1 : g \in DOMAIN dist[k]} IN
      /\ total_cnt[g] = Cardinality(reached)
      /\ total_dist[g] = SumFunctionOnSet([k \in reached |-> dist[k][g]], reached)

\* The program goes on exactly if every gate reaches an output, and every gate
\* but the outputs then has a distance (assert(g->avg_dist > 0)).
GivesUpRightly ==
  /\ stage # "abort"
  /\ stage \in {"done", "giveup"} =>
       (stage = "done")
         <=> DOMAIN gates = UNION {DOMAIN DistancesTo(o) : o \in Range(POs)}

\* The walks end.
GetsPrepared == <>(stage \in {"done", "giveup"})
==============================================================================
