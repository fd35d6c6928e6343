-------------------------- MODULE FaultNamesProofs ---------------------------
(***************************************************************************)
(* Proofs about FaultNames for every netlist: the faults ls_main leaves    *)
(* out when it collapses its list are those with the tests of a listed     *)
(* one, and it means the same faults by their names as tg-pro does.        *)
(***************************************************************************)
EXTENDS FaultNames, PreparationProofs, TgGraphProofs

------------------------------------------------------------------------------
\* A gate keeps its name; a line has that of its stem and of its reader.
LineName(r) == <<r.fanins[1], IF r.isPO THEN 0 ELSE r.fanouts[1]>>

NamesKept ==
  /\ \A g \in Originals : gates[g].name = <<g>>
  /\ \A g \in DOMAIN gates : g > Size => gates[g].name = LineName(gates[g])

LEMMA NamesAtFirst ==
  ASSUME Init
  PROVE  NamesKept
<1>1. file \in Netlists /\ gates = Parsed(file)
  BY DEF Init
<1>2. DOMAIN file.ins = 1 .. Size /\ Size \in Nat
  BY <1>1, NetlistFacts DEF Size
<1>3. ASSUME NEW g \in 1 .. Size
      PROVE  gates[g].name = <<g>>
  <2>1. PICK r : r = gates[g]
    OBVIOUS
  <2>2. PICK nm : nm = <<g>>
    OBVIOUS
  <2>3. r.name = nm
    BY <1>1, <1>2, <2>1, <2>2 DEF Parsed
  <2> QED BY <2>1, <2>2, <2>3
<1>4. DOMAIN gates = 1 .. Size
  BY <1>1, <1>2 DEF Parsed
<1> QED BY <1>2, <1>3, <1>4 DEF NamesKept, Originals

LEMMA NextKeepsNames ==
  ASSUME IInv, NamesKept, [Next]_vars
  PROVE  NamesKept'
<1>1. Size' = Size /\ Originals' = Originals
  BY DEF Next, vars, Skip, Enter, Branch, Leave, Finish, Done, Size, Originals
<1>2. Originals = 1 .. Size /\ Size \in Nat /\ Originals \subseteq 1 .. Len(gates)
      /\ DOMAIN gates = 1 .. Len(gates) /\ Len(gates) \in Nat
  BY GatesTyped DEF IInv, Originals
<1>3. CASE Branch
  <2>1. PICK n, out : n = Len(gates) /\ LineIn(n, out)
    BY <1>3, BranchIs
  <2>2. n \in Nat /\ DOMAIN gates = 1 .. n /\ DOMAIN gates' = 1 .. n + 1 /\ j \in 1 .. Size
        /\ out \in 1 .. Size /\ Size <= n
    BY <1>2, <2>1 DEF LineIn
  <2>3. \A h \in 1 .. n : gates'[h].name = gates[h].name
    BY <2>1 DEF LineIn, Now
  <2>4. ASSUME NEW h \in 1 .. n, h > Size
        PROVE  LineName(gates'[h]) = LineName(gates[h])
    <3>1. h # j /\ h # out
      BY <1>2, <2>2, <2>4
    <3> QED BY <2>1, <3>1 DEF LineIn, Now, LineName
  <2>5. gates'[n + 1].name = LineName(gates'[n + 1])
    <3>1. PICK r : r = gates'[n + 1]
      OBVIOUS
    <3>2. r = [type |-> "LINE", name |-> <<j, out>>, fanins |-> <<j>>,
               fanouts |-> <<out>>, isPO |-> FALSE, is_stem |-> FALSE]
      BY <2>1, <3>1 DEF LineIn
    <3> QED BY <3>1, <3>2 DEF LineName
  <2>6. \A h \in 1 .. n + 1 : h \in 1 .. n \/ h = n + 1
    BY <2>2
  <2>7. \A h \in 1 .. n : h > Size => gates'[h].name = LineName(gates'[h])
    BY <2>2, <2>3, <2>4 DEF NamesKept
  <2>8. \A h \in Originals : gates'[h].name = <<h>>
    BY <1>2, <2>1, <2>3 DEF NamesKept
  <2> QED BY <1>1, <2>2, <2>5, <2>6, <2>7, <2>8 DEF NamesKept
<1>4. CASE Enter /\ gates[j].isPO
  <2>1. PICK n : n = Len(gates) /\ OutputLineIn(n)
    BY <1>4, EnterOutputIs
  <2>2. n \in Nat /\ DOMAIN gates = 1 .. n /\ DOMAIN gates' = 1 .. n + 1 /\ j \in 1 .. Size
        /\ Size <= n
    BY <1>2, <2>1 DEF OutputLineIn
  <2>3. \A h \in 1 .. n : gates'[h].name = gates[h].name
    BY <2>1 DEF OutputLineIn, Now
  <2>4. ASSUME NEW h \in 1 .. n, h > Size
        PROVE  gates'[h] = gates[h]
    <3>1. h # j
      BY <1>2, <2>2, <2>4
    <3> QED BY <2>1, <3>1 DEF OutputLineIn
  <2>5. gates'[n + 1].name = LineName(gates'[n + 1])
    <3>1. PICK r : r = gates'[n + 1]
      OBVIOUS
    <3>2. r = [type |-> "LINE", name |-> <<j, 0>>, fanins |-> <<j>>,
               fanouts |-> <<>>, isPO |-> TRUE, is_stem |-> FALSE]
      BY <2>1, <3>1 DEF OutputLineIn
    <3> QED BY <3>1, <3>2 DEF LineName
  <2>6. \A h \in 1 .. n + 1 : h \in 1 .. n \/ h = n + 1
    BY <2>2
  <2>7. \A h \in 1 .. n : h > Size => gates'[h].name = LineName(gates'[h])
    BY <2>2, <2>4 DEF NamesKept
  <2>8. \A h \in Originals : gates'[h].name = <<h>>
    BY <1>2, <2>1, <2>3 DEF NamesKept
  <2> QED BY <1>1, <2>2, <2>5, <2>6, <2>7, <2>8 DEF NamesKept
<1>5. CASE Enter /\ ~gates[j].isPO
  <2>1. gates' = [gates EXCEPT ![j].is_stem = TRUE]
    BY <1>5 DEF Enter
  <2>2. PICK n \in Nat : n = Len(gates) /\ gates \in Seq(GateAmong(n)) /\ DOMAIN gates = 1 .. n
    BY DEF IInv, Typed
  <2>3. ASSUME NEW g \in 1 .. n
        PROVE  gates'[g].name = gates[g].name /\ LineName(gates'[g]) = LineName(gates[g])
    <3>1. gates[g] \in GateAmong(n)
      BY <2>2, SeqElements
    <3>2. PICK yes \in BOOLEAN : yes = TRUE
      OBVIOUS
    <3>3. gates'[g] = IF g = j THEN [gates[g] EXCEPT !.is_stem = yes] ELSE gates[g]
      BY <2>1, <2>2, <3>2
    <3> QED BY <3>1, <3>3 DEF GateAmong, LineName
  <2>4. DOMAIN gates' = 1 .. n
    BY <2>1, <2>2
  <2> QED BY <1>1, <1>2, <2>2, <2>3, <2>4 DEF NamesKept
<1>6. CASE UNCHANGED gates
  BY <1>1, <1>6 DEF NamesKept
<1> QED BY <1>3, <1>4, <1>5, <1>6 DEF Next, vars, Skip, Leave, Finish, Done

------------------------------------------------------------------------------
\* The files with what FaultNames asks of them.
LegalNetlist(n, s) ==
  /\ s \in Nat /\ DOMAIN n.ins = 1 .. s /\ DOMAIN n.types = 1 .. s
  /\ \A g \in 1 .. s : n.ins[g] \in Seq(1 .. s) /\ \A k \in DOMAIN n.ins[g] : n.ins[g][k] < g
  /\ \A g \in 1 .. s : n.ins[g] # <<>> =>
       n.types[g] \in GateTypes /\ ArityOk(n.types[g], Len(n.ins[g]))
  /\ n.outs \in Seq(1 .. s) /\ IsInjective(n.outs)

LEMMA NetlistsAreLegal ==
  ASSUME NEW n \in Netlists
  PROVE  LegalNetlist(n, Len(n.ins))
<1>1. /\ Len(n.ins) \in Nat /\ DOMAIN n.ins = 1 .. Len(n.ins)
      /\ \A h \in DOMAIN n.ins : n.ins[h] \in Seq(1 .. Len(n.ins))
      /\ n.outs \in Seq(DOMAIN n.ins) /\ IsInjective(n.outs)
  BY NetlistFacts
<1>2. ASSUME NEW g \in DOMAIN n.ins, NEW k \in DOMAIN n.ins[g]
      PROVE  n.ins[g][k] < g
  <2>1. Range(n.ins[g]) \subseteq 1 .. g - 1
    BY NetlistAssumption
  <2>2. n.ins[g][k] \in 1 .. g - 1
    BY <2>1 DEF Range
  <2> QED BY <1>1, <2>2
<1>3. /\ DOMAIN n.types = DOMAIN n.ins
      /\ \A g \in DOMAIN n.ins : n.ins[g] # <<>> =>
           n.types[g] \in GateTypes /\ ArityOk(n.types[g], Len(n.ins[g]))
  BY TypedNetlists
<1> QED BY <1>1, <1>2, <1>3 DEF LegalNetlist

LEMMA ArityTells ==
  ASSUME NEW type \in GateTypes, NEW m, ArityOk(type, m)
  PROVE  /\ type \in {"AND", "NAND", "OR", "NOR"} => m >= 2
         /\ type \in {"XOR", "XNOR"} => m = 2
         /\ type \in {"NOT", "BUF"} => m = 1
BY DEF ArityOk, GateTypes

LEMMA GateCount == \A S : Gate!Cardinality(S) = Cardinality(S)
BY Zenon DEF Cardinality, Gate!Cardinality

\* The value a gate has as soon as one of its inputs is x, if there is such.
Forces(type, x, y) ==
  \/ type = "BUF" /\ y = x
  \/ type = "NOT" /\ y = 1 - x
  \/ type = "AND"  /\ x = 0 /\ y = 0
  \/ type = "NAND" /\ x = 0 /\ y = 1
  \/ type = "OR"   /\ x = 1 /\ y = 1
  \/ type = "NOR"  /\ x = 1 /\ y = 0

LEMMA GateValue ==
  ASSUME NEW type \in GateTypes, NEW m \in Nat, ArityOk(type, m),
         NEW pins \in [1 .. m -> {0, 1}]
  PROVE  /\ Gate!CalValue(type, pins) \in {0, 1}
         /\ \A k \in 1 .. m, y \in {0, 1} :
              Forces(type, pins[k], y) => Gate!CalValue(type, pins) = y
<1>1. PICK ones : ones = {p \in DOMAIN pins : pins[p] = 1}
  OBVIOUS
<1>2. /\ (ones = DOMAIN pins) <=> \A p \in 1 .. m : pins[p] = 1
      /\ (ones = {}) <=> \A p \in 1 .. m : pins[p] = 0
  BY <1>1
<1>3. CASE type \in {"AND", "NAND", "OR", "NOR"}
  <2>1. Gate!CalValue(type, pins) =
          CASE type = "AND"  -> Gate!Bit(ones = DOMAIN pins)
            [] type = "NAND" -> Gate!Bit(ones # DOMAIN pins)
            [] type = "OR"   -> Gate!Bit(ones # {})
            [] type = "NOR"  -> Gate!Bit(ones = {})
    BY <1>1, <1>3 DEF Gate!CalValue
  <2>2. Gate!CalValue(type, pins) \in {0, 1}
    BY <1>3, <2>1 DEF Gate!Bit
  <2>3. ASSUME NEW k \in 1 .. m, NEW y \in {0, 1}, Forces(type, pins[k], y)
        PROVE  Gate!CalValue(type, pins) = y
    BY <1>2, <1>3, <2>1, <2>3 DEF Gate!Bit, Forces
  <2> QED BY <2>2, <2>3
<1>4. CASE type \in {"NOT", "BUF"}
  <2>1. m = 1 /\ pins[1] \in {0, 1}
    BY <1>4, ArityTells
  <2>2. Gate!CalValue(type, pins) = IF type = "NOT" THEN 1 - pins[1] ELSE pins[1]
    BY <1>4 DEF Gate!CalValue
  <2>3. \A k \in 1 .. m : k = 1
    BY <2>1
  <2>4. Gate!CalValue(type, pins) \in {0, 1}
    BY <2>1, <2>2
  <2>5. ASSUME NEW k \in 1 .. m, NEW y \in {0, 1}, Forces(type, pins[k], y)
        PROVE  Gate!CalValue(type, pins) = y
    BY <1>4, <2>2, <2>3, <2>5 DEF Forces
  <2> QED BY <2>4, <2>5
<1>5. CASE type \in {"XOR", "XNOR"}
  <2>1. IsFiniteSet(ones)
    <3>1. ones \subseteq 1 .. m
      BY <1>1
    <3>2. IsFiniteSet(1 .. m)
      BY FS_Interval
    <3> QED BY <3>1, <3>2, FS_Subset
  <2>2. PICK c \in Nat : c = Cardinality(ones)
    BY <2>1, FS_CardinalityType
  <2>3. Gate!CalValue(type, pins) = IF type = "XOR" THEN c % 2 ELSE 1 - (c % 2)
    <3>1. Gate!Cardinality({p \in DOMAIN pins : pins[p] = 1}) = c
      BY <1>1, <2>2, GateCount
    <3> QED BY <1>5, <3>1 DEF Gate!CalValue
  <2>4. c % 2 \in {0, 1}
    OBVIOUS
  <2>5. Gate!CalValue(type, pins) \in {0, 1}
    BY <2>3, <2>4
  <2>6. \A x, y : ~Forces(type, x, y)
    BY <1>5 DEF Forces
  <2> QED BY <2>5, <2>6
<1> QED BY <1>3, <1>4, <1>5 DEF GateTypes

\* What gate h reads when the connections of the set S carry x, and f are the values.
Seen(n, S, x, f, h) ==
  [k \in DOMAIN n.ins[h] |-> IF <<h, k>> \in S THEN x ELSE f[n.ins[h][k]]]

ValueFrom(n, v, S, x, f, h) ==
  IF n.ins[h] = <<>> THEN v[h] ELSE Gate!CalValue(n.types[h], Seen(n, S, x, f, h))

LEMMA SeenType ==
  ASSUME NEW n, NEW s, LegalNetlist(n, s), NEW S, NEW x \in {0, 1}, NEW f, NEW h \in 1 .. s,
         \A k \in DOMAIN n.ins[h] : f[n.ins[h][k]] \in {0, 1}
  PROVE  Seen(n, S, x, f, h) \in [1 .. Len(n.ins[h]) -> {0, 1}]
<1>1. DOMAIN n.ins[h] = 1 .. Len(n.ins[h])
  BY DEF LegalNetlist
<1> QED BY <1>1 DEF Seen

LEMMA ValueType ==
  ASSUME NEW n, NEW s, LegalNetlist(n, s), NEW v, NEW S, NEW x \in {0, 1}, NEW f,
         NEW h \in 1 .. s, n.ins[h] = <<>> => v[h] \in {0, 1},
         \A k \in DOMAIN n.ins[h] : f[n.ins[h][k]] \in {0, 1}
  PROVE  ValueFrom(n, v, S, x, f, h) \in {0, 1}
<1>1. CASE n.ins[h] = <<>>
  BY <1>1 DEF ValueFrom
<1>2. CASE n.ins[h] # <<>>
  <2>1. PICK m : m = Len(n.ins[h])
    OBVIOUS
  <2>2. m \in Nat
    BY <2>1 DEF LegalNetlist
  <2>3. PICK pins : pins = Seen(n, S, x, f, h)
    OBVIOUS
  <2>4. pins \in [1 .. m -> {0, 1}]
    BY <2>1, <2>3, SeenType
  <2>5. n.types[h] \in GateTypes /\ ArityOk(n.types[h], m)
    BY <1>2, <2>1 DEF LegalNetlist
  <2>6. Gate!CalValue(n.types[h], pins) \in {0, 1}
    BY <2>2, <2>4, <2>5, GateValue
  <2> QED BY <1>2, <2>3, <2>6 DEF ValueFrom
<1> QED BY <1>1, <1>2

\* The values of all gates.
Valued(n, s, v, S, x, f) ==
  /\ f \in [1 .. s -> {0, 1}]
  /\ \A h \in 1 .. s : f[h] = ValueFrom(n, v, S, x, f, h)

Computes(n, s, v, S, x, f) ==
  /\ Valued(n, s, v, S, x, f)
  /\ FaultyValue(n, v, S, x)
       = [k \in DOMAIN n.outs |-> IF <<0, n.outs[k]>> \in S THEN x ELSE f[n.outs[k]]]

LEMMA FaultyParts ==
  ASSUME NEW n, NEW s, LegalNetlist(n, s), NEW v \in FileVectors(n), NEW S, NEW x \in {0, 1}
  PROVE  \E f : Computes(n, s, v, S, x, f)
<1> DEFINE I == 1 .. s
           Q == {0, 1}
           D == [h \in I |-> [f \in [I -> Q] |-> ValueFrom(n, v, S, x, f, h)]]
           rank == [h \in I |-> h]
<1>1. /\ s \in Nat /\ DOMAIN n.ins = I
      /\ \A h \in I : \A k \in DOMAIN n.ins[h] : n.ins[h][k] \in I /\ n.ins[h][k] < h
      /\ \A h \in I : n.ins[h] = <<>> => v[h] \in Q
  BY SeqElements DEF LegalNetlist, FileVectors
<1>2. rank \in [I -> Nat] /\ Q # {}
  BY <1>1
<1>3. \A h \in I : \A f \in [I -> Q] : D[h][f] = ValueFrom(n, v, S, x, f, h)
  OBVIOUS
<1>4. ASSUME NEW h \in I, NEW f \in [I -> Q]
      PROVE  D[h][f] \in Q
  <2>1. \A k \in DOMAIN n.ins[h] : f[n.ins[h][k]] \in {0, 1}
    BY <1>1
  <2>2. ValueFrom(n, v, S, x, f, h) \in {0, 1}
    BY <1>1, <2>1, ValueType
  <2> QED BY <1>3, <2>2
<1>5. ASSUME NEW h \in I, NEW f \in [I -> Q], NEW g \in [I -> Q],
             \A m \in I : rank[m] < rank[h] => f[m] = g[m]
      PROVE  D[h][f] = D[h][g]
  <2>1. \A k \in DOMAIN n.ins[h] : f[n.ins[h][k]] = g[n.ins[h][k]]
    BY <1>1, <1>5
  <2>2. Seen(n, S, x, f, h) = Seen(n, S, x, g, h)
    BY <2>1 DEF Seen
  <2> QED BY <1>3, <2>2 DEF ValueFrom
<1>6. Delivers(D, I, Q) /\ ReadsBelow(D, I, Q, rank)
  <2> HIDE DEF D, I, Q, rank
  <2> QED BY <1>4, <1>5 DEF Delivers, ReadsBelow
<1>7. \E f \in [I -> Q] : Solves(f, D, I)
  <2> HIDE DEF D, I, Q, rank
  <2> QED BY <1>2, <1>6, RankedRecursion
<1>8. PICK f \in [I -> Q] : \A h \in I : f[h] = ValueFrom(n, v, S, x, f, h)
  <2> HIDE DEF D, I, Q
  <2>1. PICK f \in [I -> Q] : \A h \in I : f[h] = D[h][f]
    BY <1>7 DEF Solves
  <2> QED BY <1>3, <2>1
<1> DEFINE Rec(r) == [g \in DOMAIN n.ins |->
                        IF n.ins[g] = <<>> THEN v[g]
                        ELSE Gate!CalValue(n.types[g],
                               [k \in DOMAIN n.ins[g] |->
                                  IF <<g, k>> \in S THEN x ELSE r[n.ins[g][k]]])]
           val == CHOOSE r : r = Rec(r)
<1>9. \A r : Rec(r) = [h \in I |-> ValueFrom(n, v, S, x, r, h)]
  BY <1>1 DEF ValueFrom, Seen
<1>10. FaultyValue(n, v, S, x)
         = [k \in DOMAIN n.outs |-> IF <<0, n.outs[k]>> \in S THEN x ELSE val[n.outs[k]]]
  BY DEF FaultyValue
<1> HIDE DEF Rec
<1>11. f = Rec(f)
  <2>1. f = [h \in I |-> f[h]]
    OBVIOUS
  <2>2. f = [h \in I |-> ValueFrom(n, v, S, x, f, h)]
    BY <1>8, <2>1
  <2> QED BY <1>9, <2>2
<1>12. val = Rec(val)
  BY <1>11
<1> HIDE DEF val
<1>13. DOMAIN val = I /\ \A h \in I : val[h] = ValueFrom(n, v, S, x, val, h)
  BY <1>9, <1>12
<1> DEFINE B == {m \in Nat : \A h \in I : h <= m => val[h] \in Q}
<1>14. 0 \in B
  BY <1>1
<1>15. ASSUME NEW m \in B PROVE m + 1 \in B
  <2> SUFFICES ASSUME NEW h \in I, h <= m + 1 PROVE val[h] \in Q
    OBVIOUS
  <2>1. ASSUME NEW k \in DOMAIN n.ins[h] PROVE val[n.ins[h][k]] \in {0, 1}
    BY <1>1
  <2>2. ValueFrom(n, v, S, x, val, h) \in {0, 1}
    BY <1>1, <2>1, ValueType
  <2> QED BY <1>13, <2>2
<1>16. B = Nat
  <2>1. B \in SUBSET Nat
    OBVIOUS
  <2> HIDE DEF B
  <2> QED BY <1>14, <1>15, <2>1, InductionOverNat
<1>17. \A h \in I : val[h] \in Q
  BY <1>1, <1>16
<1>18. val \in [I -> Q]
  <2>1. val = [h \in I |-> val[h]]
    BY <1>9, <1>12
  <2> HIDE DEF I, Q
  <2> QED BY <1>17, <2>1
<1>19. Valued(n, s, v, S, x, val)
  BY <1>13, <1>18 DEF Valued
<1> QED BY <1>10, <1>19 DEF Computes

LEMMA WiresAre ==
  ASSUME NEW n, NEW s, LegalNetlist(n, s), NEW r \in 1 .. s
  PROVE  /\ \A h \in 1 .. s : \A k \in DOMAIN n.ins[h] : <<h, k>> \in Wires(n, r) <=> n.ins[h][k] = r
         /\ \A k \in DOMAIN n.outs : <<0, n.outs[k]>> \in Wires(n, r) <=> n.outs[k] = r
         /\ \A c \in Wires(n, r) :
              \/ \E h \in 1 .. s : \E k \in DOMAIN n.ins[h] : c = <<h, k>> /\ n.ins[h][k] = r
              \/ r \in Range(n.outs) /\ c = <<0, r>>
<1>1. DOMAIN n.ins = 1 .. s /\ s \in Nat
  BY DEF LegalNetlist
<1>2. \A c : c \in ReadersOf(n, r) <=>
              \E h \in 1 .. s : \E k \in DOMAIN n.ins[h] : c = <<h, k>> /\ n.ins[h][k] = r
  BY <1>1 DEF ReadersOf
<1>3. \A c : c \in Wires(n, r) <=> c \in ReadersOf(n, r) \/ (r \in Range(n.outs) /\ c = <<0, r>>)
  BY DEF Wires
<1>4. ASSUME NEW h \in 1 .. s, NEW k \in DOMAIN n.ins[h]
      PROVE  <<h, k>> \in Wires(n, r) <=> n.ins[h][k] = r
  <2>1. <<h, k>> # <<0, r>>
    BY <1>1
  <2> QED BY <1>2, <1>3, <2>1
<1>5. ASSUME NEW k \in DOMAIN n.outs
      PROVE  <<0, n.outs[k]>> \in Wires(n, r) <=> n.outs[k] = r
  <2>1. \A h \in 1 .. s : \A m \in DOMAIN n.ins[h] : <<0, n.outs[k]>> # <<h, m>>
    BY <1>1
  <2>2. n.outs[k] \in Range(n.outs)
    BY DEF Range
  <2> QED BY <1>2, <1>3, <2>1, <2>2
<1> QED BY <1>2, <1>3, <1>4, <1>5

\* What agrees wherever it agrees below, at all gates but r, agrees at all but r.
AgreeAbove(s, f, g, r) ==
  \A h \in 1 .. s :
    h # r /\ (\A m \in 1 .. s : m < h /\ m # r => f[m] = g[m]) => f[h] = g[h]

LEMMA AgreesUpwards ==
  ASSUME NEW s \in Nat, NEW f, NEW g, NEW r,
         AgreeAbove(s, f, g, r)
  PROVE  \A h \in 1 .. s : h # r => f[h] = g[h]
<1> DEFINE B == {m \in Nat : \A h \in 1 .. s : h <= m /\ h # r => f[h] = g[h]}
<1>1. 0 \in B
  OBVIOUS
<1>2. ASSUME NEW m \in B PROVE m + 1 \in B
  <2> SUFFICES ASSUME NEW h \in 1 .. s, h <= m + 1, h # r PROVE f[h] = g[h]
    OBVIOUS
  <2>1. \A u \in 1 .. s : u < h /\ u # r => f[u] = g[u]
    OBVIOUS
  <2> QED BY <2>1 DEF AgreeAbove
<1>3. B = Nat
  <2>1. B \in SUBSET Nat
    OBVIOUS
  <2> HIDE DEF B
  <2> QED BY <1>1, <1>2, <2>1, InductionOverNat
<1> QED BY <1>3

\* A fault in front of a gate is one behind it if it alone decides the gate's value.
LEMMA FaultMoves ==
  ASSUME NEW n, NEW s, LegalNetlist(n, s), NEW v \in FileVectors(n), NEW r \in 1 .. s,
         NEW k \in DOMAIN n.ins[r], NEW x \in {0, 1}, NEW y \in {0, 1},
         Forces(n.types[r], x, y)
  PROVE  FaultyValue(n, v, {<<r, k>>}, x) = FaultyValue(n, v, Wires(n, r), y)
<1>1. PICK S : S = {<<r, k>>}
  OBVIOUS
<1>2. PICK T : T = Wires(n, r)
  OBVIOUS
<1>3. PICK f : Computes(n, s, v, S, x, f)
  BY FaultyParts
<1>4. PICK g : Computes(n, s, v, T, y, g)
  BY FaultyParts
<1>5. /\ s \in Nat /\ \A h \in 1 .. s : \A m \in DOMAIN n.ins[h] :
                        n.ins[h][m] \in 1 .. s /\ n.ins[h][m] < h
      /\ \A m \in DOMAIN n.outs : n.outs[m] \in 1 .. s
  BY SeqElements DEF LegalNetlist
<1>6. f[r] = y
  <2>1. PICK pins : pins = Seen(n, S, x, f, r)
    OBVIOUS
  <2>2. PICK m : m = Len(n.ins[r])
    OBVIOUS
  <2>3. m \in Nat /\ DOMAIN n.ins[r] = 1 .. m /\ n.ins[r] # <<>>
    BY <2>2, SeqElements DEF LegalNetlist
  <2>4. \A u \in DOMAIN n.ins[r] : f[n.ins[r][u]] \in {0, 1}
    BY <1>3, <1>5 DEF Computes, Valued
  <2>5. pins \in [1 .. m -> {0, 1}]
    BY <2>1, <2>2, <2>4, SeenType
  <2>6. pins[k] = x
    BY <1>1, <2>1 DEF Seen
  <2>7. n.types[r] \in GateTypes /\ ArityOk(n.types[r], m)
    BY <2>2, <2>3 DEF LegalNetlist
  <2>8. Gate!CalValue(n.types[r], pins) = y
    BY <2>3, <2>5, <2>6, <2>7, GateValue
  <2> QED BY <1>3, <2>1, <2>3, <2>8 DEF Computes, Valued, ValueFrom
<1>7. ASSUME NEW h \in 1 .. s, h # r, \A m \in 1 .. s : m < h /\ m # r => f[m] = g[m]
      PROVE  f[h] = g[h]
  <2>1. ASSUME NEW m \in DOMAIN n.ins[h]
        PROVE  (IF <<h, m>> \in S THEN x ELSE f[n.ins[h][m]])
                 = IF <<h, m>> \in T THEN y ELSE g[n.ins[h][m]]
    <3>1. <<h, m>> \notin S
      BY <1>1, <1>7
    <3>2. <<h, m>> \in T <=> n.ins[h][m] = r
      BY <1>2, WiresAre
    <3> QED BY <1>5, <1>6, <1>7, <3>1, <3>2
  <2>2. Seen(n, S, x, f, h) = Seen(n, T, y, g, h)
    BY <2>1 DEF Seen
  <2> QED BY <1>3, <1>4, <2>2 DEF Computes, Valued, ValueFrom
<1>8. \A h \in 1 .. s : h # r => f[h] = g[h]
  <2>1. AgreeAbove(s, f, g, r)
    BY <1>7 DEF AgreeAbove
  <2> QED BY <1>5, <2>1, AgreesUpwards
<1>9. ASSUME NEW m \in DOMAIN n.outs
      PROVE  (IF <<0, n.outs[m]>> \in S THEN x ELSE f[n.outs[m]])
                 = IF <<0, n.outs[m]>> \in T THEN y ELSE g[n.outs[m]]
  <2>1. <<0, n.outs[m]>> \notin S
    BY <1>1, <1>5
  <2>2. <<0, n.outs[m]>> \in T <=> n.outs[m] = r
    BY <1>2, WiresAre
  <2> QED BY <1>5, <1>6, <1>8, <2>1, <2>2
<1>10. FaultyValue(n, v, S, x) = FaultyValue(n, v, T, y)
  BY <1>3, <1>4, <1>9 DEF Computes
<1> QED BY <1>1, <1>2, <1>10

\* Without a fault the value it is stuck at does not matter.
LEMMA NoFaultNoMatter ==
  ASSUME NEW n, NEW s, LegalNetlist(n, s), NEW v \in FileVectors(n),
         NEW x \in {0, 1}, NEW y \in {0, 1}
  PROVE  FaultyValue(n, v, {}, x) = FaultyValue(n, v, {}, y)
<1>1. PICK f : Computes(n, s, v, {}, x, f)
  BY FaultyParts
<1>2. PICK g : Computes(n, s, v, {}, y, g)
  BY FaultyParts
<1>3. /\ s \in Nat /\ \A h \in 1 .. s : \A m \in DOMAIN n.ins[h] :
                        n.ins[h][m] \in 1 .. s /\ n.ins[h][m] < h
      /\ \A m \in DOMAIN n.outs : n.outs[m] \in 1 .. s
  BY SeqElements DEF LegalNetlist
<1>4. ASSUME NEW h \in 1 .. s, h # 0, \A m \in 1 .. s : m < h /\ m # 0 => f[m] = g[m]
      PROVE  f[h] = g[h]
  <2>1. \A m \in DOMAIN n.ins[h] : f[n.ins[h][m]] = g[n.ins[h][m]]
    BY <1>3, <1>4
  <2>2. Seen(n, {}, x, f, h) = Seen(n, {}, y, g, h)
    BY <2>1 DEF Seen
  <2> QED BY <1>1, <1>2, <2>2 DEF Computes, Valued, ValueFrom
<1>5. \A h \in 1 .. s : h # 0 => f[h] = g[h]
  <2>1. AgreeAbove(s, f, g, 0)
    BY <1>4 DEF AgreeAbove
  <2> QED BY <1>3, <2>1, AgreesUpwards
<1>6. \A m \in DOMAIN n.outs : f[n.outs[m]] = g[n.outs[m]]
  BY <1>3, <1>5
<1> QED BY <1>1, <1>2, <1>6 DEF Computes

LEMMA TestsMove ==
  ASSUME NEW n, NEW s, LegalNetlist(n, s), NEW r \in 1 .. s,
         NEW k \in DOMAIN n.ins[r], NEW x \in {0, 1}, NEW y \in {0, 1},
         Forces(n.types[r], x, y)
  PROVE  DetectedBy(n, {<<r, k>>}, x) = DetectedBy(n, Wires(n, r), y)
<1>1. \A v \in FileVectors(n) :
        /\ FaultyValue(n, v, {<<r, k>>}, x) = FaultyValue(n, v, Wires(n, r), y)
        /\ FaultyValue(n, v, {}, x) = FaultyValue(n, v, {}, y)
  BY FaultMoves, NoFaultNoMatter
<1> QED BY <1>1 DEF DetectedBy

------------------------------------------------------------------------------
\* The netlist with all its lines.
Split == IInv /\ InputsKept /\ NamesKept /\ pc = "done"

LEMMA SplitFacts ==
  ASSUME Split
  PROVE  /\ file \in Netlists /\ Size = Len(file.ins) /\ Size \in Nat
         /\ DOMAIN file.ins = Originals /\ Originals = 1 .. Size
         /\ Len(gates) \in Nat /\ DOMAIN gates = 1 .. Len(gates) /\ Size <= Len(gates)
         /\ \A g \in DOMAIN gates : /\ gates[g].fanins \in Seq(DOMAIN gates)
                                    /\ gates[g].fanouts \in Seq(DOMAIN gates)
                                    /\ gates[g].isPO \in BOOLEAN /\ gates[g].is_stem \in BOOLEAN
                                    /\ gates[g].type \in {"INPUT", "GATE", "LINE"}
         /\ \A g \in Originals : Passed(g)
         /\ \A g \in Originals : g \in DOMAIN gates /\ ~IsLine(g) /\ gates[g].name = <<g>>
         /\ \A g \in DOMAIN gates : g > Size => /\ IsLine(g) /\ LineBetween(gates[g], Size)
                                                /\ gates[g].name = LineName(gates[g])
<1>1. /\ file \in Netlists /\ Size \in Nat /\ Size <= Len(gates)
      /\ DOMAIN file.ins = Originals /\ Originals = 1 .. Size
      /\ Len(gates) \in Nat /\ DOMAIN gates = 1 .. Len(gates)
      /\ \A g \in DOMAIN gates : gates[g] \in GateAmong(Len(gates))
      /\ \A g \in DOMAIN gates : /\ gates[g].fanins \in Seq(DOMAIN gates)
                                 /\ gates[g].fanouts \in Seq(DOMAIN gates)
                                 /\ gates[g].isPO \in BOOLEAN /\ gates[g].is_stem \in BOOLEAN
  BY GatesTyped DEF Split, IInv, Typed, Originals
<1>2. \A g \in DOMAIN gates : gates[g].type \in {"INPUT", "GATE", "LINE"}
  <2>1. PICK n \in Nat : n = Len(gates)
    BY <1>1
  <2> SUFFICES ASSUME NEW g \in DOMAIN gates PROVE gates[g].type \in {"INPUT", "GATE", "LINE"}
    OBVIOUS
  <2>2. gates[g] \in GateAmong(n)
    BY <1>1, <2>1
  <2> QED BY <2>1, <2>2, GateFields
<1>3. \A g \in Originals : Passed(g)
  <2>1. j > Size /\ j \in Nat
    BY <1>1 DEF Split, IInv, Progress, Typed
  <2>2. \A g \in Originals : g < j
    BY <1>1, <2>1
  <2> QED BY <2>2 DEF Split, IInv, Progress
<1>4. \A g \in Originals : g \in DOMAIN gates /\ ~IsLine(g) /\ gates[g].name = <<g>>
  BY <1>1 DEF Split, IInv, LinesFollow, NamesKept
<1>5. \A g \in DOMAIN gates : g > Size => /\ IsLine(g) /\ LineBetween(gates[g], Size)
                                          /\ gates[g].name = LineName(gates[g])
  BY DEF Split, IInv, LinesFollow, NamesKept
<1> QED BY <1>1, <1>2, <1>3, <1>4, <1>5 DEF Size

LEMMA DriversAre ==
  ASSUME Split, NEW t \in Seq(DOMAIN gates)
  PROVE  /\ Drivers(t) \in Seq(DOMAIN gates) /\ DOMAIN Drivers(t) = DOMAIN t
         /\ \A k \in DOMAIN t : Drivers(t)[k] = Driver(t[k])
         /\ \A g : Count(Drivers(t), g) > 0 <=> \E f \in Range(t) : Driver(f) = g
<1>1. PICK n \in Nat : n = Len(gates) /\ DOMAIN gates = 1 .. n
  BY SplitFacts
<1>2. Maps(DriverOf(gates), 1 .. n, 1 .. n)
  BY <1>1, DriversType DEF Split, IInv
<1>3. Drivers(t) = Through(DriverOf(gates), t)
  BY ThroughDrivers
<1>4. Drivers(t) \in Seq(1 .. n)
  BY <1>1, <1>2, <1>3, ThroughType
<1>5. DOMAIN Drivers(t) = DOMAIN t /\ \A k \in DOMAIN t : Drivers(t)[k] = Driver(t[k])
  BY DEF Drivers
<1>6. ASSUME NEW g
      PROVE  Count(Drivers(t), g) > 0 <=> \E f \in Range(t) : Driver(f) = g
  <2>1. Count(Drivers(t), g) > 0 <=> \E k \in DOMAIN Drivers(t) : Drivers(t)[k] = g
    BY <1>4, CountPositive
  <2> QED BY <1>5, <2>1 DEF Range
<1> QED BY <1>1, <1>4, <1>5, <1>6

\* Who reads whom, and what the file says of it.
MirroredIn == \A g, h \in DOMAIN gates :
                g \in Range(gates[h].fanins) <=> h \in Range(gates[g].fanouts)
ReadsAsFile == \A g, h \in Originals :
                 g \in Range(file.ins[h]) <=> \E f \in Range(gates[h].fanins) : Driver(f) = g
OutputsAsFile == \A g \in Originals :
                   g \in Range(file.outs) <=> \E f \in DOMAIN gates : gates[f].isPO /\ Driver(f) = g

LEMMA SplitMembers ==
  ASSUME Split
  PROVE  MirroredIn /\ ReadsAsFile /\ OutputsAsFile
<1> USE SplitFacts
<1>1. ASSUME NEW g \in DOMAIN gates, NEW h \in DOMAIN gates
      PROVE  g \in Range(gates[h].fanins) <=> h \in Range(gates[g].fanouts)
  <2>1. Count(gates[g].fanouts, h) = Count(gates[h].fanins, g)
    BY DEF Split, IInv, SameStory
  <2>2. Count(gates[g].fanouts, h) > 0 <=> \E k \in DOMAIN gates[g].fanouts : gates[g].fanouts[k] = h
    BY CountPositive
  <2>3. Count(gates[h].fanins, g) > 0 <=> \E k \in DOMAIN gates[h].fanins : gates[h].fanins[k] = g
    BY CountPositive
  <2> QED BY <2>1, <2>2, <2>3 DEF Range
<1>2. ASSUME NEW g \in Originals, NEW h \in Originals
      PROVE  g \in Range(file.ins[h]) <=> \E f \in Range(gates[h].fanins) : Driver(f) = g
  <2>1. Count(Drivers(gates[h].fanins), g) = Count(file.ins[h], g)
    BY DEF Split, IInv, SameCircuit
  <2>2. Count(Drivers(gates[h].fanins), g) > 0 <=> \E f \in Range(gates[h].fanins) : Driver(f) = g
    BY DriversAre
  <2>3. file.ins[h] \in Seq(Nat)
    BY NetlistFacts
  <2>4. Count(file.ins[h], g) > 0 <=> \E k \in DOMAIN file.ins[h] : file.ins[h][k] = g
    BY <2>3, CountPositive
  <2> QED BY <2>1, <2>2, <2>4 DEF Range
<1>3. ASSUME NEW g \in Originals
      PROVE  g \in Range(file.outs) <=> \E f \in DOMAIN gates : gates[f].isPO /\ Driver(f) = g
  <2>1. Count(Drivers(POs), g) = Count(file.outs, g)
    BY DEF Split, IInv, SameCircuit
  <2>2. POs \in Seq(DOMAIN gates)
    BY DEF Split, IInv, Typed
  <2>3. Count(Drivers(POs), g) > 0 <=> \E f \in Range(POs) : Driver(f) = g
    BY <2>2, DriversAre
  <2>4. \A f \in DOMAIN gates : f \in Range(POs) <=> gates[f].isPO
    <3> SUFFICES ASSUME NEW f \in DOMAIN gates PROVE f \in Range(POs) <=> gates[f].isPO
      OBVIOUS
    <3>1. Count(POs, f) = IF gates[f].isPO THEN 1 ELSE 0
      BY DEF Split, IInv, OutputsListed
    <3>2. Count(POs, f) > 0 <=> \E k \in DOMAIN POs : POs[k] = f
      BY <2>2, CountPositive
    <3> QED BY <3>1, <3>2 DEF Range
  <2>5. \A f \in Range(POs) : f \in DOMAIN gates
    BY <2>2, SeqElements DEF Range
  <2>6. file.outs \in Seq(DOMAIN file.ins)
    BY NetlistFacts
  <2>7. Count(file.outs, g) > 0 <=> \E k \in DOMAIN file.outs : file.outs[k] = g
    BY <2>6, CountPositive
  <2> QED BY <2>1, <2>3, <2>4, <2>5, <2>7 DEF Range
<1> QED BY <1>1, <1>2, <1>3 DEF MirroredIn, ReadsAsFile, OutputsAsFile

\* A line stands at a branch of a stem.
Stands(l, g) ==
  /\ g = gates[l].fanins[1] /\ g \in Originals /\ gates[g].is_stem /\ Driver(l) = g
  /\ IF gates[l].isPO THEN g \in Range(file.outs) /\ gates[l].name = <<g, 0>>
     ELSE LET r == gates[l].fanouts[1] IN
          /\ r \in Originals /\ Len(gates[l].fanouts) = 1 /\ g \in Range(file.ins[r])
          /\ gates[l].name = <<g, r>>

LEMMA LinesStand ==
  ASSUME Split, NEW l \in DOMAIN gates, l > Size
  PROVE  Stands(l, gates[l].fanins[1])
<1>1. MirroredIn /\ ReadsAsFile /\ OutputsAsFile
  BY SplitMembers
<1>2. PICK g : g = gates[l].fanins[1]
  OBVIOUS
<1>3. IsLine(l) /\ LineBetween(gates[l], Size) /\ gates[l].name = LineName(gates[l])
  BY SplitFacts
<1>4. Originals = 1 .. Size
  BY SplitFacts
<1>5. g \in Originals /\ Driver(l) = g /\ g \in Range(gates[l].fanins)
  <2>1. gates[l].fanins \in Seq(DOMAIN gates)
    BY SplitFacts
  <2>2. Len(gates[l].fanins) = 1 /\ g \in 1 .. Size
    BY <1>2, <1>3 DEF LineBetween
  <2>3. 1 \in DOMAIN gates[l].fanins
    BY <2>1, <2>2
  <2> QED BY <1>2, <1>3, <1>4, <2>2, <2>3 DEF Driver, Range
<1>6. gates[g].is_stem
  <2>1. g \in DOMAIN gates /\ Passed(g) /\ Size \in Nat
    BY <1>5, SplitFacts
  <2>2. l \in Range(gates[g].fanouts)
    BY <1>1, <1>5, <2>1 DEF MirroredIn
  <2>3. PICK k \in DOMAIN gates[g].fanouts : gates[g].fanouts[k] = l
    BY <2>2 DEF Range
  <2>4. ~(l <= Size)
    BY <2>1, SplitFacts
  <2> QED BY <2>1, <2>3, <2>4 DEF Passed
<1>7. CASE gates[l].isPO
  <2>1. g \in Range(file.outs)
    BY <1>1, <1>5, <1>7 DEF OutputsAsFile
  <2> QED BY <1>2, <1>3, <1>5, <1>6, <1>7, <2>1 DEF Stands, LineName
<1>8. CASE ~gates[l].isPO
  <2>1. PICK r : r = gates[l].fanouts[1]
    OBVIOUS
  <2>2. Len(gates[l].fanouts) = 1 /\ r \in Originals
    BY <1>3, <1>4, <1>8, <2>1 DEF LineBetween
  <2>3. r \in DOMAIN gates /\ gates[l].fanouts \in Seq(DOMAIN gates)
    BY <2>2, SplitFacts
  <2>4. r \in Range(gates[l].fanouts)
    <3>1. 1 \in DOMAIN gates[l].fanouts
      BY <2>2, <2>3
    <3> QED BY <2>1, <3>1 DEF Range
  <2>5. l \in Range(gates[r].fanins)
    BY <1>1, <2>3, <2>4 DEF MirroredIn
  <2>6. g \in Range(file.ins[r])
    BY <1>1, <1>5, <2>2, <2>5 DEF ReadsAsFile
  <2>7. gates[l].name = <<g, r>>
    BY <1>2, <1>3, <1>8, <2>1 DEF LineName
  <2> QED BY <1>2, <1>5, <1>6, <1>8, <2>1, <2>2, <2>6, <2>7 DEF Stands
<1> QED BY <1>7, <1>8

\* The output branch of a gate.
OutputBranch(g) ==
  /\ gates[g].is_stem => /\ ~gates[g].isPO
                         /\ g \in Range(file.outs) =>
                              \E l \in DOMAIN gates : l > Size /\ gates[l].isPO /\ Stands(l, g)
  /\ ~gates[g].is_stem => (gates[g].isPO <=> g \in Range(file.outs))

LEMMA OutputBranches ==
  ASSUME Split, NEW g \in Originals
  PROVE  OutputBranch(g)
<1>1. OutputsAsFile /\ g \in DOMAIN gates /\ ~IsLine(g) /\ Passed(g) /\ gates[g].isPO \in BOOLEAN
  BY SplitMembers, SplitFacts
<1>2. ASSUME gates[g].isPO PROVE g \in Range(file.outs)
  BY <1>1, <1>2 DEF OutputsAsFile, Driver
<1>3. ASSUME g \in Range(file.outs)
      PROVE  gates[g].isPO \/ \E l \in DOMAIN gates : l > Size /\ gates[l].isPO /\ Stands(l, g)
  <2>1. PICK f \in DOMAIN gates : gates[f].isPO /\ Driver(f) = g
    BY <1>1, <1>3 DEF OutputsAsFile
  <2>2. CASE f > Size
    <3>1. Stands(f, gates[f].fanins[1])
      BY <2>2, LinesStand
    <3>2. gates[f].fanins[1] = g
      BY <2>1, <3>1 DEF Stands
    <3> QED BY <2>1, <2>2, <3>1, <3>2
  <2>3. CASE ~(f > Size)
    <3>1. ~IsLine(f)
      BY <2>3, SplitFacts
    <3> QED BY <2>1, <3>1 DEF Driver
  <2> QED BY <2>2, <2>3
<1>4. ASSUME ~gates[g].is_stem, NEW l \in DOMAIN gates, l > Size PROVE ~Stands(l, g)
  BY <1>4 DEF Stands
<1>5. gates[g].is_stem => ~gates[g].isPO
  BY <1>1 DEF Passed
<1> QED BY <1>2, <1>3, <1>4, <1>5 DEF OutputBranch

\* The branch of g that leads to r.
PinBranch(g, r) ==
  g \in Range(file.ins[r]) <=>
    IF gates[g].is_stem
    THEN \E l \in DOMAIN gates : /\ l > Size /\ ~gates[l].isPO
                                 /\ Stands(l, g) /\ gates[l].fanouts[1] = r
    ELSE r \in Range(gates[g].fanouts)

LEMMA PinBranches ==
  ASSUME Split, NEW g \in Originals, NEW r \in Originals
  PROVE  PinBranch(g, r)
<1>1. MirroredIn /\ ReadsAsFile
  BY SplitMembers
<1>2. /\ g \in DOMAIN gates /\ r \in DOMAIN gates /\ Passed(g) /\ r <= Size /\ ~IsLine(g)
      /\ Size \in Nat /\ r \in Nat
  BY SplitFacts
<1>3. ASSUME g \in Range(file.ins[r]), gates[g].is_stem
      PROVE  \E l \in DOMAIN gates : /\ l > Size /\ ~gates[l].isPO
                                     /\ Stands(l, g) /\ gates[l].fanouts[1] = r
  <2>1. PICK f \in Range(gates[r].fanins) : Driver(f) = g
    BY <1>1, <1>3 DEF ReadsAsFile
  <2>2. f \in DOMAIN gates
    <3>1. gates[r].fanins \in Seq(DOMAIN gates)
      BY <1>2, SplitFacts
    <3> QED BY <3>1, SeqElements DEF Range
  <2>3. r \in Range(gates[f].fanouts)
    BY <1>1, <1>2, <2>2 DEF MirroredIn
  <2>4. PICK k \in DOMAIN gates[f].fanouts : gates[f].fanouts[k] = r
    BY <2>3 DEF Range
  <2>5. f > Size
    <3> SUFFICES ASSUME ~(f > Size) PROVE FALSE
      OBVIOUS
    <3>1. f \in Originals
      BY <2>2, SplitFacts
    <3>2. f = g
      BY <2>1, <3>1, SplitFacts DEF Driver
    <3>3. gates[g].fanouts[k] > Size
      BY <1>2, <1>3, <2>4, <3>2 DEF Passed
    <3> QED BY <1>2, <2>4, <3>2, <3>3
  <2>6. Stands(f, g)
    <3>1. Stands(f, gates[f].fanins[1])
      BY <2>2, <2>5, LinesStand
    <3> QED BY <2>1, <3>1 DEF Stands
  <2>7. LineBetween(gates[f], Size) /\ gates[f].fanouts \in Seq(DOMAIN gates)
    BY <2>2, <2>5, SplitFacts
  <2>8. ~gates[f].isPO /\ Len(gates[f].fanouts) = 1
    BY <2>4, <2>7 DEF LineBetween
  <2>9. k = 1
    BY <2>4, <2>7, <2>8
  <2> QED BY <2>2, <2>4, <2>5, <2>6, <2>8, <2>9
<1>4. ASSUME g \in Range(file.ins[r]), ~gates[g].is_stem
      PROVE  r \in Range(gates[g].fanouts)
  <2>1. PICK f \in Range(gates[r].fanins) : Driver(f) = g
    BY <1>1, <1>4 DEF ReadsAsFile
  <2>2. f \in DOMAIN gates
    <3>1. gates[r].fanins \in Seq(DOMAIN gates)
      BY <1>2, SplitFacts
    <3> QED BY <3>1, SeqElements DEF Range
  <2>3. r \in Range(gates[f].fanouts)
    BY <1>1, <1>2, <2>2 DEF MirroredIn
  <2>4. CASE f > Size
    <3>1. Stands(f, gates[f].fanins[1])
      BY <2>2, <2>4, LinesStand
    <3> QED BY <1>4, <2>1, <3>1 DEF Stands
  <2>5. CASE ~(f > Size)
    <3>1. f \in Originals
      BY <2>2, <2>5, SplitFacts
    <3>2. f = g
      BY <2>1, <3>1, SplitFacts DEF Driver
    <3> QED BY <2>3, <3>2
  <2> QED BY <2>4, <2>5
<1>5. ASSUME NEW l \in DOMAIN gates, ~gates[l].isPO, Stands(l, g), gates[l].fanouts[1] = r
      PROVE  g \in Range(file.ins[r])
  BY <1>5 DEF Stands
<1>6. ASSUME r \in Range(gates[g].fanouts)
      PROVE  g \in Range(file.ins[r])
  <2>1. g \in Range(gates[r].fanins)
    BY <1>1, <1>2, <1>6 DEF MirroredIn
  <2>2. Driver(g) = g
    BY <1>2 DEF Driver
  <2> QED BY <1>1, <2>1, <2>2 DEF ReadsAsFile
<1> QED BY <1>3, <1>4, <1>5, <1>6 DEF PinBranch

\* An element is in a sequence twice just when two places hold it.
LEMMA CountTwice ==
  ASSUME NEW T, NEW s \in Seq(T), NEW e
  PROVE  Count(s, e) >= 2 <=> \E k, m \in DOMAIN s : k # m /\ s[k] = e /\ s[m] = e
<1>1. Count(s, e) = Cardinality(Places(s, e)) /\ IsFiniteSet(Places(s, e))
      /\ Count(s, e) \in Nat
  BY CountPlaces
<1>2. ASSUME Count(s, e) >= 2
      PROVE  \E k, m \in DOMAIN s : k # m /\ s[k] = e /\ s[m] = e
  <2>1. PICK k : k \in Places(s, e)
    BY <1>1, <1>2, FS_EmptySet
  <2>2. IsFiniteSet(Places(s, e) \ {k})
        /\ Cardinality(Places(s, e) \ {k}) = Cardinality(Places(s, e)) - 1
    BY <1>1, <2>1, FS_RemoveElement
  <2>3. PICK m : m \in Places(s, e) \ {k}
    BY <1>1, <1>2, <2>2, FS_EmptySet
  <2> QED BY <2>1, <2>3 DEF Places
<1>3. ASSUME NEW k \in DOMAIN s, NEW m \in DOMAIN s, k # m, s[k] = e, s[m] = e
      PROVE  Count(s, e) >= 2
  <2>1. k \in Places(s, e) /\ m \in Places(s, e)
    BY <1>3 DEF Places
  <2>5. IsFiniteSet({k}) /\ Cardinality({k}) = 1 /\ m \notin {k}
    BY <1>3, FS_Singleton
  <2>2. Cardinality({k} \cup {m}) = 2
    <3>1. PICK D : D = {k}
      OBVIOUS
    <3>2. IsFiniteSet(D) /\ Cardinality(D) = 1 /\ m \notin D
      BY <2>5, <3>1
    <3>3. Cardinality(D \cup {m}) = Cardinality(D) + 1
      BY <3>2, FS_AddElement
    <3>4. Cardinality(D \cup {m}) = 2
      BY <3>2, <3>3
    <3> QED BY <3>1, <3>4, Zenon
  <2>3. {k} \cup {m} \in SUBSET Places(s, e)
    BY <2>1
  <2>4. Cardinality({k} \cup {m}) <= Cardinality(Places(s, e))
    BY <1>1, <2>3, FS_Subset
  <2> QED BY <1>1, <2>2, <2>4
<1> QED BY <1>2, <1>3

\* l is a line from g to r.
LineTo(l, g, r) ==
  l \in DOMAIN gates /\ l > Size /\ ~gates[l].isPO /\ Stands(l, g) /\ gates[l].fanouts[1] = r

\* A gate whose output goes to lines, or to one gate at most.
LEMMA FewFanouts ==
  ASSUME Split, NEW g \in Originals
  PROVE  /\ gates[g].is_stem => \A k \in DOMAIN gates[g].fanouts : gates[g].fanouts[k] > Size
         /\ ~gates[g].is_stem => /\ \A k \in DOMAIN gates[g].fanouts : gates[g].fanouts[k] <= Size
                                 /\ Len(gates[g].fanouts) <= 1
                                 /\ gates[g].isPO => Len(gates[g].fanouts) = 0
<1>1. Passed(g) /\ g \in DOMAIN gates
  BY SplitFacts
<1>2. Len(gates[g].fanouts) + (IF gates[g].isPO THEN 1 ELSE 0) = Branches(g)
  BY DEF Split, IInv, LengthsKept
<1>3. Len(gates[g].fanouts) \in Nat
  <2>1. gates[g].fanouts \in Seq(DOMAIN gates)
    BY <1>1, SplitFacts
  <2> QED BY <2>1
<1>4. PICK b : b = Branches(g)
  OBVIOUS
<1>5. /\ gates[g].is_stem <=> b >= 2
      /\ gates[g].is_stem => \A k \in DOMAIN gates[g].fanouts : gates[g].fanouts[k] > Size
      /\ ~gates[g].is_stem => \A k \in DOMAIN gates[g].fanouts : gates[g].fanouts[k] <= Size
  BY <1>1, <1>4 DEF Passed
<1>6. /\ gates[g].isPO => Len(gates[g].fanouts) + 1 = b
      /\ ~gates[g].isPO => Len(gates[g].fanouts) + 0 = b
  BY <1>2, <1>4
<1> QED BY <1>3, <1>5, <1>6

\* One gate gives its value to another in one place, unless through two lines.
LEMMA ReadTwice ==
  ASSUME Split, NEW g \in Originals, NEW r \in Originals,
         NEW k \in DOMAIN file.ins[r], NEW m \in DOMAIN file.ins[r],
         k # m, file.ins[r][k] = g, file.ins[r][m] = g
  PROVE  \E l, o \in DOMAIN gates : l # o /\ LineTo(l, g, r) /\ LineTo(o, g, r)
<1>1. /\ g \in DOMAIN gates /\ r \in DOMAIN gates /\ r \in Nat /\ r <= Size /\ Size \in Nat
      /\ gates[r].fanins \in Seq(DOMAIN gates)
  BY SplitFacts
<1>2. file.ins[r] \in Seq(Nat)
  BY SplitFacts, NetlistFacts
<1>3. Count(file.ins[r], g) >= 2
  BY <1>2, CountTwice
<1>4. Count(Drivers(gates[r].fanins), g) >= 2
  BY <1>3, SplitFacts DEF Split, IInv, SameCircuit
<1>5. PICK a, b \in DOMAIN gates[r].fanins :
        a # b /\ Driver(gates[r].fanins[a]) = g /\ Driver(gates[r].fanins[b]) = g
  <2>1. /\ Drivers(gates[r].fanins) \in Seq(DOMAIN gates)
        /\ DOMAIN Drivers(gates[r].fanins) = DOMAIN gates[r].fanins
        /\ \A p \in DOMAIN gates[r].fanins :
             Drivers(gates[r].fanins)[p] = Driver(gates[r].fanins[p])
    BY <1>1, DriversAre
  <2>2. \E a, b \in DOMAIN Drivers(gates[r].fanins) :
          a # b /\ Drivers(gates[r].fanins)[a] = g /\ Drivers(gates[r].fanins)[b] = g
    BY <1>4, <2>1, CountTwice
  <2> QED BY <2>1, <2>2
<1>6. ASSUME NEW f \in DOMAIN gates, f \in Range(gates[r].fanins), Driver(f) = g
      PROVE  r \in Range(gates[f].fanouts) /\ (f > Size => LineTo(f, g, r)) /\ (~(f > Size) => f = g)
  <2>1. r \in Range(gates[f].fanouts)
    BY <1>1, <1>6, SplitMembers DEF MirroredIn
  <2>2. ASSUME f > Size PROVE LineTo(f, g, r)
    <3>1. Stands(f, gates[f].fanins[1])
      BY <2>2, LinesStand
    <3>2. Stands(f, g)
      BY <1>6, <3>1 DEF Stands
    <3>3. LineBetween(gates[f], Size) /\ gates[f].fanouts \in Seq(DOMAIN gates)
      BY <2>2, SplitFacts
    <3>4. PICK p \in DOMAIN gates[f].fanouts : gates[f].fanouts[p] = r
      BY <2>1 DEF Range
    <3>5. ~gates[f].isPO /\ Len(gates[f].fanouts) = 1
      BY <3>3, <3>4 DEF LineBetween
    <3>6. p = 1
      BY <3>3, <3>5
    <3> QED BY <2>2, <3>2, <3>4, <3>5, <3>6 DEF LineTo
  <2>3. ASSUME ~(f > Size) PROVE f = g
    <3>1. f \in Originals
      BY <2>3, SplitFacts
    <3> QED BY <1>6, <3>1, SplitFacts DEF Driver
  <2> QED BY <2>1, <2>2, <2>3
<1>7. PICK l \in DOMAIN gates : l = gates[r].fanins[a]
  BY <1>1, SeqElements
<1>8. PICK o \in DOMAIN gates : o = gates[r].fanins[b]
  BY <1>1, SeqElements
<1>9. /\ l \in Range(gates[r].fanins) /\ o \in Range(gates[r].fanins)
      /\ Driver(l) = g /\ Driver(o) = g
  BY <1>5, <1>7, <1>8 DEF Range
<1>10. l # o
  <2> SUFFICES ASSUME l = o PROVE FALSE
    OBVIOUS
  <2>0. \E p, m2 \in DOMAIN gates[r].fanins :
          p # m2 /\ gates[r].fanins[p] = l /\ gates[r].fanins[m2] = l
    BY <1>5, <1>7, <1>8
  <2>1. Count(gates[r].fanins, l) >= 2
    BY <1>1, <2>0, CountTwice
  <2>2. Count(gates[l].fanouts, r) >= 2
    BY <1>1, <2>1 DEF Split, IInv, SameStory
  <2>3. gates[l].fanouts \in Seq(DOMAIN gates)
    BY SplitFacts
  <2>4. PICK p, m2 \in DOMAIN gates[l].fanouts :
          p # m2 /\ gates[l].fanouts[p] = r /\ gates[l].fanouts[m2] = r
    BY <2>2, <2>3, CountTwice
  <2>5. Len(gates[l].fanouts) > 1
    BY <2>3, <2>4
  <2>6. CASE l > Size
    <3>1. Stands(l, g) /\ ~gates[l].isPO
      BY <1>6, <1>9, <2>6 DEF LineTo
    <3>2. Len(gates[l].fanouts) = 1
      BY <3>1 DEF Stands
    <3> QED BY <2>5, <3>2
  <2>7. CASE ~(l > Size)
    <3>1. l = g
      BY <1>6, <1>9, <2>7
    <3>2. Len(gates[g].fanouts) \in Nat
      BY <2>3, <3>1
    <3>3. gates[g].is_stem
      BY <2>5, <3>1, <3>2, FewFanouts
    <3>4. gates[g].fanouts[p] > Size
      BY <2>4, <3>1, <3>3, FewFanouts
    <3> QED BY <1>1, <2>4, <3>1, <3>4
  <2> QED BY <2>6, <2>7
<1>11. l > Size /\ o > Size
  <2>1. ASSUME NEW f \in DOMAIN gates, f \in Range(gates[r].fanins), Driver(f) = g, ~(f > Size),
               NEW e \in DOMAIN gates, e \in Range(gates[r].fanins), Driver(e) = g, e # f
        PROVE  FALSE
    <3>1. f = g /\ r \in Range(gates[g].fanouts)
      BY <1>6, <2>1
    <3>2. e > Size /\ LineTo(e, g, r)
      BY <1>6, <2>1, <3>1
    <3>3. gates[g].is_stem
      BY <3>2 DEF LineTo, Stands
    <3>4. PICK p \in DOMAIN gates[g].fanouts : gates[g].fanouts[p] = r
      BY <3>1 DEF Range
    <3>5. r > Size
      BY <3>3, <3>4, FewFanouts
    <3> QED BY <1>1, <3>5
  <2> QED BY <1>9, <1>10, <2>1
<1>12. LineTo(l, g, r) /\ LineTo(o, g, r)
  BY <1>6, <1>9, <1>11
<1> QED BY <1>10, <1>12

\* No gate reads another one in two places.
OneRead ==
  \A r \in Originals : \A k, m \in DOMAIN file.ins[r] :
    file.ins[r][k] = file.ins[r][m] => k = m

LEMMA SitesOfGates ==
  ASSUME Split, NEW g \in Originals
  PROVE  SiteOf(g) = Wires(file, g)
<1>1. ~IsLine(g) /\ gates[g].name = <<g>>
  BY SplitFacts
<1>2. PICK name : name = gates[g].name
  OBVIOUS
<1>3. name[1] = g
  BY <1>1, <1>2
<1> QED BY <1>1, <1>2, <1>3 DEF SiteOf

LEMMA SitesOfOutputs ==
  ASSUME Split, NEW g \in Originals, NEW l \in DOMAIN gates, l > Size, gates[l].isPO, Stands(l, g)
  PROVE  SiteOf(l) = {<<0, g>>}
<1>1. IsLine(l) /\ gates[l].name = <<g, 0>>
  BY SplitFacts DEF Stands
<1>2. PICK name : name = gates[l].name
  OBVIOUS
<1>3. name[1] = g /\ name[2] = 0
  BY <1>1, <1>2
<1> QED BY <1>1, <1>2, <1>3 DEF SiteOf

LEMMA SitesOfBranches ==
  ASSUME Split, OneRead, NEW g \in Originals, NEW r \in Originals, NEW k \in DOMAIN file.ins[r],
         file.ins[r][k] = g, NEW l, LineTo(l, g, r)
  PROVE  SiteOf(l) = {<<r, k>>}
<1>1. l \in DOMAIN gates /\ l > Size /\ ~gates[l].isPO /\ gates[l].name = <<g, r>>
  BY DEF LineTo, Stands
<1>2. IsLine(l) /\ r # 0
  BY <1>1, SplitFacts
<1>3. PICK name : name = gates[l].name
  OBVIOUS
<1>4. name[1] = g /\ name[2] = r
  BY <1>1, <1>3
<1>5. SiteOf(l) = {c \in ReadersOf(file, g) : c[1] = r}
  BY <1>2, <1>3, <1>4 DEF SiteOf
<1>6. DOMAIN file.ins = Originals
  BY SplitFacts
<1>7. \A c : c \in ReadersOf(file, g) <=>
              \E h \in Originals : \E m \in DOMAIN file.ins[h] : c = <<h, m>> /\ file.ins[h][m] = g
  BY <1>6 DEF ReadersOf
<1>8. ASSUME NEW c \in ReadersOf(file, g), c[1] = r PROVE c = <<r, k>>
  <2>1. PICK h \in Originals : \E m \in DOMAIN file.ins[h] : c = <<h, m>> /\ file.ins[h][m] = g
    BY <1>7
  <2>2. PICK m \in DOMAIN file.ins[h] : c = <<h, m>> /\ file.ins[h][m] = g
    BY <2>1
  <2>3. h = r
    BY <1>8, <2>2
  <2>4. m = k
    BY <2>2, <2>3 DEF OneRead
  <2> QED BY <2>2, <2>3, <2>4
<1>9. <<r, k>> \in ReadersOf(file, g)
  BY <1>7
<1> QED BY <1>5, <1>8, <1>9

\* A gate that is no stem and has a reader has no other fanout.
LEMMA OneFanout ==
  ASSUME Split, NEW g \in Originals, ~gates[g].is_stem
  PROVE  /\ gates[g].isPO => \A r \in Originals : \A k \in DOMAIN file.ins[r] : file.ins[r][k] # g
         /\ \A r \in Originals : \A k \in DOMAIN file.ins[r] :
              file.ins[r][k] = g => r = gates[g].fanouts[1] /\ Len(gates[g].fanouts) = 1
         /\ \A c \in Wires(file, g) :
              IF gates[g].isPO THEN c = <<0, g>>
              ELSE \E r \in Originals : \E k \in DOMAIN file.ins[r] :
                     c = <<r, k>> /\ file.ins[r][k] = g
<1>1. /\ LegalNetlist(file, Size) /\ Originals = 1 .. Size /\ g \in DOMAIN gates
      /\ gates[g].fanouts \in Seq(DOMAIN gates) /\ gates[g].isPO \in BOOLEAN
  BY SplitFacts, NetlistsAreLegal
<1>2. /\ Len(gates[g].fanouts) <= 1
      /\ gates[g].isPO => Len(gates[g].fanouts) = 0
  BY FewFanouts
<1>3. \A c \in Wires(file, g) :
        \/ \E h \in Originals : \E k \in DOMAIN file.ins[h] : c = <<h, k>> /\ file.ins[h][k] = g
        \/ g \in Range(file.outs) /\ c = <<0, g>>
  BY <1>1, WiresAre
<1>4. gates[g].isPO <=> g \in Range(file.outs)
  BY OutputBranches DEF OutputBranch
<1>5. ASSUME NEW r \in Originals, NEW k \in DOMAIN file.ins[r], file.ins[r][k] = g
      PROVE  Len(gates[g].fanouts) = 1 /\ r = gates[g].fanouts[1]
  <2>1. g \in Range(file.ins[r])
    BY <1>5 DEF Range
  <2>2. r \in Range(gates[g].fanouts)
    BY <2>1, PinBranches DEF PinBranch
  <2>3. PICK m \in DOMAIN gates[g].fanouts : gates[g].fanouts[m] = r
    BY <2>2 DEF Range
  <2>4. Len(gates[g].fanouts) = 1 /\ m = 1
    <3>1. PICK s \in Seq(DOMAIN gates) : s = gates[g].fanouts
      BY <1>1
    <3>2. Len(s) <= 1 /\ m \in DOMAIN s
      BY <1>2, <3>1
    <3>3. DOMAIN s = 1 .. Len(s) /\ Len(s) \in Nat
      OBVIOUS
    <3>4. Len(s) = 1 /\ m = 1
      BY <3>2, <3>3
    <3> QED BY <3>1, <3>4
  <2> QED BY <2>3, <2>4
<1>6. ASSUME gates[g].isPO
      PROVE  \A r \in Originals : \A k \in DOMAIN file.ins[r] : file.ins[r][k] # g
  <2>1. Len(gates[g].fanouts) = 0
    BY <1>2, <1>6
  <2>2. Len(gates[g].fanouts) # 1
    BY <2>1
  <2> QED BY <1>5, <2>2
<1>7. ASSUME NEW c \in Wires(file, g)
      PROVE  IF gates[g].isPO THEN c = <<0, g>>
             ELSE \E r \in Originals : \E k \in DOMAIN file.ins[r] :
                    c = <<r, k>> /\ file.ins[r][k] = g
  BY <1>3, <1>4, <1>6
<1> QED BY <1>5, <1>6, <1>7

\* What a gate that is no stem drives: one connection.
LEMMA SingleWires ==
  ASSUME Split, OneRead, NEW g \in Originals, ~gates[g].is_stem
  PROVE  /\ gates[g].isPO => Wires(file, g) = {<<0, g>>}
         /\ ~gates[g].isPO =>
              \E r \in Originals : /\ r = gates[g].fanouts[1] /\ r > g
                                   /\ \E k \in DOMAIN file.ins[r] : Wires(file, g) = {<<r, k>>}
<1>1. /\ file \in Netlists /\ LegalNetlist(file, Size) /\ Originals = 1 .. Size
      /\ g \in DOMAIN file.ins
  BY SplitFacts, NetlistsAreLegal
<1>2. Wires(file, g) # {}
  BY <1>1, TypedNetlists
<1>3. \A r \in Originals : \A k \in DOMAIN file.ins[r] :
        file.ins[r][k] = g => r = gates[g].fanouts[1]
  BY OneFanout
<1>4. ASSUME gates[g].isPO PROVE Wires(file, g) = {<<0, g>>}
  <2>1. \A c \in Wires(file, g) : c = <<0, g>>
    BY <1>4, OneFanout
  <2> QED BY <1>2, <2>1
<1>5. ASSUME ~gates[g].isPO
      PROVE  \E r \in Originals : /\ r = gates[g].fanouts[1] /\ r > g
                                  /\ \E k \in DOMAIN file.ins[r] : Wires(file, g) = {<<r, k>>}
  <2>1. PICK c : c \in Wires(file, g)
    BY <1>2
  <2>2. PICK r \in Originals : \E k \in DOMAIN file.ins[r] : c = <<r, k>> /\ file.ins[r][k] = g
    BY <1>5, <2>1, OneFanout
  <2>3. PICK k \in DOMAIN file.ins[r] : c = <<r, k>> /\ file.ins[r][k] = g
    BY <2>2
  <2>4. r = gates[g].fanouts[1]
    BY <1>3, <2>3
  <2>5. r > g
    <3>1. file.ins[r][k] < r
      BY <1>1 DEF LegalNetlist
    <3> QED BY <1>1, <2>3, <3>1
  <2>6. ASSUME NEW d \in Wires(file, g) PROVE d = c
    <3>1. PICK h \in Originals : \E m \in DOMAIN file.ins[h] : d = <<h, m>> /\ file.ins[h][m] = g
      BY <1>5, OneFanout
    <3>2. PICK m \in DOMAIN file.ins[h] : d = <<h, m>> /\ file.ins[h][m] = g
      BY <3>1
    <3>3. h = r
      BY <1>3, <2>4, <3>2
    <3>4. m = k
      BY <2>3, <3>2, <3>3 DEF OneRead
    <3> QED BY <2>3, <3>2, <3>3, <3>4
  <2>7. Wires(file, g) = {<<r, k>>}
    BY <2>1, <2>3, <2>6
  <2> QED BY <2>4, <2>5, <2>7
<1> QED BY <1>4, <1>5

\* A gate that has one reader: what it is a fault in front of.
LEMMA FrontTypes ==
  ASSUME Split, NEW g \in DOMAIN gates, ~gates[g].is_stem, ~gates[g].isPO
  PROVE  /\ gates[g].fanouts[1] \in Originals /\ Len(gates[g].fanouts) = 1
         /\ file.ins[gates[g].fanouts[1]] # <<>>
         /\ TypeOf(gates[g].fanouts[1]) \in GateTypes
<1>1. LegalNetlist(file, Size) /\ Originals = 1 .. Size /\ file \in Netlists
      /\ DOMAIN file.ins = Originals
  BY SplitFacts, NetlistsAreLegal
<1>2. PICK r : r = gates[g].fanouts[1]
  OBVIOUS
<1>3. r \in Originals /\ Len(gates[g].fanouts) = 1 /\ \E k \in DOMAIN file.ins[r] : TRUE
  <2>1. CASE g > Size
    <3>1. Stands(g, gates[g].fanins[1])
      BY <2>1, LinesStand
    <3>2. r \in Originals /\ Len(gates[g].fanouts) = 1 /\ gates[g].fanins[1] \in Range(file.ins[r])
      BY <1>2, <3>1 DEF Stands
    <3> QED BY <3>2 DEF Range
  <2>2. CASE ~(g > Size)
    <3>1. g \in Originals
      BY <2>2, SplitFacts
    <3>2. PICK c : c \in Wires(file, g)
      BY <1>1, <3>1, TypedNetlists
    <3>3. PICK h \in Originals : \E k \in DOMAIN file.ins[h] : c = <<h, k>> /\ file.ins[h][k] = g
      BY <3>1, <3>2, OneFanout
    <3>4. h = r /\ Len(gates[g].fanouts) = 1
      BY <1>2, <3>1, <3>3, OneFanout
    <3> QED BY <3>3, <3>4
  <2> QED BY <2>1, <2>2
<1>4. file.ins[r] # <<>>
  BY <1>3
<1>5. file.types[r] \in GateTypes
  BY <1>1, <1>3, <1>4 DEF LegalNetlist
<1>6. TypeOf(r) = file.types[r]
  BY <1>3, SplitFacts DEF TypeOf
<1> QED BY <1>2, <1>3, <1>4, <1>5, <1>6

------------------------------------------------------------------------------
\* The values a gate's faults are stuck at.
Polarities(g) ==
  IF gates[g].is_stem \/ gates[g].isPO THEN <<0, 1>>
  ELSE StuckInFront(TypeOf(gates[g].fanouts[1]))

\* The key of a fault on a line that leads to a gate.
PlainKey(name, v) == Key(name, v, FALSE, FALSE)

LEMMA GateFaultsAre ==
  ASSUME NEW g
  PROVE  /\ DOMAIN GateFaults(g) = DOMAIN Polarities(g)
         /\ \A k \in DOMAIN Polarities(g) :
              /\ GateFaults(g)[k].gate = g
              /\ GateFaults(g)[k].key.name = gates[g].name
              /\ GateFaults(g)[k].key.stuck_at = Polarities(g)[k]
              /\ IsLine(g) /\ ~gates[g].is_stem /\ ~gates[g].isPO =>
                   GateFaults(g)[k].key = PlainKey(gates[g].name, Polarities(g)[k])
<1> DEFINE flags == CASE gates[g].is_stem -> <<TRUE, FALSE>>
                      [] ~gates[g].is_stem /\ gates[g].isPO -> <<~IsLine(g), IsLine(g)>>
                      [] OTHER -> <<gates[g].type = "GATE", FALSE>>
<1> DEFINE F == [k \in DOMAIN Polarities(g) |->
                   [gate |-> g, key |-> Key(gates[g].name, Polarities(g)[k], flags[1], flags[2])]]
<1>1. GateFaults(g) = F
  BY DEF GateFaults, Polarities
<1>2. ASSUME IsLine(g), ~gates[g].is_stem, ~gates[g].isPO
      PROVE  flags[1] = FALSE /\ flags[2] = FALSE
  <2>1. flags = <<gates[g].type = "GATE", FALSE>>
    BY <1>2
  <2>2. (gates[g].type = "GATE") = FALSE
    BY <1>2 DEF IsLine
  <2> QED BY <2>1, <2>2
<1> HIDE DEF flags
<1>3. /\ DOMAIN F = DOMAIN Polarities(g)
      /\ \A k \in DOMAIN Polarities(g) :
           /\ F[k].gate = g
           /\ F[k].key = Key(gates[g].name, Polarities(g)[k], flags[1], flags[2])
  OBVIOUS
<1> HIDE DEF F
<1>4. ASSUME NEW k \in DOMAIN Polarities(g)
      PROVE  F[k].key.name = gates[g].name /\ F[k].key.stuck_at = Polarities(g)[k]
  <2>1. PICK a, v, s, o : a = gates[g].name /\ v = Polarities(g)[k] /\ s = flags[1] /\ o = flags[2]
    OBVIOUS
  <2>2. PICK key : key = F[k].key
    OBVIOUS
  <2>3. key = [name |-> a, stuck_at |-> v, is_stem |-> s, is_PO |-> o]
    BY <1>3, <2>1, <2>2 DEF Key
  <2> QED BY <2>1, <2>2, <2>3
<1>5. ASSUME IsLine(g), ~gates[g].is_stem, ~gates[g].isPO, NEW k \in DOMAIN Polarities(g)
      PROVE  F[k].key = PlainKey(gates[g].name, Polarities(g)[k])
  BY <1>2, <1>3, <1>5 DEF PlainKey
<1> QED BY <1>1, <1>3, <1>4, <1>5

\* ls_main has listed the faults of every gate, no two under one key.
AllListed ==
  /\ \A g \in DOMAIN gates : \A k \in DOMAIN GateFaults(g) : GateFaults(g)[k] \in Range(t_faults)
  /\ IsInjective([k \in DOMAIN t_faults |-> t_faults[k].key])

\* A value in front of a gate is listed, or it decides the value of the gate.
LEMMA ListedOrForces ==
  ASSUME NEW type \in GateTypes, NEW x \in {0, 1}
  PROVE  \/ \E k \in DOMAIN StuckInFront(type) : StuckInFront(type)[k] = x
         \/ \E y \in {0, 1} : Forces(type, x, y)
<1>1. CASE type \in {"BUF", "NOT"}
  BY <1>1 DEF Forces
<1>2. CASE type \in {"XOR", "XNOR"}
  <2>1. StuckInFront(type) = <<0, 1>>
    BY <1>2 DEF StuckInFront
  <2> QED BY <2>1
<1>3. CASE type \in {"AND", "NAND"}
  <2>1. StuckInFront(type) = <<1>>
    BY <1>3 DEF StuckInFront
  <2> QED BY <1>3, <2>1 DEF Forces
<1>4. CASE type \in {"OR", "NOR"}
  <2>1. StuckInFront(type) = <<0>>
    BY <1>4 DEF StuckInFront
  <2> QED BY <1>4, <2>1 DEF Forces
<1> QED BY <1>1, <1>2, <1>3, <1>4 DEF GateTypes

\* A gate that reads another one twice would have two lines of one name.
LEMMA ListedReadOnce ==
  ASSUME Split, AllListed
  PROVE  OneRead
<1> SUFFICES ASSUME NEW r \in Originals, NEW k \in DOMAIN file.ins[r],
                    NEW m \in DOMAIN file.ins[r], file.ins[r][k] = file.ins[r][m], k # m
             PROVE  FALSE
  BY DEF OneRead
<1>1. LegalNetlist(file, Size) /\ Originals = 1 .. Size
  BY SplitFacts, NetlistsAreLegal
<1>2. PICK p \in Seq(1 .. Size) : p = file.ins[r]
  BY <1>1 DEF LegalNetlist
<1>3. PICK g \in Originals : g = file.ins[r][k]
  <2>1. p[k] \in 1 .. Size
    BY <1>2, SeqElements
  <2> QED BY <1>1, <1>2, <2>1
<1>4. PICK l \in DOMAIN gates : \E o \in DOMAIN gates : l # o /\ LineTo(l, g, r) /\ LineTo(o, g, r)
  BY <1>3, ReadTwice
<1>5. PICK o \in DOMAIN gates : l # o /\ LineTo(l, g, r) /\ LineTo(o, g, r)
  BY <1>4
<1>6. Len(p) >= 2 /\ p # <<>>
  BY <1>2
<1>7. PICK type \in GateTypes : type = file.types[r] /\ ArityOk(type, Len(p))
  BY <1>1, <1>2, <1>6 DEF LegalNetlist
<1>8. type \notin {"NOT", "BUF"}
  <2>1. PICK n : n = Len(p)
    OBVIOUS
  <2>2. ArityOk(type, n) /\ n # 1
    BY <1>6, <1>7, <2>1
  <2> QED BY <2>2, ArityTells
<1>9. type \in {"XOR", "XNOR"} \/ type \in {"AND", "NAND"} \/ type \in {"OR", "NOR"}
  BY <1>8 DEF GateTypes
<1>10. 1 \in DOMAIN StuckInFront(type)
  <2>1. StuckInFront(type) \in {<<0, 1>>, <<1>>, <<0>>}
    BY <1>9 DEF StuckInFront
  <2>2. 1 \in DOMAIN <<0, 1>> /\ 1 \in DOMAIN <<1>> /\ 1 \in DOMAIN <<0>>
    OBVIOUS
  <2> QED BY <2>1, <2>2
<1>11. TypeOf(r) = type
  BY <1>7, SplitFacts DEF TypeOf
<1>12. ASSUME NEW h \in DOMAIN gates, LineTo(h, g, r)
       PROVE  /\ GateFaults(h)[1] \in Range(t_faults) /\ GateFaults(h)[1].gate = h
              /\ GateFaults(h)[1].key = PlainKey(<<g, r>>, StuckInFront(type)[1])
  <2>1. /\ h > Size /\ ~gates[h].isPO /\ gates[h].fanouts[1] = r /\ gates[h].name = <<g, r>>
        /\ IsLine(h) /\ LineBetween(gates[h], Size)
    BY <1>12, SplitFacts DEF LineTo, Stands
  <2>2. ~gates[h].is_stem
    BY <2>1 DEF LineBetween
  <2>3. Polarities(h) = StuckInFront(type)
    BY <1>11, <2>1, <2>2 DEF Polarities
  <2>4. 1 \in DOMAIN Polarities(h) /\ 1 \in DOMAIN GateFaults(h)
    BY <1>10, <2>3, GateFaultsAre
  <2>5. GateFaults(h)[1].gate = h
    BY <2>4, GateFaultsAre
  <2>6. GateFaults(h)[1].key = PlainKey(gates[h].name, Polarities(h)[1])
    BY <2>1, <2>2, <2>4, GateFaultsAre
  <2> QED BY <2>1, <2>3, <2>4, <2>5, <2>6 DEF AllListed
<1>13. PICK a \in DOMAIN t_faults : t_faults[a] = GateFaults(l)[1]
  BY <1>5, <1>12 DEF Range
<1>14. PICK b \in DOMAIN t_faults : t_faults[b] = GateFaults(o)[1]
  BY <1>5, <1>12 DEF Range
<1>15. a # b /\ t_faults[a].key = t_faults[b].key
  BY <1>5, <1>12, <1>13, <1>14
<1>16. PICK keys : keys = [c \in DOMAIN t_faults |-> t_faults[c].key]
  OBVIOUS
<1>17. IsInjective(keys) /\ DOMAIN keys = DOMAIN t_faults /\ keys[a] = keys[b]
  BY <1>15, <1>16 DEF AllListed
<1> QED BY <1>15, <1>17 DEF IsInjective

\* A fault has the tests of a listed one.
Known(site, x) ==
  \E f \in Range(t_faults) :
    DetectedBy(file, site, x) = DetectedBy(file, SiteOf(f.gate), f.key.stuck_at)

LEMMA ListedIsKnown ==
  ASSUME AllListed, NEW g \in DOMAIN gates, NEW k \in DOMAIN Polarities(g)
  PROVE  Known(SiteOf(g), Polarities(g)[k])
<1>1. PICK f : f = GateFaults(g)[k]
  OBVIOUS
<1>2. f \in Range(t_faults) /\ f.gate = g /\ f.key.stuck_at = Polarities(g)[k]
  BY <1>1, GateFaultsAre DEF AllListed
<1> QED BY <1>2 DEF Known

LEMMA BothListed ==
  ASSUME AllListed, NEW g \in DOMAIN gates, gates[g].is_stem \/ gates[g].isPO, NEW x \in {0, 1}
  PROVE  Known(SiteOf(g), x)
<1>1. Polarities(g) = <<0, 1>>
  BY DEF Polarities
<1>2. \E k \in DOMAIN Polarities(g) : Polarities(g)[k] = x
  BY <1>1
<1> QED BY <1>2, ListedIsKnown

\* In front of a gate a fault is known if those behind the gate are.
LEMMA FrontKnown ==
  ASSUME Split, AllListed, NEW l \in DOMAIN gates, ~gates[l].is_stem, ~gates[l].isPO,
         NEW r \in Originals, r = gates[l].fanouts[1], NEW k \in DOMAIN file.ins[r],
         SiteOf(l) = {<<r, k>>}, \A y \in {0, 1} : Known(Wires(file, r), y), NEW x \in {0, 1}
  PROVE  Known({<<r, k>>}, x)
<1>1. LegalNetlist(file, Size) /\ r \in 1 .. Size
  BY SplitFacts, NetlistsAreLegal
<1>2. file.ins[r] # <<>>
  OBVIOUS
<1>3. PICK type \in GateTypes : type = file.types[r]
  BY <1>1, <1>2 DEF LegalNetlist
<1>4. Polarities(l) = StuckInFront(type)
  <2>1. TypeOf(r) = type
    BY <1>3, SplitFacts DEF TypeOf
  <2> QED BY <2>1 DEF Polarities
<1>5. CASE \E m \in DOMAIN StuckInFront(type) : StuckInFront(type)[m] = x
  <2>1. PICK m \in DOMAIN StuckInFront(type) : StuckInFront(type)[m] = x
    BY <1>5
  <2>2. Known(SiteOf(l), Polarities(l)[m])
    BY <1>4, <2>1, ListedIsKnown
  <2> QED BY <1>4, <2>1, <2>2
<1>6. CASE \E y \in {0, 1} : Forces(type, x, y)
  <2>1. PICK y \in {0, 1} : Forces(type, x, y)
    BY <1>6
  <2>2. DetectedBy(file, {<<r, k>>}, x) = DetectedBy(file, Wires(file, r), y)
    BY <1>1, <1>3, <2>1, TestsMove
  <2>3. Known(Wires(file, r), y)
    OBVIOUS
  <2> QED BY <2>2, <2>3 DEF Known
<1> QED BY <1>5, <1>6, ListedOrForces

\* Behind every gate both faults are known: from the outputs upwards.
WiresKnown(r) == \A y \in {0, 1} : Known(Wires(file, r), y)

LEMMA WiresAreKnown ==
  ASSUME Split, AllListed
  PROVE  \A r \in Originals : WiresKnown(r)
<1>1. Originals = 1 .. Size /\ Size \in Nat /\ OneRead
  BY SplitFacts, ListedReadOnce
<1> DEFINE B == {m \in Nat : \A r \in Originals : r > Size - m => WiresKnown(r)}
<1>2. 0 \in B
  BY <1>1
<1>3. ASSUME NEW m \in B PROVE m + 1 \in B
  <2>1. m \in Nat /\ m + 1 \in Nat
    OBVIOUS
  <2> SUFFICES ASSUME NEW r \in Originals, r > Size - (m + 1) PROVE WiresKnown(r)
    BY <2>1
  <2>2. r \in DOMAIN gates /\ r \in Nat
    BY <1>1, SplitFacts
  <2>3. \A h \in Originals : h > r => WiresKnown(h)
    BY <1>1, <2>1, <2>2
  <2>4. CASE gates[r].is_stem \/ gates[r].isPO
    <3>1. \A y \in {0, 1} : Known(SiteOf(r), y)
      BY <2>2, <2>4, BothListed
    <3>2. SiteOf(r) = Wires(file, r)
      BY SitesOfGates
    <3> QED BY <3>1, <3>2 DEF WiresKnown
  <2>5. CASE ~gates[r].is_stem /\ ~gates[r].isPO
    <3>1. PICK h \in Originals : /\ h = gates[r].fanouts[1] /\ h > r
                                 /\ \E k \in DOMAIN file.ins[h] : Wires(file, r) = {<<h, k>>}
      BY <1>1, <2>5, SingleWires
    <3>2. PICK k \in DOMAIN file.ins[h] : Wires(file, r) = {<<h, k>>}
      BY <3>1
    <3>3. SiteOf(r) = {<<h, k>>}
      BY <3>2, SitesOfGates
    <3>4. \A y \in {0, 1} : Known(Wires(file, h), y)
      BY <2>3, <3>1 DEF WiresKnown
    <3>5. \A y \in {0, 1} : Known({<<h, k>>}, y)
      BY <2>2, <2>5, <3>1, <3>3, <3>4, FrontKnown
    <3> QED BY <3>2, <3>5 DEF WiresKnown
  <2> QED BY <2>4, <2>5
<1>4. B = Nat
  <2>1. B \in SUBSET Nat
    OBVIOUS
  <2> HIDE DEF B
  <2> QED BY <1>2, <1>3, <2>1, InductionOverNat
<1>5. Size \in B
  BY <1>1, <1>4
<1> QED BY <1>1, <1>5

\* So are those in front of a gate, and on an output.
LEMMA PinsKnown ==
  ASSUME Split, AllListed, NEW g \in Originals, NEW r \in Originals,
         NEW k \in DOMAIN file.ins[r], file.ins[r][k] = g, NEW x \in {0, 1}
  PROVE  Known({<<r, k>>}, x)
<1>1. OneRead /\ g \in DOMAIN gates /\ WiresKnown(r) /\ WiresKnown(g)
  BY ListedReadOnce, WiresAreKnown, SplitFacts
<1>2. CASE gates[g].is_stem
  <2>1. g \in Range(file.ins[r])
    BY DEF Range
  <2>2. PICK l \in DOMAIN gates : /\ l > Size /\ ~gates[l].isPO
                                  /\ Stands(l, g) /\ gates[l].fanouts[1] = r
    BY <1>2, <2>1, PinBranches DEF PinBranch
  <2>3. SiteOf(l) = {<<r, k>>}
    BY <1>1, <2>2, SitesOfBranches DEF LineTo
  <2>4. ~gates[l].is_stem
    BY <2>2, SplitFacts DEF LineBetween
  <2> QED BY <1>1, <2>2, <2>3, <2>4, FrontKnown DEF WiresKnown
<1>3. CASE ~gates[g].is_stem
  <2>1. LegalNetlist(file, Size) /\ Originals = 1 .. Size
    BY SplitFacts, NetlistsAreLegal
  <2>2. <<r, k>> \in Wires(file, g)
    <3>1. PICK n : n = file
      OBVIOUS
    <3>2. LegalNetlist(n, Size) /\ r \in 1 .. Size /\ k \in DOMAIN n.ins[r] /\ g \in 1 .. Size
      BY <2>1, <3>1
    <3>3. <<r, k>> \in Wires(n, g) <=> n.ins[r][k] = g
      BY <3>2, WiresAre
    <3> QED BY <3>1, <3>3
  <2>3. Wires(file, g) = {<<r, k>>}
    <3>1. \E c : Wires(file, g) = {c}
      BY <1>1, <1>3, SingleWires
    <3> QED BY <2>2, <3>1
  <2> QED BY <1>1, <2>3 DEF WiresKnown
<1> QED BY <1>2, <1>3

LEMMA OutputsKnown ==
  ASSUME Split, AllListed, NEW g \in Originals, g \in Range(file.outs), NEW x \in {0, 1}
  PROVE  Known({<<0, g>>}, x)
<1>1. OneRead /\ g \in DOMAIN gates /\ OutputBranch(g) /\ WiresKnown(g)
  BY ListedReadOnce, OutputBranches, SplitFacts, WiresAreKnown
<1>2. CASE gates[g].is_stem
  <2>1. PICK l \in DOMAIN gates : l > Size /\ gates[l].isPO /\ Stands(l, g)
    BY <1>1, <1>2 DEF OutputBranch
  <2>2. SiteOf(l) = {<<0, g>>}
    BY <2>1, SitesOfOutputs
  <2> QED BY <2>1, <2>2, BothListed
<1>3. CASE ~gates[g].is_stem
  <2>1. Wires(file, g) = {<<0, g>>}
    BY <1>1, <1>3, SingleWires DEF OutputBranch
  <2> QED BY <1>1, <2>1 DEF WiresKnown
<1> QED BY <1>2, <1>3

\* And those of all lines.
LEMMA LinesKnown ==
  ASSUME Split, AllListed, NEW l \in DOMAIN gates, l > Size, NEW x \in {0, 1}
  PROVE  Known(SiteOf(l), x)
<1>1. PICK g : g = gates[l].fanins[1]
  OBVIOUS
<1>2. Stands(l, g) /\ g \in Originals
  BY <1>1, LinesStand DEF Stands
<1>3. CASE gates[l].isPO
  BY <1>3, BothListed
<1>4. CASE ~gates[l].isPO
  <2>1. PICK r \in Originals : r = gates[l].fanouts[1] /\ g \in Range(file.ins[r])
    BY <1>2, <1>4 DEF Stands
  <2>2. PICK k \in DOMAIN file.ins[r] : file.ins[r][k] = g
    BY <2>1 DEF Range
  <2>3. SiteOf(l) = {<<r, k>>}
    <3>1. LineTo(l, g, r)
      BY <1>2, <1>4, <2>1 DEF LineTo
    <3> QED BY <1>2, <2>2, <3>1, ListedReadOnce, SitesOfBranches
  <2> QED BY <1>2, <2>2, <2>3, PinsKnown
<1> QED BY <1>3, <1>4

\* Every fault is known.
LEMMA AllKnown ==
  ASSUME Split, AllListed
  PROVE  \A site \in {SiteOf(g) : g \in DOMAIN gates}
                     \cup {{c} : c \in UNION {Wires(file, g) : g \in DOMAIN file.ins}} :
           \A x \in {0, 1} : Known(site, x)
<1>1. /\ LegalNetlist(file, Size) /\ Originals = 1 .. Size /\ Size \in Nat
      /\ DOMAIN file.ins = Originals /\ DOMAIN gates \subseteq Nat
  BY SplitFacts, NetlistsAreLegal
<1>2. ASSUME NEW g \in DOMAIN gates, NEW x \in {0, 1} PROVE Known(SiteOf(g), x)
  <2>1. CASE g > Size
    BY <2>1, LinesKnown
  <2>2. CASE ~(g > Size)
    <3>1. g \in Originals
      BY <2>2, SplitFacts
    <3> QED BY <3>1, SitesOfGates, WiresAreKnown DEF WiresKnown
  <2> QED BY <2>1, <2>2
<1>3. ASSUME NEW g \in DOMAIN file.ins, NEW c \in Wires(file, g), NEW x \in {0, 1}
      PROVE  Known({c}, x)
  <2>1. g \in 1 .. Size
    BY <1>1
  <2>2. \/ \E h \in 1 .. Size : \E k \in DOMAIN file.ins[h] : c = <<h, k>> /\ file.ins[h][k] = g
        \/ g \in Range(file.outs) /\ c = <<0, g>>
    BY <1>1, <2>1, WiresAre
  <2>3. CASE g \in Range(file.outs) /\ c = <<0, g>>
    BY <1>1, <2>3, OutputsKnown
  <2>4. CASE \E h \in 1 .. Size : \E k \in DOMAIN file.ins[h] : c = <<h, k>> /\ file.ins[h][k] = g
    <3>1. PICK h \in 1 .. Size : \E k \in DOMAIN file.ins[h] : c = <<h, k>> /\ file.ins[h][k] = g
      BY <2>4
    <3>2. PICK k \in DOMAIN file.ins[h] : c = <<h, k>> /\ file.ins[h][k] = g
      BY <3>1
    <3> QED BY <1>1, <3>2, PinsKnown
  <2> QED BY <2>2, <2>3, <2>4
<1> QED BY <1>2, <1>3

LEMMA CollapsedRight ==
  ASSUME phase = "search" => Split /\ AllListed
  PROVE  CollapsingIsExact
<1> DEFINE Tests(f) == DetectedBy(file, SiteOf(f.gate), f.key.stuck_at)
           listed == {Tests(f) : f \in Range(t_faults)}
           Sites == {SiteOf(g) : g \in DOMAIN gates}
                    \cup {{c} : c \in UNION {Wires(file, g) : g \in DOMAIN file.ins}}
<1>1. CollapsingIsExact = (phase = "search" /\ asked = <<>> =>
        \A site \in Sites, x \in {0, 1} : DetectedBy(file, site, x) \in listed)
  BY DEF CollapsingIsExact
<1>2. ASSUME phase = "search", NEW site \in Sites, NEW x \in {0, 1}
      PROVE  DetectedBy(file, site, x) \in listed
  <2>1. Known(site, x)
    BY <1>2, AllKnown
  <2>2. PICK f \in Range(t_faults) : DetectedBy(file, site, x) = Tests(f)
    BY <2>1 DEF Known
  <2> QED BY <2>2
<1> HIDE DEF listed, Sites
<1> QED BY <1>1, <1>2

------------------------------------------------------------------------------
\* The inductive invariant: what StemLines keeps, and the gates listed so far.
FaultsOf(g) == {GateFaults(g)[k] : k \in DOMAIN GateFaults(g)}
AllFaults == UNION {FaultsOf(g) : g \in DOMAIN gates}

ListedBelow(n) ==
  \A g \in DOMAIN gates : g < n => \A f \in FaultsOf(g) : f \in Range(t_faults)

Listing ==
  /\ phase \in {"manager", "names", "list", "search"} => pc = "done"
  /\ phase \in {"lines", "manager", "names"} => t_faults = <<>>
  /\ phase \in {"lines", "manager", "names", "list"} => at \in Nat /\ at >= 1 /\ asked = <<>>
  /\ phase = "list" => t_faults \in Seq(AllFaults) /\ ListedBelow(at)
  /\ phase = "search" => AllListed

Lined == IInv /\ InputsKept /\ NamesKept

NInv ==
  /\ Lined /\ phase \in {"lines", "manager", "names", "list", "search", "abort"}
  /\ Listing

LEMMA LinedKept ==
  ASSUME Lined, [Next]_vars
  PROVE  Lined'
BY NextKeepsIInv, TypesKept, NextKeepsNames DEF Lined

LEMMA GateFaultsList ==
  ASSUME Split, NEW g \in DOMAIN gates
  PROVE  GateFaults(g) \in Seq(FaultsOf(g)) /\ Range(GateFaults(g)) = FaultsOf(g)
<1>1. Polarities(g) \in {<<0, 1>>, <<>>, <<1>>, <<0>>}
  <2>1. CASE gates[g].is_stem \/ gates[g].isPO
    BY <2>1 DEF Polarities
  <2>2. CASE ~gates[g].is_stem /\ ~gates[g].isPO
    <3>1. PICK type \in GateTypes : type = TypeOf(gates[g].fanouts[1])
      BY <2>2, FrontTypes
    <3>2. StuckInFront(type) \in {<<0, 1>>, <<>>, <<1>>, <<0>>}
      BY DEF StuckInFront, GateTypes
    <3> QED BY <2>2, <3>1, <3>2 DEF Polarities
  <2> QED BY <2>1, <2>2
<1>2. PICK m \in Nat : DOMAIN Polarities(g) = 1 .. m
  <2>1. DOMAIN <<0, 1>> = 1 .. 2 /\ DOMAIN <<>> = 1 .. 0 /\ DOMAIN <<0>> = 1 .. 1
        /\ DOMAIN <<1>> = 1 .. 1
    OBVIOUS
  <2> QED BY <1>1, <2>1
<1>3. PICK s : s = GateFaults(g)
  OBVIOUS
<1>4. DOMAIN s = 1 .. m /\ \A k \in 1 .. m : s[k] \in FaultsOf(g)
  BY <1>2, <1>3, GateFaultsAre DEF FaultsOf
<1>5. s = [k \in DOMAIN s |-> s[k]]
  BY <1>3 DEF GateFaults
<1>6. s \in Seq(FaultsOf(g))
  BY <1>4, <1>5
<1>7. Range(s) = FaultsOf(g)
  BY <1>3 DEF Range, FaultsOf
<1> QED BY <1>3, <1>6, <1>7

\* The faults of a gate do not change once the lines are there.
LEMMA SameFaults ==
  ASSUME UNCHANGED <<file, gates>>
  PROVE  /\ AllFaults' = AllFaults
         /\ \A g : FaultsOf(g)' = FaultsOf(g)
         /\ UNCHANGED t_faults => AllListed' = AllListed
<1>1. \A g : GateFaults(g)' = GateFaults(g)
  BY DEF GateFaults, IsLine, TypeOf
<1> QED BY <1>1 DEF FaultsOf, AllFaults, AllListed

LEMMA ListGateKeeps ==
  ASSUME NInv, ListGate
  PROVE  NInv'
<1>1. phase = "list" /\ UNCHANGED <<vars, graph, m_faults, fault_map, asked>>
  BY DEF ListGate
<1>2. Split /\ Lined /\ t_faults \in Seq(AllFaults) /\ ListedBelow(at) /\ at \in Nat /\ at >= 1
      /\ asked = <<>> /\ pc = "done"
  BY <1>1 DEF NInv, Listing, Lined, Split
<1>3. Lined'
  BY <1>1, <1>2, LinedKept
<1>4. UNCHANGED <<file, gates, pc>>
  BY <1>1 DEF vars
<1>5. AllFaults' = AllFaults /\ \A g : FaultsOf(g)' = FaultsOf(g)
  BY <1>4, SameFaults
<1>6. DOMAIN gates = 1 .. Len(gates) /\ Len(gates) \in Nat
  BY <1>2, SplitFacts
<1>7. CASE at \in DOMAIN gates
  <2>1. /\ t_faults' = t_faults \o GateFaults(at) /\ at' = at + 1
        /\ phase' \in {"list", "abort"}
    BY <1>1, <1>7 DEF ListGate
  <2>2. PICK s \in Seq(FaultsOf(at)) : s = GateFaults(at) /\ Range(s) = FaultsOf(at)
    BY <1>2, <1>7, GateFaultsList
  <2>3. s \in Seq(AllFaults)
    <3>1. FaultsOf(at) \subseteq AllFaults
      BY <1>7 DEF AllFaults
    <3> QED BY <3>1
  <2>4. t_faults' \in Seq(AllFaults)
    BY <1>2, <2>1, <2>2, <2>3
  <2>5. \A f : f \in Range(t_faults) \/ f \in Range(s) => f \in Range(t_faults \o s)
    <3>1. Range(t_faults \o s) = Range(t_faults) \cup Range(s)
      BY <1>2, <2>3, RangeConcatenation
    <3> QED BY <3>1
  <2>8. PICK n : n = at + 1
    OBVIOUS
  <2>6. ListedBelow(n)'
    <3>1. ASSUME NEW g \in DOMAIN gates, g < at + 1, NEW f \in FaultsOf(g)
          PROVE  f \in Range(t_faults')
      <4>1. g < at \/ g = at
        BY <1>2, <1>6, <3>1
      <4>2. f \in Range(t_faults) \/ f \in Range(s)
        BY <1>2, <2>2, <3>1, <4>1 DEF ListedBelow
      <4> QED BY <2>1, <2>2, <2>5, <4>2
    <3> QED BY <1>4, <1>5, <2>8, <3>1 DEF ListedBelow
  <2>7. ListedBelow(at)'
    BY <1>4, <1>5, <2>1, <2>6, <2>8 DEF ListedBelow
  <2> QED BY <1>1, <1>2, <1>3, <1>4, <1>5, <2>1, <2>4, <2>7 DEF NInv, Listing
<1>8. CASE at \notin DOMAIN gates
  <2>1. /\ UNCHANGED <<at, t_faults>>
        /\ phase' \in {"search", "abort"}
        /\ phase' = "search" => IsInjective([k \in DOMAIN t_faults |-> t_faults[k].key])
    BY <1>1, <1>8 DEF ListGate
  <2>2. \A g \in DOMAIN gates : \A k \in DOMAIN GateFaults(g) : GateFaults(g)[k] \in Range(t_faults)
    <3>1. \A g \in DOMAIN gates : g < at
      BY <1>2, <1>6, <1>8
    <3> QED BY <1>2, <3>1 DEF ListedBelow, FaultsOf
  <2>3. phase' = "search" => AllListed
    BY <2>1, <2>2 DEF AllListed
  <2>4. AllListed' = AllListed
    BY <1>4, <2>1, SameFaults
  <2> QED BY <1>1, <1>2, <1>3, <1>4, <2>1, <2>3, <2>4 DEF NInv, Listing
<1> QED BY <1>7, <1>8

LEMMA NamesInitHasNInv == NamesInit => NInv
BY InitHasIInv, TypesAtFirst, NamesAtFirst DEF NamesInit, NInv, Listing, Lined

LEMMA NamesNextKeepsNInv == NInv /\ [NamesNext]_fvars => NInv'
<1> SUFFICES ASSUME NInv, [NamesNext]_fvars PROVE NInv'
  OBVIOUS
<1>1. ASSUME UNCHANGED vars PROVE Lined' /\ UNCHANGED <<pc, file, gates>>
  <2>1. Lined'
    BY <1>1, LinedKept DEF NInv
  <2> QED BY <1>1, <2>1 DEF vars
<1>2. CASE SplitStems
  <2>1. Lined'
    BY <1>2, LinedKept DEF SplitStems, NInv
  <2> QED BY <1>2, <2>1 DEF SplitStems, NInv, Listing
<1>3. CASE ParseGraph
  BY <1>1, <1>3 DEF ParseGraph, NInv, Listing
<1>4. CASE AddLineFaults
  <2>1. phase = "manager" /\ phase' \in {"manager", "names", "abort"} /\ UNCHANGED t_faults
        /\ UNCHANGED asked /\ UNCHANGED vars /\ at' \in {at + 1, 1}
    BY <1>4 DEF AddLineFaults
  <2> QED BY <1>1, <2>1 DEF NInv, Listing
<1>5. CASE NameFault
  <2>1. /\ phase = "names" /\ phase' \in {"names", "list", "abort"} /\ UNCHANGED t_faults
        /\ UNCHANGED asked /\ UNCHANGED vars /\ at' \in {at + 1, 1}
        /\ phase' = "list" => at' = 1
    BY <1>5 DEF NameFault
  <2>2. t_faults' = <<>> /\ UNCHANGED <<pc, file, gates>> /\ Lined'
    BY <1>1, <2>1 DEF NInv, Listing
  <2>3. phase' = "list" => t_faults' \in Seq(AllFaults)' /\ ListedBelow(at)'
    <3>1. DOMAIN gates \subseteq Nat
      BY GatesTyped DEF NInv, Lined
    <3>2. ListedBelow(1)'
      BY <2>2, <3>1 DEF ListedBelow
    <3> QED BY <2>1, <2>2, <3>2 DEF ListedBelow
  <2> QED BY <2>1, <2>2, <2>3 DEF NInv, Listing
<1>6. CASE ListGate
  BY <1>6, ListGateKeeps
<1>7. CASE Ask
  <2>1. phase = "search" /\ phase' \in {"search", "abort"} /\ UNCHANGED <<t_faults, at>>
        /\ UNCHANGED vars
    BY <1>7 DEF Ask
  <2>2. AllListed' = AllListed
    BY <1>1, <2>1, SameFaults
  <2> QED BY <1>1, <2>1, <2>2 DEF NInv, Listing
<1>8. CASE UNCHANGED fvars
  <2>1. UNCHANGED <<t_faults, at, phase, asked>> /\ UNCHANGED vars
    BY <1>8 DEF fvars
  <2>2. UNCHANGED <<file, gates, pc>> /\ Lined'
    BY <1>1, <2>1
  <2>3. AllListed' = AllListed /\ AllFaults' = AllFaults /\ \A g : FaultsOf(g)' = FaultsOf(g)
    BY <2>1, <2>2, SameFaults
  <2>4. ListedBelow(at)' = ListedBelow(at)
    BY <2>1, <2>2, <2>3 DEF ListedBelow
  <2> QED BY <2>1, <2>2, <2>3, <2>4 DEF NInv, Listing
<1> QED BY <1>2, <1>3, <1>4, <1>5, <1>6, <1>7, <1>8 DEF NamesNext

LEMMA NamesSpecHasNInv == NamesSpec => []NInv
BY NamesInitHasNInv, NamesNextKeepsNInv, PTL DEF NamesSpec

\* ls_main lists the faults of its gates and lines and leaves others out; every single
\* stuck-at fault of a gate or a branch, left out or not, is detected by just the
\* patterns that detect a listed one. A gate that reads a stem twice ends the
\* program before the search (assert in ls.cpp), so the names need no assumption.
THEOREM CollapsingLosesNoFault == NamesSpec => []CollapsingIsExact
<1>1. NInv => CollapsingIsExact
  <2> SUFFICES ASSUME NInv PROVE CollapsingIsExact
    OBVIOUS
  <2>1. phase = "search" => Split /\ AllListed
    BY DEF NInv, Listing, Lined, Split
  <2> QED BY <2>1, CollapsedRight
<1> QED BY <1>1, NamesSpecHasNInv, PTL

------------------------------------------------------------------------------
\* tg-pro reads the same file. Its statements: the outputs, then the gates.
Stated(n, m, s, f) ==
  /\ m = Len(n.outs) /\ m \in Nat /\ s \in Nat /\ f = Statements(n)
  /\ f \in Seq(Statement(Seq(Nat))) /\ Len(f) = m + s
  /\ DOMAIN f = 1 .. m + s
  /\ \A k \in 1 .. m : f[k] = [kind |-> "output", name |-> <<n.outs[k]>>]
  /\ \A g \in 1 .. s :
       f[m + g] = IF n.ins[g] = <<>> THEN [kind |-> "input", name |-> <<g>>]
                  ELSE [kind |-> "gate", name |-> <<g>>, type |-> n.types[g],
                        ins |-> [k \in DOMAIN n.ins[g] |-> <<n.ins[g][k]>>]]

LEMMA StatementsAre ==
  ASSUME NEW n, NEW s, LegalNetlist(n, s)
  PROVE  Stated(n, Len(n.outs), s, Statements(n))
<1>1. PICK m : m = Len(n.outs)
  OBVIOUS
<1>2. s \in Nat /\ m \in Nat /\ DOMAIN n.outs = 1 .. m /\ DOMAIN n.ins = 1 .. s
      /\ \A k \in 1 .. m : n.outs[k] \in 1 .. s
  BY <1>1, SeqElements DEF LegalNetlist
<1> DEFINE Names == Seq(Nat)
           Out(k) == [kind |-> "output", name |-> <<n.outs[k]>>]
           In(g)  == [kind |-> "input", name |-> <<g>>]
           Cell(g) == [kind |-> "gate", name |-> <<g>>, type |-> n.types[g],
                       ins |-> [k \in DOMAIN n.ins[g] |-> <<n.ins[g][k]>>]]
           St(g) == IF n.ins[g] = <<>> THEN In(g) ELSE Cell(g)
<1>3. ASSUME NEW k \in 1 .. m
      PROVE  Out(k) \in Statement(Names)
  <2>1. PICK a : a = <<n.outs[k]>>
    OBVIOUS
  <2>2. a \in Names
    BY <1>2, <1>3, <2>1
  <2> HIDE DEF Names
  <2> QED BY <2>1, <2>2 DEF Statement
<1>4. ASSUME NEW g \in 1 .. s
      PROVE  St(g) \in Statement(Names)
  <2>1. PICK a : a = <<g>>
    OBVIOUS
  <2>2. a \in Names
    BY <1>2, <1>4, <2>1
  <2>3. CASE n.ins[g] = <<>>
    <3>1. In(g) \in Statement(Names)
      <4> HIDE DEF Names
      <4> QED BY <2>1, <2>2 DEF Statement
    <3> HIDE DEF In, Cell, Names
    <3> QED BY <2>3, <3>1
  <2>4. CASE n.ins[g] # <<>>
    <3>1. n.types[g] \in GateTypes /\ n.ins[g] \in Seq(1 .. s)
      BY <2>4 DEF LegalNetlist
    <3>2. PICK p \in Seq(1 .. s) : p = n.ins[g]
      BY <3>1
    <3>3. Len(p) \in Nat /\ DOMAIN p = 1 .. Len(p) /\ \A k \in 1 .. Len(p) : p[k] \in 1 .. s
      BY <3>2, SeqElements
    <3>4. PICK c : c = [k \in 1 .. Len(p) |-> <<p[k]>>]
      OBVIOUS
    <3>5. c \in Seq(Names)
      <4>1. \A k \in 1 .. Len(p) : <<p[k]>> \in Names
        BY <1>2, <3>3
      <4>2. c \in [1 .. Len(p) -> Names]
        <5> HIDE DEF Names
        <5> QED BY <3>4, <4>1
      <4> HIDE DEF Names
      <4> QED BY <3>3, <4>2, SeqDef
    <3>6. PICK t \in GateTypes : t = n.types[g]
      BY <3>1
    <3>7. [kind |-> "gate", name |-> a, type |-> t, ins |-> c] \in Statement(Names)
      <4> HIDE DEF Names
      <4> QED BY <2>2, <3>5, <3>6 DEF Statement
    <3>8. Cell(g) = [kind |-> "gate", name |-> a, type |-> t, ins |-> c]
      BY <2>1, <3>2, <3>3, <3>4, <3>6
    <3> HIDE DEF In, Cell, Names
    <3> QED BY <2>4, <3>7, <3>8
  <2> QED BY <2>3, <2>4
<1> DEFINE A == [k \in 1 .. m |-> Out(k)]
           B == [g \in 1 .. s |-> St(g)]
<1>5. Statements(n) = A \o B
  BY <1>2 DEF Statements
<1> HIDE DEF Out, St
<1>6. PICK T : T = Statement(Names)
  OBVIOUS
<1>7. A \in [1 .. m -> T] /\ B \in [1 .. s -> T]
  BY <1>3, <1>4, <1>6
<1>8. A \in Seq(T) /\ B \in Seq(T) /\ Len(A) = m /\ Len(B) = s
  BY <1>2, <1>7, SeqDef
<1>9. \A k \in 1 .. m : A[k] = Out(k)
  OBVIOUS
<1>10. \A g \in 1 .. s : B[g] = St(g)
  OBVIOUS
<1> HIDE DEF A, B
<1>11. PICK f : f = A \o B
  OBVIOUS
<1>12. f \in Seq(T) /\ Len(f) = m + s
  <2>1. A \o B \in Seq(T)
    BY <1>8
  <2>2. Len(A \o B) = Len(A) + Len(B)
    BY <1>8
  <2> QED BY <1>8, <1>11, <2>1, <2>2
<1>13. DOMAIN f = 1 .. m + s
  BY <1>12, SeqElements
<1>14. \A k \in 1 .. m : f[k] = A[k]
  <2>1. \A k \in 1 .. Len(A) : (A \o B)[k] = A[k]
    BY <1>8
  <2> QED BY <1>8, <1>11, <2>1
<1>15. \A g \in 1 .. s : f[m + g] = B[g]
  <2>1. \A g \in 1 .. Len(B) : (A \o B)[Len(A) + g] = B[g]
    BY <1>8
  <2> QED BY <1>8, <1>11, <2>1
<1>16. \A k \in 1 .. m : f[k] = Out(k)
  BY <1>9, <1>14
<1>17. \A g \in 1 .. s : f[m + g] = St(g)
  BY <1>10, <1>15
<1>18. f \in Seq(Statement(Seq(Nat)))
  BY <1>6, <1>12
<1>19. f = Statements(n)
  BY <1>5, <1>11
<1> QED BY <1>1, <1>2, <1>12, <1>13, <1>16, <1>17, <1>18, <1>19 DEF Stated, Out, St

\* A statement is an output of the file or a gate of it.
LEMMA StatementsTell ==
  ASSUME NEW n, NEW s, LegalNetlist(n, s), NEW m, NEW f, Stated(n, m, s, f)
  PROVE  /\ \A x \in DOMAIN f : x \in 1 .. m \/ \E g \in 1 .. s : x = m + g
         /\ \A k \in 1 .. m : k \in DOMAIN f /\ f[k].kind = "output" /\ f[k].name = <<n.outs[k]>>
         /\ \A g \in 1 .. s :
              /\ m + g \in DOMAIN f /\ f[m + g].name = <<g>>
              /\ n.ins[g] = <<>> => f[m + g].kind = "input"
              /\ n.ins[g] # <<>> => /\ f[m + g].kind = "gate" /\ f[m + g].type = n.types[g]
                                    /\ DOMAIN f[m + g].ins = DOMAIN n.ins[g]
                                    /\ Len(f[m + g].ins) = Len(n.ins[g])
                                    /\ \A k \in DOMAIN n.ins[g] : f[m + g].ins[k] = <<n.ins[g][k]>>
<1>1. m \in Nat /\ s \in Nat /\ DOMAIN f = 1 .. m + s
  BY DEF Stated
<1>2. ASSUME NEW x \in DOMAIN f, x \notin 1 .. m
      PROVE  \E g \in 1 .. s : x = m + g
  <2>1. x - m \in 1 .. s /\ x = m + (x - m)
    BY <1>1, <1>2
  <2> QED BY <2>1
<1>3. ASSUME NEW k \in 1 .. m
      PROVE  k \in DOMAIN f /\ f[k].kind = "output" /\ f[k].name = <<n.outs[k]>>
  <2>1. k \in DOMAIN f
    BY <1>1
  <2>2. f[k] = [kind |-> "output", name |-> <<n.outs[k]>>]
    BY DEF Stated
  <2>3. PICK a : a = <<n.outs[k]>>
    OBVIOUS
  <2>4. f[k] = [kind |-> "output", name |-> a]
    BY <2>2, <2>3
  <2> QED BY <2>1, <2>3, <2>4
<1>4. ASSUME NEW g \in 1 .. s
      PROVE  /\ m + g \in DOMAIN f /\ f[m + g].name = <<g>>
             /\ n.ins[g] = <<>> => f[m + g].kind = "input"
             /\ n.ins[g] # <<>> => /\ f[m + g].kind = "gate" /\ f[m + g].type = n.types[g]
                                   /\ DOMAIN f[m + g].ins = DOMAIN n.ins[g]
                                   /\ Len(f[m + g].ins) = Len(n.ins[g])
                                   /\ \A k \in DOMAIN n.ins[g] : f[m + g].ins[k] = <<n.ins[g][k]>>
  <2>1. m + g \in DOMAIN f
    BY <1>1
  <2>2. PICK st : st = f[m + g]
    OBVIOUS
  <2>3. PICK p : p = n.ins[g]
    OBVIOUS
  <2>4. PICK a : a = <<g>>
    OBVIOUS
  <2>5. PICK t : t = n.types[g]
    OBVIOUS
  <2>6. PICK c : c = [k \in DOMAIN p |-> <<p[k]>>]
    OBVIOUS
  <2>7. st = IF p = <<>> THEN [kind |-> "input", name |-> a]
             ELSE [kind |-> "gate", name |-> a, type |-> t, ins |-> c]
    BY <2>2, <2>3, <2>4, <2>5, <2>6 DEF Stated
  <2>8. DOMAIN c = DOMAIN p /\ \A k \in DOMAIN p : c[k] = <<p[k]>>
    BY <2>6
  <2>9. Len(c) = Len(p)
    <3>1. p \in Seq(1 .. s)
      BY <1>4, <2>3 DEF LegalNetlist
    <3>2. Len(p) \in Nat /\ DOMAIN c = 1 .. Len(p)
      BY <2>8, <3>1, SeqElements
    <3> QED BY <3>2
  <2>10. p = <<>> => st.name = a /\ st.kind = "input"
    BY <2>7
  <2>11. p # <<>> => st.name = a /\ st.kind = "gate" /\ st.type = t /\ st.ins = c
    BY <2>7
  <2>12. st.name = a
    BY <2>10, <2>11
  <2>13. p # <<>> => DOMAIN st.ins = DOMAIN p /\ Len(st.ins) = Len(p)
                     /\ \A k \in DOMAIN p : st.ins[k] = <<p[k]>>
    BY <2>8, <2>9, <2>11
  <2> QED BY <2>1, <2>2, <2>3, <2>4, <2>5, <2>10, <2>11, <2>12, <2>13
<1> QED BY <1>2, <1>3, <1>4

\* tg-pro's conditions on a file: names are driven once, and read.
LEMMA StatementsAreLegal ==
  ASSUME NEW n \in Netlists
  PROVE  LegalFile(Statements(n), Seq(Nat))
<1>1. PICK s : s = Len(n.ins)
  OBVIOUS
<1>2. LegalNetlist(n, s)
  BY <1>1, NetlistsAreLegal
<1>3. PICK m : m = Len(n.outs)
  OBVIOUS
<1>4. PICK f : f = Statements(n)
  OBVIOUS
<1>5. Stated(n, m, s, f)
  BY <1>2, <1>3, <1>4, StatementsAre
<1>6. /\ \A x \in DOMAIN f : x \in 1 .. m \/ \E g \in 1 .. s : x = m + g
      /\ \A k \in 1 .. m : k \in DOMAIN f /\ f[k].kind = "output" /\ f[k].name = <<n.outs[k]>>
      /\ \A g \in 1 .. s :
           /\ m + g \in DOMAIN f /\ f[m + g].name = <<g>>
           /\ n.ins[g] = <<>> => f[m + g].kind = "input"
           /\ n.ins[g] # <<>> => /\ f[m + g].kind = "gate" /\ f[m + g].type = n.types[g]
                                 /\ DOMAIN f[m + g].ins = DOMAIN n.ins[g]
                                 /\ Len(f[m + g].ins) = Len(n.ins[g])
                                 /\ \A k \in DOMAIN n.ins[g] : f[m + g].ins[k] = <<n.ins[g][k]>>
  BY <1>2, <1>5, StatementsTell
<1>7. m \in Nat /\ s \in Nat /\ DOMAIN f = 1 .. m + s /\ Len(f) = m + s /\ f \in Seq(Statement(Seq(Nat)))
  BY <1>5 DEF Stated
<1>8. \A g \in 1 .. s : /\ n.ins[g] \in Seq(1 .. s)
                        /\ \A k \in DOMAIN n.ins[g] : n.ins[g][k] < g
                        /\ n.ins[g] # <<>> =>
                             n.types[g] \in GateTypes /\ ArityOk(n.types[g], Len(n.ins[g]))
  BY <1>2 DEF LegalNetlist
<1>9. \A g \in 1 .. s : \A k \in DOMAIN n.ins[g] : n.ins[g][k] \in 1 .. s
  BY <1>8, SeqElements
<1>10. DOMAIN n.outs = 1 .. m /\ \A k \in 1 .. m : n.outs[k] \in 1 .. s
  BY <1>2, <1>3, SeqElements DEF LegalNetlist
\* which statement drives, and what it reads
<1>11. ASSUME NEW g \in 1 .. s
       PROVE  Drives(f[m + g])
  BY <1>6 DEF Drives
<1>12. ASSUME NEW x \in DOMAIN f, Drives(f[x])
       PROVE  \E g \in 1 .. s : x = m + g
  BY <1>6, <1>12 DEF Drives
<1>13. ASSUME NEW k \in 1 .. m
       PROVE  ReadBy(f[k]) = {<<n.outs[k]>>}
  BY <1>6 DEF ReadBy
<1>14. ASSUME NEW g \in 1 .. s
       PROVE  \A a : a \in ReadBy(f[m + g]) <=> \E k \in DOMAIN n.ins[g] : a = <<n.ins[g][k]>>
  <2>1. PICK st : st = f[m + g]
    OBVIOUS
  <2>2. CASE n.ins[g] = <<>>
    <3>1. DOMAIN n.ins[g] = {}
      BY <2>2
    <3>2. st.kind = "input"
      BY <1>6, <2>1, <2>2
    <3> QED BY <2>1, <3>1, <3>2 DEF ReadBy
  <2>3. CASE n.ins[g] # <<>>
    <3>1. st.kind = "gate" /\ DOMAIN st.ins = DOMAIN n.ins[g]
          /\ \A k \in DOMAIN n.ins[g] : st.ins[k] = <<n.ins[g][k]>>
      BY <1>6, <2>1, <2>3
    <3>2. ReadBy(st) = Range(st.ins)
      BY <3>1 DEF ReadBy
    <3>3. \A a : a \in Range(st.ins) <=> \E k \in DOMAIN st.ins : a = st.ins[k]
      BY DEF Range
    <3>4. \A a : a \in Range(st.ins) <=> \E k \in DOMAIN n.ins[g] : a = st.ins[k]
      BY <3>1, <3>3
    <3>5. \A a : a \in Range(st.ins) <=> \E k \in DOMAIN n.ins[g] : a = <<n.ins[g][k]>>
      <4>1. PICK p : p = n.ins[g]
        OBVIOUS
      <4>2. \A k \in DOMAIN p : st.ins[k] = <<p[k]>>
        BY <3>1, <4>1
      <4>3. \A a : a \in Range(st.ins) <=> \E k \in DOMAIN p : a = st.ins[k]
        BY <3>4, <4>1
      <4> QED BY <4>1, <4>2, <4>3
    <3> QED BY <2>1, <3>2, <3>5
  <2> QED BY <2>2, <2>3
<1>15. WellDriven(f)
  <2>1. ASSUME NEW x \in DOMAIN f, NEW y \in DOMAIN f, Drives(f[x]), Drives(f[y]),
               f[x].name = f[y].name
        PROVE  x = y
    <3>1. PICK g \in 1 .. s : x = m + g
      BY <1>12, <2>1
    <3>2. PICK h \in 1 .. s : y = m + h
      BY <1>12, <2>1
    <3>3. <<g>> = <<h>>
      BY <1>6, <2>1, <3>1, <3>2
    <3>4. g = h
      BY <3>3
    <3> QED BY <3>1, <3>2, <3>4
  <2>2. ASSUME NEW x \in DOMAIN f
        PROVE  /\ f[x].kind = "gate" => ArityOk(f[x].type, Len(f[x].ins))
               /\ f[x].kind = "dff" => Len(f[x].ins) = 1
    <3>1. CASE x \in 1 .. m
      <4>1. f[x].kind = "output"
        BY <1>6, <3>1
      <4> QED BY <4>1
    <3>2. ASSUME NEW g \in 1 .. s, x = m + g
          PROVE  /\ f[x].kind = "gate" => ArityOk(f[x].type, Len(f[x].ins))
                 /\ f[x].kind = "dff" => Len(f[x].ins) = 1
      <4>1. CASE n.ins[g] = <<>>
        <5>1. f[x].kind = "input"
          BY <1>6, <3>2, <4>1
        <5> QED BY <5>1
      <4>2. CASE n.ins[g] # <<>>
        <5>1. f[x].kind = "gate" /\ f[x].type = n.types[g] /\ Len(f[x].ins) = Len(n.ins[g])
          BY <1>6, <3>2, <4>2
        <5>2. ArityOk(n.types[g], Len(n.ins[g]))
          BY <1>8, <4>2
        <5> QED BY <5>1, <5>2
      <4> QED BY <4>1, <4>2
    <3> QED BY <1>6, <3>1, <3>2
  <2> QED BY <2>1, <2>2 DEF WellDriven
<1>16. AcyclicFile(f)
  <2>1. ASSUME NEW x \in DOMAIN f, NEW a \in ReadBy(f[x])
        PROVE  \E y \in DOMAIN f : Drives(f[y]) /\ f[y].name = a
    <3>1. PICK h \in 1 .. s : a = <<h>>
      <4>1. CASE x \in 1 .. m
        BY <1>10, <1>13, <2>1, <4>1
      <4>2. ASSUME NEW g \in 1 .. s, x = m + g
            PROVE  \E h \in 1 .. s : a = <<h>>
        BY <1>9, <1>14, <2>1, <4>2
      <4> QED BY <1>6, <4>1, <4>2
    <3> QED BY <1>6, <1>11, <3>1
  <2> DEFINE rank == [x \in GateNumbers(f) |-> x]
  <2>2. rank \in [GateNumbers(f) -> DOMAIN f]
    BY DEF GateNumbers
  <2>3. ASSUME NEW x \in GateNumbers(f), NEW y \in GateNumbers(f), f[x].name \in ReadBy(f[y])
        PROVE  rank[x] < rank[y]
    <3>1. /\ x \in DOMAIN f /\ f[x].kind = "gate"
          /\ y \in DOMAIN f /\ f[y].kind = "gate"
      BY DEF GateNumbers
    <3>2. Drives(f[x]) /\ Drives(f[y])
      BY <3>1 DEF Drives
    <3>3. PICK g \in 1 .. s : x = m + g
      BY <1>12, <3>1, <3>2
    <3>4. PICK h \in 1 .. s : y = m + h
      BY <1>12, <3>1, <3>2
    <3>5. PICK k \in DOMAIN n.ins[h] : <<g>> = <<n.ins[h][k]>>
      BY <1>6, <1>14, <2>3, <3>3, <3>4
    <3>6. g = n.ins[h][k]
      BY <3>5
    <3>7. g < h
      BY <1>8, <3>6
    <3>8. x < y
      BY <1>7, <3>3, <3>4, <3>7
    <3> QED BY <3>8
  <2>4. \E r \in [GateNumbers(f) -> DOMAIN f] :
          \A x, y \in GateNumbers(f) : f[x].name \in ReadBy(f[y]) => r[x] < r[y]
    <3> HIDE DEF rank
    <3> QED BY <2>2, <2>3
  <2> QED BY <2>1, <2>4 DEF AcyclicFile
<1>17. EveryNameIsRead(f)
  <2>1. ASSUME NEW h \in 1 .. s
        PROVE  \E y \in DOMAIN f : <<h>> \in ReadBy(f[y])
    <3>1. Wires(n, h) # {}
      <4>1. h \in DOMAIN n.ins
        BY <1>2 DEF LegalNetlist
      <4> QED BY <4>1, TypedNetlists
    <3>2. PICK c \in Wires(n, h) : TRUE
      BY <3>1
    <3>3. \/ \E g \in 1 .. s : \E k \in DOMAIN n.ins[g] : c = <<g, k>> /\ n.ins[g][k] = h
          \/ h \in Range(n.outs) /\ c = <<0, h>>
      BY <1>2, <3>2, WiresAre
    <3>4. ASSUME NEW g \in 1 .. s, NEW k \in DOMAIN n.ins[g], n.ins[g][k] = h
          PROVE  \E y \in DOMAIN f : <<h>> \in ReadBy(f[y])
      <4>1. <<h>> \in ReadBy(f[m + g])
        BY <1>14, <3>4
      <4> QED BY <1>6, <4>1
    <3>5. ASSUME h \in Range(n.outs)
          PROVE  \E y \in DOMAIN f : <<h>> \in ReadBy(f[y])
      <4>1. PICK k \in 1 .. m : h = n.outs[k]
        BY <1>10, <3>5 DEF Range
      <4>2. <<h>> \in ReadBy(f[k])
        BY <1>13, <4>1
      <4> QED BY <1>6, <4>2
    <3> QED BY <3>3, <3>4, <3>5
  <2>2. ASSUME NEW x \in DOMAIN f
        PROVE  \E h \in 1 .. s : f[x].name = <<h>>
    BY <1>6, <1>10
  <2>3. ASSUME NEW x \in DOMAIN f
        PROVE  \E y \in DOMAIN f : f[x].name \in ReadBy(f[y])
    <3>1. PICK h \in 1 .. s : f[x].name = <<h>>
      BY <2>2
    <3> QED BY <2>1, <3>1
  <2> QED BY <2>3 DEF EveryNameIsRead
<1> QED BY <1>4, <1>7, <1>15, <1>16, <1>17 DEF LegalFile

------------------------------------------------------------------------------
\* The graph of the file.
GraphRead ==
  /\ file \in Netlists /\ Size = Len(file.ins) /\ Size \in Nat /\ Originals = 1 .. Size
  /\ graph = GraphOf(Statements(file))

\* Gate h of the graph is gate r of the file.
IsGate(h, r) ==
  /\ graph.gates[h].type = file.types[r]
  /\ DOMAIN graph.gates[h].inputs = DOMAIN file.ins[r]
  /\ \A k \in DOMAIN file.ins[r] :
       graph.lines[graph.gates[h].inputs[k]].name = <<file.ins[r][k]>>
  /\ graph.lines[graph.gates[h].output].name = <<r>>

GatesFit ==
  /\ \A h \in DOMAIN graph.gates : \E r \in Originals : file.ins[r] # <<>> /\ IsGate(h, r)
  /\ \A r \in Originals : file.ins[r] # <<>> => \E h \in DOMAIN graph.gates : IsGate(h, r)

PortsFit ==
  /\ \A l \in Range(graph.ins) :
       \E g \in Originals : file.ins[g] = <<>> /\ graph.lines[l].name = <<g>>
  /\ \A g \in Originals : file.ins[g] = <<>> =>
       \E l \in NamedLines(graph) : graph.lines[l].name = <<g>>
  /\ \A l \in Range(graph.outs) : \E o \in Range(file.outs) : graph.lines[l].name = <<o>>
  /\ \A o \in Range(file.outs) : \E l \in Range(graph.outs) : graph.lines[l].name = <<o>>

NamesFit == \A l \in NamedLines(graph) : \E g \in Originals : graph.lines[l].name = <<g>>

LEMMA GraphFacts ==
  ASSUME GraphRead
  PROVE  GraphSound(graph, Seq(Nat)) /\ LinesLead(graph) /\ NamesFit /\ GatesFit /\ PortsFit
<1>1. PICK m : m = Len(file.outs)
  OBVIOUS
<1>2. PICK f : f = Statements(file)
  OBVIOUS
<1>3. LegalNetlist(file, Size)
  BY NetlistsAreLegal DEF GraphRead
<1>4. Stated(file, m, Size, f)
  BY <1>1, <1>2, <1>3, StatementsAre
<1>5. LegalFile(f, Seq(Nat)) /\ graph = GraphOf(f)
  BY <1>2, StatementsAreLegal DEF GraphRead
<1>6. f \in Seq(Statement(Seq(Nat))) /\ WellDriven(f)
  BY <1>5 DEF LegalFile
<1>7. GraphSound(graph, Seq(Nat)) /\ LinesLead(graph)
  BY <1>5, LegalGraph
<1>8. PICK nm : nm = InputNames(f)
  OBVIOUS
<1>9. Built(graph, Seq(Nat), SaidBy(f, Len(f)), GatesBy(f, Len(f)), nm, OutsBy(f, Len(f)))
  BY <1>5, <1>6, <1>8, GraphIsBuilt
<1>10. /\ NamesKnown(graph, SaidBy(f, Len(f))) /\ GatesKnown(graph, GatesBy(f, Len(f)))
       /\ InsKnown(graph, nm) /\ OutsKnown(graph, OutsBy(f, Len(f)))
  BY <1>9 DEF Built
<1>11. /\ \A s : s \in GatesBy(f, Len(f)) <=> \E x \in GateNumbers(f) : s = f[x]
       /\ \A a : a \in SaidBy(f, Len(f)) <=> \E x \in DOMAIN f : a \in Mentioned(f[x])
       /\ \A a : a \in OutsBy(f, Len(f)) <=> \E x \in DOMAIN f : a \in OutPart(f[x])
  BY <1>6, FileStatements
<1>12. /\ \A x \in DOMAIN f : x \in 1 .. m \/ \E g \in 1 .. Size : x = m + g
       /\ \A k \in 1 .. m : /\ k \in DOMAIN f /\ f[k].kind = "output"
                            /\ f[k].name = <<file.outs[k]>>
       /\ \A g \in 1 .. Size :
            /\ m + g \in DOMAIN f /\ f[m + g].name = <<g>>
            /\ file.ins[g] = <<>> => f[m + g].kind = "input"
            /\ file.ins[g] # <<>> =>
                 /\ f[m + g].kind = "gate" /\ f[m + g].type = file.types[g]
                 /\ DOMAIN f[m + g].ins = DOMAIN file.ins[g]
                 /\ Len(f[m + g].ins) = Len(file.ins[g])
                 /\ \A k \in DOMAIN file.ins[g] : f[m + g].ins[k] = <<file.ins[g][k]>>
  BY <1>3, <1>4, StatementsTell
<1>13. Originals = 1 .. Size
  BY DEF GraphRead
<1>14. /\ DOMAIN file.outs = 1 .. m /\ \A k \in 1 .. m : file.outs[k] \in Originals
       /\ \A g \in Originals : \A k \in DOMAIN file.ins[g] : file.ins[g][k] \in Originals
  BY <1>1, <1>3, <1>13, SeqElements DEF LegalNetlist
<1>15. NamesFit
  <2>1. ASSUME NEW x \in DOMAIN f, NEW a \in Mentioned(f[x])
        PROVE  \E g \in Originals : a = <<g>>
    <3>1. CASE x \in 1 .. m
      <4>1. f[x].kind = "output" /\ f[x].name = <<file.outs[x]>>
        BY <1>12, <3>1
      <4>2. a = <<file.outs[x]>>
        BY <2>1, <4>1 DEF Mentioned
      <4> QED BY <1>14, <3>1, <4>2
    <3>2. ASSUME NEW g \in 1 .. Size, x = m + g
          PROVE  \E h \in Originals : a = <<h>>
      <4>1. PICK st : st = f[m + g]
        OBVIOUS
      <4>2. st.name = <<g>>
        BY <1>12, <4>1
      <4>3. CASE file.ins[g] = <<>>
        <5>1. st.kind = "input"
          BY <1>12, <4>1, <4>3
        <5>2. a = <<g>>
          BY <2>1, <3>2, <4>1, <4>2, <5>1 DEF Mentioned
        <5> QED BY <1>13, <5>2
      <4>4. CASE file.ins[g] # <<>>
        <5>1. st.kind = "gate" /\ DOMAIN st.ins = DOMAIN file.ins[g]
              /\ \A k \in DOMAIN file.ins[g] : st.ins[k] = <<file.ins[g][k]>>
          BY <1>12, <4>1, <4>4
        <5>2. a = <<g>> \/ a \in Range(st.ins)
          BY <2>1, <3>2, <4>1, <4>2, <5>1 DEF Mentioned
        <5>3. ASSUME a \in Range(st.ins)
              PROVE  \E h \in Originals : a = <<h>>
          <6>1. PICK k \in DOMAIN file.ins[g] : a = st.ins[k]
            BY <5>1, <5>3 DEF Range
          <6>2. a = <<file.ins[g][k]>>
            BY <5>1, <6>1
          <6> QED BY <1>13, <1>14, <6>2
        <5> QED BY <1>13, <5>2, <5>3
      <4> QED BY <4>3, <4>4
    <3> QED BY <1>12, <3>1, <3>2
  <2>2. \A l \in NamedLines(graph) : graph.lines[l].name \in SaidBy(f, Len(f))
    BY <1>10 DEF NamesKnown
  <2> QED BY <1>11, <2>1, <2>2 DEF NamesFit
<1>16. ASSUME NEW h, NEW r \in Originals, file.ins[r] # <<>>, Realizes(graph, h, f[m + r])
       PROVE  IsGate(h, r)
  <2>1. PICK st : st = f[m + r]
    OBVIOUS
  <2>2. PICK p : p = file.ins[r]
    OBVIOUS
  <2>3. /\ st.name = <<r>> /\ st.type = file.types[r] /\ DOMAIN st.ins = DOMAIN p
        /\ \A k \in DOMAIN p : st.ins[k] = <<p[k]>>
    BY <1>12, <1>13, <1>16, <2>1, <2>2
  <2>4. /\ graph.gates[h].type = st.type /\ DOMAIN graph.gates[h].inputs = DOMAIN st.ins
        /\ \A k \in DOMAIN st.ins : graph.lines[graph.gates[h].inputs[k]].name = st.ins[k]
        /\ graph.lines[graph.gates[h].output].name = st.name
    BY <1>16, <2>1 DEF Realizes
  <2>5. \A k \in DOMAIN p : graph.lines[graph.gates[h].inputs[k]].name = <<p[k]>>
    BY <2>3, <2>4
  <2> QED BY <2>2, <2>3, <2>4, <2>5 DEF IsGate
<1>17. GatesFit
  <2>1. ASSUME NEW h \in DOMAIN graph.gates
        PROVE  \E r \in Originals : file.ins[r] # <<>> /\ IsGate(h, r)
    <3>1. PICK st \in GatesBy(f, Len(f)) : Realizes(graph, h, st)
      BY <1>10 DEF GatesKnown
    <3>2. PICK x \in DOMAIN f : f[x].kind = "gate" /\ st = f[x]
      BY <1>11, <3>1 DEF GateNumbers
    <3>3. x \notin 1 .. m
      BY <1>12, <3>2
    <3>4. PICK r \in 1 .. Size : x = m + r
      BY <1>12, <3>3
    <3>5. file.ins[r] # <<>>
      BY <1>12, <3>2, <3>4
    <3> QED BY <1>13, <1>16, <3>1, <3>2, <3>4, <3>5
  <2>2. ASSUME NEW r \in Originals, file.ins[r] # <<>>
        PROVE  \E h \in DOMAIN graph.gates : IsGate(h, r)
    <3>1. m + r \in GateNumbers(f)
      BY <1>12, <1>13, <2>2 DEF GateNumbers
    <3>2. f[m + r] \in GatesBy(f, Len(f))
      BY <1>11, <3>1
    <3>3. PICK h \in DOMAIN graph.gates : Realizes(graph, h, f[m + r])
      BY <1>10, <3>2 DEF GatesKnown
    <3> QED BY <1>16, <2>2, <3>3
  <2> QED BY <2>1, <2>2 DEF GatesFit
<1>18. PortsFit
  <2>1. \A a : a \in Range(nm) <=> \E x \in DOMAIN f : f[x].kind \in {"input", "dff"} /\ f[x].name = a
    BY <1>6, <1>8, NamesOfInputs
  <2>2. graph \in GraphType(Seq(Nat)) /\ OutsSound(graph)
    BY <1>7 DEF GraphSound
  <2>3. Len(graph.ins) \in Nat /\ DOMAIN graph.ins = 1 .. Len(graph.ins)
    BY <2>2, GraphParts
  <2>4. nm \in Seq(Seq(Nat))
    BY <1>6, <1>8, GraphIsBuilt
  <2>5. DOMAIN nm = DOMAIN graph.ins
    <3>1. DOMAIN nm = 1 .. Len(nm)
      BY <2>4, SeqElements
    <3> QED BY <1>10, <2>3, <3>1 DEF InsKnown
  <2>6. \A k \in DOMAIN nm : graph.ins[k] \in NamedLines(graph) /\ graph.lines[graph.ins[k]].name = nm[k]
    BY <1>10, <2>5 DEF InsKnown
  <2>7. ASSUME NEW x \in DOMAIN f, f[x].kind \in {"input", "dff"}
        PROVE  \E g \in Originals : file.ins[g] = <<>> /\ f[x].name = <<g>>
    <3>1. x \notin 1 .. m
      BY <1>12, <2>7
    <3>2. PICK g \in 1 .. Size : x = m + g
      BY <1>12, <3>1
    <3>3. file.ins[g] = <<>>
      BY <1>12, <2>7, <3>2
    <3> QED BY <1>12, <1>13, <3>2, <3>3
  <2>8. ASSUME NEW l \in Range(graph.ins)
        PROVE  \E g \in Originals : file.ins[g] = <<>> /\ graph.lines[l].name = <<g>>
    <3>1. PICK k \in DOMAIN nm : l = graph.ins[k]
      BY <2>5 DEF Range
    <3>2. graph.lines[l].name \in Range(nm)
      BY <2>6, <3>1 DEF Range
    <3> QED BY <2>1, <2>7, <3>2
  <2>9. ASSUME NEW g \in Originals, file.ins[g] = <<>>
        PROVE  \E l \in NamedLines(graph) : graph.lines[l].name = <<g>>
    <3>1. <<g>> \in Range(nm)
      BY <1>12, <1>13, <2>1, <2>9
    <3>2. PICK k \in DOMAIN nm : <<g>> = nm[k]
      BY <3>1 DEF Range
    <3> QED BY <2>6, <3>2
  <2>10. \A a : a \in {graph.lines[l].name : l \in Range(graph.outs)}
                  <=> \E x \in DOMAIN f : a \in OutPart(f[x])
    BY <1>10, <1>11 DEF OutsKnown
  <2>11. ASSUME NEW l \in Range(graph.outs)
         PROVE  \E o \in Range(file.outs) : graph.lines[l].name = <<o>>
    <3>1. PICK x \in DOMAIN f : graph.lines[l].name \in OutPart(f[x])
      BY <2>10
    <3>2. CASE x \in 1 .. m
      <4>1. f[x].kind = "output" /\ f[x].name = <<file.outs[x]>>
        BY <1>12, <3>2
      <4>2. graph.lines[l].name = <<file.outs[x]>>
        BY <3>1, <4>1 DEF OutPart
      <4>3. file.outs[x] \in Range(file.outs)
        BY <1>14, <3>2 DEF Range
      <4> QED BY <4>2, <4>3
    <3>3. CASE x \notin 1 .. m
      <4>1. PICK g \in 1 .. Size : x = m + g
        BY <1>12, <3>3
      <4>2. f[x].kind \in {"input", "gate"}
        BY <1>12, <4>1
      <4>3. OutPart(f[x]) = {}
        BY <4>2 DEF OutPart
      <4> QED BY <3>1, <4>3
    <3> QED BY <3>2, <3>3
  <2>12. ASSUME NEW o \in Range(file.outs)
         PROVE  \E l \in Range(graph.outs) : graph.lines[l].name = <<o>>
    <3>1. PICK k \in 1 .. m : o = file.outs[k]
      BY <1>14 DEF Range
    <3>2. k \in DOMAIN f /\ f[k].kind = "output" /\ f[k].name = <<o>>
      BY <1>12, <3>1
    <3>3. <<o>> \in OutPart(f[k])
      BY <3>2 DEF OutPart
    <3> QED BY <2>10, <3>2, <3>3
  <2> QED BY <2>8, <2>9, <2>11, <2>12 DEF PortsFit
<1> QED BY <1>7, <1>15, <1>17, <1>18

\* The gate of the file that reads connection c of the graph.
ReaderOf(c) == GateOf(graph.gates[c.gate].output)

FitsPin(c, g) ==
  /\ ReaderOf(c) \in Originals /\ file.ins[ReaderOf(c)] # <<>>
  /\ c.idx \in DOMAIN file.ins[ReaderOf(c)] /\ file.ins[ReaderOf(c)][c.idx] = g
  /\ graph.gates[c.gate].type = file.types[ReaderOf(c)]
  /\ graph.lines[graph.gates[c.gate].output].name = <<ReaderOf(c)>>
  /\ c # NoConnection

\* The line of gate g and its connections.
LineFits(l, g) ==
  LET ds == graph.lines[l].dests IN
  /\ graph.lines[l].name = <<g>>
  /\ graph.lines[l].is_output \in BOOLEAN
  /\ graph.lines[l].is_output <=> g \in Range(file.outs)
  /\ graph.lines[l].source = NoGate <=> file.ins[g] = <<>>
  /\ ds # <<>> \/ graph.lines[l].is_output
  /\ ds \in Seq([gate : Nat, idx : Nat]) /\ IsInjective(ds)
  /\ \A c \in Range(ds) : FitsPin(c, g)
  /\ \A r \in Originals : \A k \in DOMAIN file.ins[r] : file.ins[r][k] = g =>
       \E c \in Range(ds) : ReaderOf(c) = r /\ c.idx = k
  /\ \A c, d \in Range(ds) : ReaderOf(c) = ReaderOf(d) /\ c.idx = d.idx => c = d

GraphFits ==
  /\ \A l \in NamedLines(graph) : GateOf(l) \in Originals /\ LineFits(l, GateOf(l))
  /\ \A l, o \in NamedLines(graph) : GateOf(l) = GateOf(o) => l = o
  /\ \A g \in Originals : \E l \in NamedLines(graph) : GateOf(l) = g

LEMMA GraphFitsFile ==
  ASSUME GraphRead
  PROVE  GraphFits
<1>1. GraphSound(graph, Seq(Nat)) /\ LinesLead(graph) /\ NamesFit /\ GatesFit /\ PortsFit
  BY GraphFacts
<1>2. /\ graph \in GraphType(Seq(Nat)) /\ OneName(graph) /\ GatesSound(graph)
      /\ LinesSound(graph) /\ DestsSound(graph) /\ OutsSound(graph)
  BY <1>1 DEF GraphSound
<1>3. ASSUME NEW l \in NamedLines(graph)
      PROVE  GateOf(l) \in Originals /\ graph.lines[l].name = <<GateOf(l)>>
  <2>1. PICK g \in Originals : graph.lines[l].name = <<g>>
    BY <1>1 DEF NamesFit
  <2>2. GateOf(l) = g
    BY <2>1 DEF GateOf
  <2> QED BY <2>1, <2>2
<1>4. ASSUME NEW l \in NamedLines(graph), NEW o \in NamedLines(graph), GateOf(l) = GateOf(o)
      PROVE  l = o
  BY <1>2, <1>3, <1>4 DEF OneName
<1>5. ASSUME NEW h \in DOMAIN graph.gates
      PROVE  \E r \in Originals :
               /\ file.ins[r] # <<>> /\ IsGate(h, r) /\ GateOf(graph.gates[h].output) = r
  <2>1. PICK r \in Originals : file.ins[r] # <<>> /\ IsGate(h, r)
    BY <1>1 DEF GatesFit
  <2>2. GateOf(graph.gates[h].output) = r
    BY <2>1, SMTT(30) DEF GateOf, IsGate
  <2> QED BY <2>1, <2>2
<1>6. ASSUME NEW g \in Originals
      PROVE  \E l \in NamedLines(graph) : graph.lines[l].name = <<g>>
  <2>1. CASE file.ins[g] = <<>>
    BY <1>1, <2>1 DEF PortsFit
  <2>2. CASE file.ins[g] # <<>>
    <3>1. PICK h \in DOMAIN graph.gates : IsGate(h, g)
      BY <1>1, <2>2 DEF GatesFit
    <3>2. graph.gates[h].output \in NamedLines(graph)
      BY <1>2 DEF GatesSound
    <3> QED BY <3>1, <3>2 DEF IsGate
  <2> QED BY <2>1, <2>2
<1>7. ASSUME NEW g \in Originals
      PROVE  \E l \in NamedLines(graph) : GateOf(l) = g
  <2>1. PICK l \in NamedLines(graph) : graph.lines[l].name = <<g>>
    BY <1>6
  <2>2. GateOf(l) = g
    BY <2>1 DEF GateOf
  <2> QED BY <2>2
<1>8. ASSUME NEW l \in NamedLines(graph), NEW g, g = GateOf(l)
      PROVE  LineFits(l, g)
  <2>1. g \in Originals /\ graph.lines[l].name = <<g>> /\ l \in DOMAIN graph.lines
    BY <1>3, <1>8 DEF NamedLines
  <2>2. graph.lines[l] \in LineType(Seq(Nat))
    BY <1>2, <2>1, GraphParts
  <2>3. PICK ds : ds = graph.lines[l].dests
    OBVIOUS
  <2>4. ds \in Seq([gate : Nat, idx : Nat]) /\ graph.lines[l].is_output \in BOOLEAN
    BY <2>2, <2>3 DEF LineType
  <2>5. IsInjective(ds)
    BY <1>2, <2>1, <2>3 DEF DestsSound
  <2>6. graph.lines[l].is_output <=> g \in Range(file.outs)
    <3>1. graph.lines[l].is_output <=> l \in Range(graph.outs)
      BY <1>2, <2>1 DEF OutsSound
    <3>2. ASSUME l \in Range(graph.outs)
          PROVE  g \in Range(file.outs)
      <4>1. PICK o \in Range(file.outs) : graph.lines[l].name = <<o>>
        BY <1>1, <3>2 DEF PortsFit
      <4>2. o = g
        BY <2>1, <4>1
      <4> QED BY <4>2
    <3>3. ASSUME g \in Range(file.outs)
          PROVE  l \in Range(graph.outs)
      <4>1. PICK o \in Range(graph.outs) : graph.lines[o].name = <<g>>
        BY <1>1, <3>3 DEF PortsFit
      <4>2. o \in NamedLines(graph)
        BY <1>2 DEF OutsSound
      <4>3. o = l
        BY <1>2, <2>1, <4>1, <4>2 DEF OneName
      <4> QED BY <4>3
    <3> QED BY <3>1, <3>2, <3>3
  <2>7. graph.lines[l].source = NoGate <=> file.ins[g] = <<>>
    <3>1. ASSUME graph.lines[l].source = NoGate
          PROVE  file.ins[g] = <<>>
      <4>1. l \in Range(graph.ins)
        BY <1>1, <3>1 DEF LinesLead
      <4>2. PICK h \in Originals : file.ins[h] = <<>> /\ graph.lines[l].name = <<h>>
        BY <1>1, <4>1 DEF PortsFit
      <4>3. h = g
        BY <2>1, <4>2
      <4> QED BY <4>2, <4>3
    <3>2. ASSUME graph.lines[l].source # NoGate
          PROVE  file.ins[g] # <<>>
      <4>1. PICK h \in DOMAIN graph.gates : h = graph.lines[l].source
        BY <1>2, <2>1, <3>2 DEF LinesSound
      <4>2. graph.gates[h].output = l
        BY <1>2, <2>1, <4>1 DEF LinesSound
      <4>3. PICK r \in Originals : file.ins[r] # <<>> /\ GateOf(graph.gates[h].output) = r
        BY <1>5
      <4> QED BY <1>8, <4>2, <4>3
    <3> QED BY <3>1, <3>2
  <2>8. ds # <<>> \/ graph.lines[l].is_output
    BY <1>1, <2>3 DEF LinesLead
  <2>9. \A c \in Range(ds) :
          /\ c.gate \in DOMAIN graph.gates
          /\ c.idx \in DOMAIN graph.gates[c.gate].inputs
          /\ graph.gates[c.gate].inputs[c.idx] = l
    BY <1>2, <2>1, <2>3 DEF DestsSound
  <2>10. ASSUME NEW c \in Range(ds)
         PROVE  FitsPin(c, g)
    <3>1. PICK h \in DOMAIN graph.gates : h = c.gate
      BY <2>9
    <3>2. PICK r \in Originals :
            file.ins[r] # <<>> /\ IsGate(h, r) /\ GateOf(graph.gates[h].output) = r
      BY <1>5
    <3>3. ReaderOf(c) = r
      BY <3>1, <3>2 DEF ReaderOf
    <3>4. c.idx \in DOMAIN file.ins[r]
      BY <2>9, <3>1, <3>2 DEF IsGate
    <3>5. graph.lines[l].name = <<file.ins[r][c.idx]>>
      BY <2>9, <3>1, <3>2, <3>4 DEF IsGate
    <3>6. file.ins[r][c.idx] = g
      BY <2>1, <3>5
    <3>7. c # NoConnection
      <4>1. 0 \notin DOMAIN graph.gates
        <5>1. DOMAIN graph.gates = 1 .. Len(graph.gates) /\ Len(graph.gates) \in Nat
          BY <1>2, GraphParts
        <5> QED BY <5>1
      <4>2. NoConnection.gate = 0
        BY DEF NoConnection, NoGate
      <4> QED BY <3>1, <4>1, <4>2
    <3>8. /\ graph.gates[c.gate].type = file.types[r]
          /\ graph.lines[graph.gates[c.gate].output].name = <<r>>
      BY <3>1, <3>2 DEF IsGate
    <3> QED BY <3>2, <3>3, <3>4, <3>6, <3>7, <3>8 DEF FitsPin
  <2>11. ASSUME NEW r \in Originals, NEW k \in DOMAIN file.ins[r], file.ins[r][k] = g
         PROVE  \E c \in Range(ds) : ReaderOf(c) = r /\ c.idx = k
    <3>1. file.ins[r] # <<>>
      BY <2>11
    <3>2. PICK h \in DOMAIN graph.gates : IsGate(h, r)
      BY <1>1, <3>1 DEF GatesFit
    <3>3. k \in DOMAIN graph.gates[h].inputs
      BY <2>11, <3>2 DEF IsGate
    <3>4. graph.gates[h].inputs[k] \in NamedLines(graph)
      BY <1>2, <3>3 DEF GatesSound
    <3>5. graph.lines[graph.gates[h].inputs[k]].name = <<g>>
      BY <2>11, <3>2 DEF IsGate
    <3>6. graph.gates[h].inputs[k] = l
      BY <1>2, <2>1, <3>4, <3>5 DEF OneName
    <3>7. PICK c : c = [gate |-> h, idx |-> k]
      OBVIOUS
    <3>8. c \in Range(ds)
      BY <1>2, <2>1, <2>3, <3>3, <3>6, <3>7 DEF DestsSound
    <3>9. c.gate = h /\ c.idx = k
      BY <3>7
    <3>10. GateOf(graph.gates[h].output) = r
      BY <3>2, SMTT(30) DEF IsGate, GateOf
    <3> QED BY <3>8, <3>9, <3>10 DEF ReaderOf
  <2>12. ASSUME NEW c \in Range(ds), NEW d \in Range(ds),
                ReaderOf(c) = ReaderOf(d), c.idx = d.idx
         PROVE  c = d
    <3>1. c.gate \in DOMAIN graph.gates /\ d.gate \in DOMAIN graph.gates
      BY <2>9
    <3>2. PICK o : o = graph.gates[c.gate].output
      OBVIOUS
    <3>3. PICK u : u = graph.gates[d.gate].output
      OBVIOUS
    <3>4. o \in NamedLines(graph) /\ u \in NamedLines(graph)
      BY <1>2, <3>1, <3>2, <3>3 DEF GatesSound
    <3>5. o = u
      BY <1>4, <2>12, <3>2, <3>3, <3>4 DEF ReaderOf
    <3>6. o \in DOMAIN graph.lines
      BY <3>4 DEF NamedLines
    <3>7. graph.lines[o].source = c.gate /\ graph.lines[o].source = d.gate
      BY <1>2, <3>1, <3>2, <3>3, <3>5, <3>6 DEF LinesSound
    <3>8. c \in [gate : Nat, idx : Nat] /\ d \in [gate : Nat, idx : Nat]
      <4>1. PICK C : C = [gate : Nat, idx : Nat]
        OBVIOUS
      <4>2. \A x \in DOMAIN ds : ds[x] \in C
        BY <2>4, <4>1, SeqElements
      <4>3. c \in C /\ d \in C
        BY <2>12, <4>2 DEF Range
      <4> QED BY <4>1, <4>3
    <3>9. c.gate = d.gate /\ c.idx = d.idx
      BY <2>12, <3>7
    <3> QED BY <3>8, <3>9
  <2> QED BY <2>1, <2>3, <2>4, <2>5, <2>6, <2>7, <2>8, <2>10, <2>11, <2>12 DEF LineFits
<1> QED BY <1>3, <1>4, <1>7, <1>8 DEF GraphFits

------------------------------------------------------------------------------
\* tg-pro's faults: of a line, of an output as an output, of a branch, and in front
\* of the only gate a line leads to.
StemFault(l, v) == TgFault(l, v, TRUE, NoConnection, FALSE)
OutputFault(l, v) == TgFault(l, v, FALSE, NoConnection, TRUE)
BranchFault(l, v, c) == TgFault(l, v, FALSE, c, FALSE)
FrontFault(l, v) ==
  TgFault(l, v, graph.lines[l].source # NoGate, graph.lines[l].dests[1], FALSE)

\* All those of a connection.
InputFault(l, v, stem, c) == TgFault(l, v, stem, c, FALSE)

TgFaults ==
  [line : Nat, stuck_at : {0, 1}, is_stem : BOOLEAN, connection : [gate : Nat, idx : Nat],
   is_primary_output : BOOLEAN]

LEMMA TgFaultsAre ==
  ASSUME NEW l \in Nat, NEW v \in {0, 1}, NEW stem \in BOOLEAN, NEW c \in [gate : Nat, idx : Nat],
         NEW out \in BOOLEAN
  PROVE  /\ TgFault(l, v, stem, c, out) \in TgFaults
         /\ TgFault(l, v, stem, c, out).line = l /\ TgFault(l, v, stem, c, out).stuck_at = v
         /\ TgFault(l, v, stem, c, out).is_stem = stem
         /\ TgFault(l, v, stem, c, out).connection = c
         /\ TgFault(l, v, stem, c, out).is_primary_output = out
BY DEF TgFault, TgFaults

\* The values a gate of that type lets a fault in front of it be stuck at.
Fronts(type) == {StuckInFront(type)[k] : k \in DOMAIN StuckInFront(type)}

LEMMA FrontsAre ==
  ASSUME NEW type \in GateTypes
  PROVE  /\ type \in {"BUF", "NOT"} => Fronts(type) = {}
         /\ type \in {"XOR", "XNOR"} => Fronts(type) = {0, 1}
         /\ type \in {"AND", "NAND"} => Fronts(type) = {1}
         /\ type \in {"OR", "NOR"} => Fronts(type) = {0}
<1>1. DOMAIN <<>> = {} /\ DOMAIN <<0, 1>> = 1 .. 2 /\ DOMAIN <<0>> = 1 .. 1 /\ DOMAIN <<1>> = 1 .. 1
  OBVIOUS
<1>2. 1 .. 2 = {1, 2} /\ 1 .. 1 = {1}
  OBVIOUS
<1>3. <<0, 1>>[1] = 0 /\ <<0, 1>>[2] = 1 /\ <<0>>[1] = 0 /\ <<1>>[1] = 1
  OBVIOUS
<1>4. PICK s : s = StuckInFront(type)
  OBVIOUS
<1>5. Fronts(type) = {s[k] : k \in DOMAIN s}
  BY <1>4 DEF Fronts
<1>6. CASE type \in {"BUF", "NOT"}
  <2>1. s = <<>>
    BY <1>4, <1>6 DEF StuckInFront
  <2>2. DOMAIN s = {}
    BY <1>1, <2>1
  <2>3. {s[k] : k \in DOMAIN s} = {}
    BY <2>2
  <2> QED BY <1>5, <1>6, <2>3
<1>7. CASE type \in {"XOR", "XNOR"}
  <2>1. s = <<0, 1>>
    BY <1>4, <1>7 DEF StuckInFront
  <2>2. DOMAIN s = {1, 2} /\ s[1] = 0 /\ s[2] = 1
    BY <1>1, <1>2, <1>3, <2>1
  <2>3. {s[k] : k \in DOMAIN s} = {0, 1}
    BY <2>2
  <2> QED BY <1>5, <1>7, <2>3
<1>8. CASE type \in {"AND", "NAND"}
  <2>1. s = <<1>>
    BY <1>4, <1>8 DEF StuckInFront
  <2>2. DOMAIN s = {1} /\ s[1] = 1
    BY <1>1, <1>2, <1>3, <2>1
  <2>3. {s[k] : k \in DOMAIN s} = {1}
    BY <2>2
  <2> QED BY <1>5, <1>8, <2>3
<1>9. CASE type \in {"OR", "NOR"}
  <2>1. s = <<0>>
    BY <1>4, <1>9 DEF StuckInFront
  <2>2. DOMAIN s = {1} /\ s[1] = 0
    BY <1>1, <1>2, <1>3, <2>1
  <2>3. {s[k] : k \in DOMAIN s} = {0}
    BY <2>2
  <2> QED BY <1>5, <1>9, <2>3
<1> QED BY <1>6, <1>7, <1>8, <1>9 DEF GateTypes


FrontsListed(r, l, c, stem, type) ==
  /\ r \in Seq(TgFaults) /\ IsInjective(r)
  /\ \A f : f \in Range(r) <=> \E v \in Fronts(type) : f = InputFault(l, v, stem, c)

\* The faults tg-pro lists in front of a gate are those ls_main lists there.
LEMMA InputFaultsAre ==
  ASSUME NEW gr, NEW l \in Nat, NEW c \in [gate : Nat, idx : Nat], NEW stem \in BOOLEAN,
         NEW type \in GateTypes, type = gr.gates[c.gate].type
  PROVE  FrontsListed(GateInputFaults(gr, l, c, stem), l, c, stem, type)
<1> DEFINE stuck == CASE type \in {"NOT", "BUF"}  -> <<>>
                      [] type \in {"XOR", "XNOR"} -> <<1, 0>>
                      [] type \in {"AND", "NAND"} -> <<1>>
                      [] type \in {"OR", "NOR"}   -> <<0>>
<1>1. GateInputFaults(gr, l, c, stem) = [k \in DOMAIN stuck |-> TgFault(l, stuck[k], stem, c, FALSE)]
  BY DEF GateInputFaults
<1>2. DOMAIN <<>> = 1 .. 0 /\ DOMAIN <<1, 0>> = 1 .. 2 /\ DOMAIN <<0>> = 1 .. 1 /\ DOMAIN <<1>> = 1 .. 1
  OBVIOUS
<1>3. 1 .. 2 = {1, 2} /\ 1 .. 1 = {1} /\ 1 .. 0 = {}
  OBVIOUS
<1>4. <<1, 0>>[1] = 1 /\ <<1, 0>>[2] = 0 /\ <<0>>[1] = 0 /\ <<1>>[1] = 1
  OBVIOUS
<1> DEFINE Good(s, n) == /\ DOMAIN s = 1 .. n /\ \A k \in 1 .. n : s[k] \in Fronts(type)
                         /\ \A v \in Fronts(type) : \E k \in 1 .. n : s[k] = v
                         /\ \A k, m \in 1 .. n : s[k] = s[m] => k = m
<1>5. \E n \in Nat : Good(stuck, n)
  <2>1. CASE type \in {"NOT", "BUF"}
    <3>1. stuck = <<>>
      BY <2>1
    <3>2. Fronts(type) = {}
      BY <2>1, FrontsAre
    <3> HIDE DEF stuck
    <3>3. Good(stuck, 0)
      BY <1>2, <1>3, <3>1, <3>2
    <3> QED BY <3>3
  <2>2. CASE type \in {"XOR", "XNOR"}
    <3>1. stuck = <<1, 0>>
      BY <2>2
    <3>2. Fronts(type) = {0, 1}
      BY <2>2, FrontsAre
    <3> HIDE DEF stuck
    <3>3. Good(stuck, 2)
      BY <1>2, <1>3, <1>4, <3>1, <3>2
    <3> QED BY <3>3
  <2>3. CASE type \in {"AND", "NAND"}
    <3>1. stuck = <<1>>
      BY <2>3
    <3>2. Fronts(type) = {1}
      BY <2>3, FrontsAre
    <3> HIDE DEF stuck
    <3>3. Good(stuck, 1)
      BY <1>2, <1>3, <1>4, <3>1, <3>2
    <3> QED BY <3>3
  <2>4. CASE type \in {"OR", "NOR"}
    <3>1. stuck = <<0>>
      BY <2>4
    <3>2. Fronts(type) = {0}
      BY <2>4, FrontsAre
    <3> HIDE DEF stuck
    <3>3. Good(stuck, 1)
      BY <1>2, <1>3, <1>4, <3>1, <3>2
    <3> QED BY <3>3
  <2> QED BY <2>1, <2>2, <2>3, <2>4 DEF GateTypes
<1> HIDE DEF stuck
<1>6. PICK n \in Nat : Good(stuck, n)
  BY <1>5
<1>7. Fronts(type) \subseteq {0, 1}
  BY FrontsAre DEF GateTypes
<1>8. PICK out \in BOOLEAN : out = FALSE
  OBVIOUS
<1> DEFINE F(v) == TgFault(l, v, stem, c, out)
<1>9. \A v \in Fronts(type) : F(v) \in TgFaults /\ F(v).stuck_at = v
  BY <1>7, TgFaultsAre
<1>10. PICK r : r = GateInputFaults(gr, l, c, stem)
  OBVIOUS
<1>11. r = [k \in 1 .. n |-> F(stuck[k])]
  BY <1>1, <1>6, <1>8, <1>10
<1> HIDE DEF F
<1>12. DOMAIN r = 1 .. n /\ \A k \in 1 .. n : r[k] = F(stuck[k])
  BY <1>11
<1>13. r \in Seq(TgFaults)
  <2>1. r \in [1 .. n -> TgFaults]
    BY <1>6, <1>9, <1>11
  <2> QED BY <2>1, SeqDef
<1>14. IsInjective(r)
  <2>1. ASSUME NEW k \in 1 .. n, NEW m \in 1 .. n, r[k] = r[m]
        PROVE  k = m
    <3>1. stuck[k] = stuck[m]
      BY <1>6, <1>9, <1>12, <2>1
    <3> QED BY <1>6, <3>1
  <2> QED BY <1>12, <2>1 DEF IsInjective
<1>15. \A f : f \in Range(r) <=> \E v \in Fronts(type) : f = F(v)
  <2>1. \A f : f \in Range(r) <=> \E k \in 1 .. n : f = F(stuck[k])
    BY <1>12 DEF Range
  <2> QED BY <1>6, <2>1
<1>16. \A v : F(v) = InputFault(l, v, stem, c)
  BY <1>8 DEF F, InputFault
<1> QED BY <1>10, <1>13, <1>14, <1>15, <1>16 DEF FrontsListed

LEMMA PairIs ==
  ASSUME NEW T, NEW x \in T, NEW y \in T, x # y
  PROVE  /\ <<x, y>> \in Seq(T) /\ IsInjective(<<x, y>>)
         /\ \A f : f \in Range(<<x, y>>) <=> f = x \/ f = y
<1>1. PICK s : s = <<x, y>>
  OBVIOUS
<1>2. s \in Seq(T) /\ DOMAIN s = 1 .. 2 /\ s[1] = x /\ s[2] = y
  BY <1>1
<1>3. 1 .. 2 = {1, 2}
  OBVIOUS
<1>4. IsInjective(s)
  BY <1>2, <1>3 DEF IsInjective
<1>5. \A f : f \in Range(s) <=> f = x \/ f = y
  BY <1>2, <1>3 DEF Range
<1> QED BY <1>1, <1>2, <1>4, <1>5

\* A line of more than one branch, or one that is an output.
LineBranches(l) == HasFanoutBranches(graph.lines[l]) \/ graph.lines[l].is_output

FrontType(c) == graph.gates[c.gate].type

FaultOf(l, f) ==
  \/ LineBranches(l) /\ \E v \in {0, 1} : f = StemFault(l, v)
  \/ /\ graph.lines[l].is_output /\ HasFanoutBranches(graph.lines[l])
     /\ \E v \in {0, 1} : f = OutputFault(l, v)
  \/ /\ LineBranches(l)
     /\ \E c \in Range(graph.lines[l].dests) : \E v \in Fronts(FrontType(c)) : f = BranchFault(l, v, c)
  \/ /\ ~LineBranches(l)
     /\ \E v \in Fronts(FrontType(graph.lines[l].dests[1])) : f = FrontFault(l, v)

LEMMA DestsFit ==
  ASSUME GraphRead, GraphFits, NEW l \in NamedLines(graph), NEW ds, ds = graph.lines[l].dests
  PROVE  /\ l \in Nat /\ graph.lines[l].is_output \in BOOLEAN
         /\ ds \in Seq([gate : Nat, idx : Nat]) /\ IsInjective(ds)
         /\ DOMAIN ds = 1 .. Len(ds) /\ Len(ds) \in Nat
         /\ \A k \in DOMAIN ds : /\ ds[k] \in [gate : Nat, idx : Nat] /\ ds[k] \in Range(ds)
                                 /\ FrontType(ds[k]) \in GateTypes
         /\ ~graph.lines[l].is_output => Len(ds) > 0
<1>1. GateOf(l) \in Originals /\ LineFits(l, GateOf(l))
  BY DEF GraphFits
<1>2. /\ graph.lines[l].is_output \in BOOLEAN
      /\ ds \in Seq([gate : Nat, idx : Nat]) /\ IsInjective(ds)
      /\ ds # <<>> \/ graph.lines[l].is_output
      /\ \A c \in Range(ds) : FitsPin(c, GateOf(l))
  BY <1>1 DEF LineFits
<1>3. PICK C : C = [gate : Nat, idx : Nat]
  OBVIOUS
<1>4. DOMAIN ds = 1 .. Len(ds) /\ Len(ds) \in Nat /\ \A k \in DOMAIN ds : ds[k] \in C
  BY <1>2, <1>3, SeqElements
<1>5. \A k \in DOMAIN ds : ds[k] \in Range(ds)
  BY DEF Range
<1>6. \A c \in Range(ds) : FrontType(c) \in GateTypes
  <2>1. ASSUME NEW c \in Range(ds)
        PROVE  FrontType(c) \in GateTypes
    <3>1. FitsPin(c, GateOf(l))
      BY <1>2
    <3>2. PICK r \in Originals : r = ReaderOf(c)
      BY <3>1 DEF FitsPin
    <3>3. file.ins[r] # <<>> /\ FrontType(c) = file.types[r]
      BY <3>1, <3>2 DEF FitsPin, FrontType
    <3>4. LegalNetlist(file, Size) /\ r \in 1 .. Size
      BY <3>2, NetlistsAreLegal DEF GraphRead
    <3> QED BY <3>3, <3>4 DEF LegalNetlist
  <2> QED BY <2>1
<1>7. l \in Nat
  <2>1. graph \in GraphType(Seq(Nat))
    BY GraphFacts DEF GraphSound
  <2>2. DOMAIN graph.lines = 1 .. Len(graph.lines) /\ Len(graph.lines) \in Nat
    BY <2>1, GraphParts
  <2> QED BY <2>2 DEF NamedLines
<1>8. ds # <<>> => Len(ds) > 0
  BY <1>2, <1>4
<1> QED BY <1>2, <1>3, <1>4, <1>5, <1>6, <1>7, <1>8

\* The faults of a line, each of them once.
LEMMA LineFaultsAre ==
  ASSUME GraphRead, GraphFits, NEW l \in NamedLines(graph)
  PROVE  /\ LineFaults(graph, l) \in Seq(TgFaults) /\ IsInjective(LineFaults(graph, l))
         /\ \A f : f \in Range(LineFaults(graph, l)) <=> FaultOf(l, f)
<1>1. PICK ds : ds = graph.lines[l].dests
  OBVIOUS
<1>2. /\ l \in Nat /\ graph.lines[l].is_output \in BOOLEAN
      /\ ds \in Seq([gate : Nat, idx : Nat]) /\ IsInjective(ds)
      /\ DOMAIN ds = 1 .. Len(ds) /\ Len(ds) \in Nat
      /\ \A k \in DOMAIN ds : /\ ds[k] \in [gate : Nat, idx : Nat] /\ ds[k] \in Range(ds)
                              /\ FrontType(ds[k]) \in GateTypes
      /\ ~graph.lines[l].is_output => Len(ds) > 0
  BY <1>1, DestsFit
<1>3. PICK out \in BOOLEAN : out <=> graph.lines[l].is_output
  OBVIOUS
<1>4. PICK has \in BOOLEAN : has <=> HasFanoutBranches(graph.lines[l])
  OBVIOUS
<1>5. has <=> IF out THEN ds # <<>> ELSE Len(ds) > 1
  BY <1>1, <1>3, <1>4 DEF HasFanoutBranches
<1>6. LineBranches(l) <=> has \/ out
  BY <1>3, <1>4 DEF LineBranches
<1>7. NoConnection \in [gate : Nat, idx : Nat]
  BY DEF NoConnection, NoGate
<1>8. PICK yes \in BOOLEAN, no \in BOOLEAN : yes = TRUE /\ no = FALSE
  OBVIOUS
<1>9. \A v : /\ StemFault(l, v) = TgFault(l, v, yes, NoConnection, no)
             /\ OutputFault(l, v) = TgFault(l, v, no, NoConnection, yes)
  BY <1>8 DEF StemFault, OutputFault
<1>10. \A v \in {0, 1} :
         /\ StemFault(l, v) \in TgFaults /\ OutputFault(l, v) \in TgFaults
         /\ StemFault(l, v).stuck_at = v /\ OutputFault(l, v).stuck_at = v
         /\ StemFault(l, v).is_stem = TRUE
         /\ OutputFault(l, v).is_primary_output = TRUE /\ OutputFault(l, v).is_stem = FALSE
  <2>1. SUFFICES ASSUME NEW v \in {0, 1}
                 PROVE  /\ StemFault(l, v) \in TgFaults /\ OutputFault(l, v) \in TgFaults
                        /\ StemFault(l, v).stuck_at = v /\ OutputFault(l, v).stuck_at = v
                        /\ StemFault(l, v).is_stem = TRUE
                        /\ OutputFault(l, v).is_primary_output = TRUE
                        /\ OutputFault(l, v).is_stem = FALSE
    OBVIOUS
  <2>2. PICK c \in [gate : Nat, idx : Nat] : c = NoConnection
    BY <1>7
  <2>3. /\ TgFault(l, v, yes, c, no) \in TgFaults
        /\ TgFault(l, v, yes, c, no).stuck_at = v
        /\ TgFault(l, v, yes, c, no).is_stem = yes
    BY <1>2, TgFaultsAre, SMTT(30)
  <2>4. /\ TgFault(l, v, no, c, yes) \in TgFaults
        /\ TgFault(l, v, no, c, yes).stuck_at = v
        /\ TgFault(l, v, no, c, yes).is_stem = no
        /\ TgFault(l, v, no, c, yes).is_primary_output = yes
    BY <1>2, TgFaultsAre, SMTT(30)
  <2> QED BY <1>8, <1>9, <2>2, <2>3, <2>4
<1>11. PICK b1, b2 : /\ b1 = <<StemFault(l, 0), StemFault(l, 1)>>
                     /\ b2 = <<OutputFault(l, 0), OutputFault(l, 1)>>
  OBVIOUS
<1>12. /\ b1 \in Seq(TgFaults) /\ IsInjective(b1)
       /\ \A f : f \in Range(b1) <=> \E v \in {0, 1} : f = StemFault(l, v)
  <2>1. PICK x \in TgFaults, y \in TgFaults : x = StemFault(l, 0) /\ y = StemFault(l, 1)
    BY <1>10
  <2>2. x # y
    BY <1>10, <2>1
  <2> QED BY <1>11, <2>1, <2>2, PairIs
<1>13. /\ b2 \in Seq(TgFaults) /\ IsInjective(b2)
       /\ \A f : f \in Range(b2) <=> \E v \in {0, 1} : f = OutputFault(l, v)
  <2>1. PICK x \in TgFaults, y \in TgFaults : x = OutputFault(l, 0) /\ y = OutputFault(l, 1)
    BY <1>10
  <2>2. x # y
    BY <1>10, <2>1
  <2> QED BY <1>11, <2>1, <2>2, PairIs
<1> DEFINE rows == [k \in DOMAIN ds |-> GateInputFaults(graph, l, ds[k], FALSE)]
<1>14. ASSUME NEW k \in DOMAIN ds
       PROVE  /\ rows[k] \in Seq(TgFaults) /\ IsInjective(rows[k])
              /\ \A f : f \in Range(rows[k]) <=>
                          \E v \in Fronts(FrontType(ds[k])) : f = BranchFault(l, v, ds[k])
  <2>1. PICK c \in [gate : Nat, idx : Nat] : c = ds[k]
    BY <1>2
  <2>2. PICK type \in GateTypes : type = graph.gates[c.gate].type
    BY <1>2, <2>1 DEF FrontType
  <2>3. FrontsListed(GateInputFaults(graph, l, c, no), l, c, no, type)
    <3>1. l \in Nat
      BY <1>2
    <3>2. type = graph.gates[c.gate].type
      BY <2>2
    <3> QED BY <3>1, <3>2, InputFaultsAre
  <2>4. \A v : BranchFault(l, v, c) = InputFault(l, v, no, c)
    BY <1>8 DEF BranchFault, InputFault
  <2>5. rows[k] = GateInputFaults(graph, l, c, no)
    BY <1>8, <2>1
  <2>6. FrontType(ds[k]) = type
    BY <2>1, <2>2 DEF FrontType
  <2> HIDE DEF rows
  <2> QED BY <2>1, <2>3, <2>4, <2>5, <2>6 DEF FrontsListed
<1>15. PICK n \in Nat : n = Len(ds)
  BY <1>2
<1>16. DOMAIN rows = 1 .. n /\ rows = [k \in DOMAIN ds |-> GateInputFaults(graph, l, ds[k], FALSE)]
  BY <1>2, <1>15
<1> HIDE DEF rows
<1>17. rows \in [1 .. n -> Seq(TgFaults)]
  BY <1>2, <1>14, <1>15, <1>16
<1>18. \A k \in 1 .. n : \A f : f \in Range(rows[k]) =>
         f.connection = ds[k] /\ f.is_stem = FALSE /\ f.is_primary_output = FALSE
  <2>1. ASSUME NEW k \in 1 .. n, NEW f \in Range(rows[k])
        PROVE  f.connection = ds[k] /\ f.is_stem = FALSE /\ f.is_primary_output = FALSE
    <3>1. PICK v \in Fronts(FrontType(ds[k])) : f = BranchFault(l, v, ds[k])
      BY <1>2, <1>14, <1>15
    <3> QED BY <3>1 DEF BranchFault, TgFault
  <2> QED BY <2>1
<1>19. \A k, m \in 1 .. n : \A x : x \in Range(rows[k]) /\ x \in Range(rows[m]) => k = m
  <2>1. ASSUME NEW k \in 1 .. n, NEW m \in 1 .. n, NEW x, x \in Range(rows[k]), x \in Range(rows[m])
        PROVE  k = m
    <3>1. ds[k] = ds[m]
      BY <1>18, <2>1
    <3> QED BY <1>2, <1>15, <3>1 DEF IsInjective
  <2> QED BY <2>1
<1>20. PICK fl : fl = FlattenSeq(rows)
  OBVIOUS
<1>21. /\ fl \in Seq(TgFaults) /\ IsInjective(fl)
       /\ \A f : f \in Range(fl) <=> \E k \in 1 .. n : f \in Range(rows[k])
  <2>1. \A k \in 1 .. n : IsInjective(rows[k])
    BY <1>2, <1>14, <1>15
  <2>2. IsInjective(FlattenSeq(rows))
    BY <1>17, <1>19, <2>1, FlattenInjective
  <2>3. /\ FlattenSeq(rows) \in Seq(TgFaults)
        /\ \A x : x \in Range(FlattenSeq(rows)) <=> \E k \in 1 .. n : x \in Range(rows[k])
    BY <1>17, FlattenRange
  <2> QED BY <1>20, <2>2, <2>3
<1>22. \A f : f \in Range(fl) <=>
          \E c \in Range(ds) : \E v \in Fronts(FrontType(c)) : f = BranchFault(l, v, c)
  <2>1. \A c : c \in Range(ds) <=> \E k \in 1 .. n : c = ds[k]
    BY <1>2, <1>15 DEF Range
  <2>2. \A f : f \in Range(fl) <=>
          \E k \in 1 .. n : \E v \in Fronts(FrontType(ds[k])) : f = BranchFault(l, v, ds[k])
    <3>1. \A k \in 1 .. n : \A f : f \in Range(rows[k]) <=>
            \E v \in Fronts(FrontType(ds[k])) : f = BranchFault(l, v, ds[k])
      BY <1>2, <1>14, <1>15
    <3> DEFINE In(f, k) == \E v \in Fronts(FrontType(ds[k])) : f = BranchFault(l, v, ds[k])
    <3>2. \A k \in 1 .. n : \A f : f \in Range(rows[k]) <=> In(f, k)
      BY <3>1
    <3>3. \A f : f \in Range(fl) <=> \E k \in 1 .. n : f \in Range(rows[k])
      BY <1>21
    <3>4. \A f : f \in Range(fl) <=> \E k \in 1 .. n : In(f, k)
      <4> HIDE DEF In
      <4> QED BY <3>2, <3>3
    <3> QED BY <3>4
  <2> QED BY <2>1, <2>2
<1>23. PICK mid : mid = IF out /\ has THEN b2 ELSE <<>>
  OBVIOUS
<1>24. PICK last : last = GateInputFaults(graph, l, ds[1], graph.lines[l].source # NoGate)
  OBVIOUS
<1>25. LineFaults(graph, l) = IF has \/ out THEN b1 \o mid \o fl ELSE last
  <2>1. FlattenSeq([k \in DOMAIN ds |-> GateInputFaults(graph, l, ds[k], FALSE)]) = fl
    BY <1>16, <1>20
  <2> QED BY <1>1, <1>3, <1>4, <1>11, <1>23, <1>24, <2>1 DEF LineFaults, StemFault, OutputFault
<1>26. CASE has \/ out
  <2>1. <<>> \in Seq(TgFaults) /\ IsInjective(<<>>) /\ \A f : f \notin Range(<<>>)
    BY DEF IsInjective, Range
  <2>2. /\ mid \in Seq(TgFaults) /\ IsInjective(mid)
        /\ \A f : f \in Range(mid) <=> out /\ has /\ \E v \in {0, 1} : f = OutputFault(l, v)
    BY <1>13, <1>23, <2>1
  <2>3. \A f \in Range(b1) : f \notin Range(mid)
    BY <1>10, <1>12, <2>2
  <2>4. PICK u : u = b1 \o mid
    OBVIOUS
  <2>5. /\ u \in Seq(TgFaults) /\ IsInjective(u)
        /\ \A f : f \in Range(u) <=> f \in Range(b1) \/ f \in Range(mid)
    BY <1>12, <2>2, <2>3, <2>4, JoinedInjective, JoinedRange
  <2>6. \A f \in Range(u) : f \notin Range(fl)
    <3>1. ASSUME NEW f \in Range(fl)
          PROVE  f.is_stem = FALSE /\ f.is_primary_output = FALSE
      BY <1>18, <1>21
    <3>2. ASSUME NEW f \in Range(u)
          PROVE  f.is_stem = TRUE \/ f.is_primary_output = TRUE
      BY <1>10, <1>12, <2>2, <2>5
    <3> QED BY <3>1, <3>2
  <2>7. PICK w : w = u \o fl
    OBVIOUS
  <2>8. /\ w \in Seq(TgFaults) /\ IsInjective(w)
        /\ \A f : f \in Range(w) <=> f \in Range(u) \/ f \in Range(fl)
    BY <1>21, <2>5, <2>6, <2>7, JoinedInjective, JoinedRange
  <2>9. LineFaults(graph, l) = w
    BY <1>25, <1>26, <2>4, <2>7
  <2>10. \A f : FaultOf(l, f) <=>
           \/ \E v \in {0, 1} : f = StemFault(l, v)
           \/ out /\ has /\ \E v \in {0, 1} : f = OutputFault(l, v)
           \/ \E c \in Range(ds) : \E v \in Fronts(FrontType(c)) : f = BranchFault(l, v, c)
    BY <1>1, <1>3, <1>4, <1>6, <1>26 DEF FaultOf
  <2>11. \A f : f \in Range(w) <=> FaultOf(l, f)
    BY <1>12, <1>22, <2>2, <2>5, <2>8, <2>10
  <2> QED BY <2>8, <2>9, <2>11
<1>27. CASE ~(has \/ out)
  <2>1. Len(ds) > 0 /\ 1 \in DOMAIN ds
    BY <1>2, <1>3, <1>27
  <2>2. PICK c \in [gate : Nat, idx : Nat] : c = ds[1]
    BY <1>2, <2>1
  <2>3. PICK type \in GateTypes : type = graph.gates[c.gate].type
    BY <1>2, <2>1, <2>2 DEF FrontType
  <2>4. PICK stem \in BOOLEAN : stem = (graph.lines[l].source # NoGate)
    OBVIOUS
  <2>5. last = GateInputFaults(graph, l, c, stem)
    BY <1>24, <2>2, <2>4
  <2>6. /\ last \in Seq(TgFaults) /\ IsInjective(last)
        /\ \A f : f \in Range(last) <=> \E v \in Fronts(type) : f = InputFault(l, v, stem, c)
    <3>1. l \in Nat
      BY <1>2
    <3>2. type = graph.gates[c.gate].type
      BY <2>3
    <3>3. FrontsListed(GateInputFaults(graph, l, c, stem), l, c, stem, type)
      BY <3>1, <3>2, InputFaultsAre
    <3> QED BY <2>5, <3>3 DEF FrontsListed
  <2>7. \A v : FrontFault(l, v) = InputFault(l, v, stem, c)
    BY <1>1, <2>2, <2>4 DEF FrontFault, InputFault
  <2>8. FrontType(graph.lines[l].dests[1]) = type
    BY <1>1, <2>2, <2>3 DEF FrontType
  <2>9. \A f : FaultOf(l, f) <=> \E v \in Fronts(type) : f = FrontFault(l, v)
    BY <1>3, <1>6, <1>27, <2>8 DEF FaultOf
  <2>10. LineFaults(graph, l) = last
    BY <1>25, <1>27
  <2> QED BY <2>6, <2>7, <2>9, <2>10
<1> QED BY <1>26, <1>27
------------------------------------------------------------------------------
\* Two elements of a set.
LEMMA TwoOf ==
  ASSUME NEW S, IsFiniteSet(S)
  PROVE  /\ Cardinality(S) \in Nat
         /\ Cardinality(S) >= 1 => \E a \in S : TRUE
         /\ Cardinality(S) >= 2 => \E a, b \in S : a # b
<1>1. Cardinality(S) \in Nat /\ (S = {} => Cardinality(S) = 0)
  BY FS_CardinalityType, FS_EmptySet
<1>2. ASSUME Cardinality(S) >= 2 PROVE \E a, b \in S : a # b
  <2>1. PICK a : a \in S
    BY <1>1, <1>2
  <2>2. IsFiniteSet(S \ {a}) /\ Cardinality(S \ {a}) = Cardinality(S) - 1
    BY <2>1, FS_RemoveElement
  <2>3. S \ {a} # {}
    <3> SUFFICES ASSUME S \ {a} = {} PROVE FALSE
      OBVIOUS
    <3>1. Cardinality(S \ {a}) = 0
      BY FS_EmptySet
    <3> QED BY <1>1, <1>2, <2>2, <3>1
  <2> QED BY <2>1, <2>3
<1> QED BY <1>1, <1>2

\* A gate is a stem just when it drives two connections.
LEMMA StemWires ==
  ASSUME Split, NEW g \in Originals
  PROVE  gates[g].is_stem <=> \E c, d \in Wires(file, g) : c # d
<1>1. /\ LegalNetlist(file, Size) /\ Originals = 1 .. Size /\ g \in DOMAIN gates
      /\ Size \in Nat /\ DOMAIN file.ins = Originals /\ Passed(g) /\ file \in Netlists
  BY SplitFacts, NetlistsAreLegal
<1>2. ASSUME NEW c \in Wires(file, g), NEW d \in Wires(file, g), c # d, ~gates[g].is_stem
      PROVE  FALSE
  <2>1. CASE gates[g].isPO
    BY <1>2, <2>1, OneFanout
  <2>2. CASE ~gates[g].isPO
    <3>1. PICK r \in Originals : \E k \in DOMAIN file.ins[r] : c = <<r, k>> /\ file.ins[r][k] = g
      BY <1>2, <2>2, OneFanout
    <3>2. PICK k \in DOMAIN file.ins[r] : c = <<r, k>> /\ file.ins[r][k] = g
      BY <3>1
    <3>3. PICK q2 \in Originals : \E m \in DOMAIN file.ins[q2] : d = <<q2, m>> /\ file.ins[q2][m] = g
      BY <1>2, <2>2, OneFanout
    <3>4. PICK m \in DOMAIN file.ins[q2] : d = <<q2, m>> /\ file.ins[q2][m] = g
      BY <3>3
    <3>5. r = q2
      <4>1. r = gates[g].fanouts[1]
        BY <1>2, <3>2, OneFanout
      <4>2. q2 = gates[g].fanouts[1]
        BY <1>2, <3>4, OneFanout
      <4> QED BY <4>1, <4>2
    <3>6. m \in DOMAIN file.ins[r] /\ k # m /\ file.ins[r][m] = g
      BY <1>2, <3>2, <3>4, <3>5
    <3>7. PICK l \in DOMAIN gates : LineTo(l, g, r)
      BY <3>2, <3>6, ReadTwice
    <3> QED BY <1>2, <3>7 DEF LineTo, Stands
  <2> QED BY <2>1, <2>2
<1>3. ASSUME gates[g].is_stem
      PROVE  \E c, d \in Wires(file, g) : c # d
  <2>1. IsFiniteSet(PinsReading(file, g))
    <3>1. IsFiniteSet(PinsOf(file))
      BY <1>1, PinsFinite DEF Pins, PinsOf
    <3>2. PinsReading(file, g) \subseteq PinsOf(file)
      BY DEF PinsReading
    <3> QED BY <3>1, <3>2, FS_Subset
  <2>2. \A c \in PinsReading(file, g) :
          /\ c \in Wires(file, g)
          /\ \E h \in 1 .. Size : \E k \in DOMAIN file.ins[h] : c = <<h, k>>
    <3> SUFFICES ASSUME NEW c \in PinsReading(file, g)
                 PROVE  /\ c \in Wires(file, g)
                        /\ \E h \in 1 .. Size : \E k \in DOMAIN file.ins[h] : c = <<h, k>>
      OBVIOUS
    <3>1. c \in PinsOf(file) /\ file.ins[c[1]][c[2]] = g
      BY DEF PinsReading
    <3>2. PICK h \in 1 .. Size : c \in {h} \X DOMAIN file.ins[h]
      BY <1>1, <3>1 DEF PinsOf
    <3>3. c[1] = h /\ c[2] \in DOMAIN file.ins[h] /\ c = <<h, c[2]>>
      BY <3>2
    <3> QED BY <1>1, <3>1, <3>3, WiresAre
  <2>3. PICK b \in Nat, o \in Nat : b = Cardinality(PinsReading(file, g)) /\ o = Count(file.outs, g)
    BY <1>1, <2>1, FS_CardinalityType, CountPlaces DEF LegalNetlist
  <2>4. b + o >= 2
    <3>1. Branches(g) = Cardinality(PinsReading(file, g)) + Count(file.outs, g)
      BY DEF Branches, Pins, PinsOf, PinsReading
    <3>2. Branches(g) >= 2
      BY <1>1, <1>3 DEF Passed
    <3> QED BY <2>3, <3>1, <3>2
  <2>5. o = IF g \in Range(file.outs) THEN 1 ELSE 0
    BY <1>1, <2>3, CountInjective DEF LegalNetlist
  <2>6. CASE g \in Range(file.outs)
    <3>1. b >= 1
      BY <2>3, <2>4, <2>5, <2>6
    <3>2. PICK c \in PinsReading(file, g) : TRUE
      BY <2>1, <2>3, <3>1, TwoOf
    <3>3. PICK h \in 1 .. Size : \E k \in DOMAIN file.ins[h] : c = <<h, k>>
      BY <2>2, <3>2
    <3>4. PICK k \in DOMAIN file.ins[h] : c = <<h, k>>
      BY <3>3
    <3>5. <<h, k>> # <<0, g>>
      <4> SUFFICES ASSUME <<h, k>> = <<0, g>> PROVE FALSE
        OBVIOUS
      <4>1. <<h, k>>[1] = <<0, g>>[1]
        OBVIOUS
      <4> QED BY <1>1, <4>1
    <3>6. <<0, g>> \in Wires(file, g)
      <4>1. PICK m \in DOMAIN file.outs : file.outs[m] = g
        BY <2>6 DEF Range
      <4> QED BY <1>1, <4>1, WiresAre
    <3>7. c \in Wires(file, g) /\ c # <<0, g>>
      BY <2>2, <3>2, <3>4, <3>5
    <3> QED BY <3>6, <3>7
  <2>7. CASE g \notin Range(file.outs)
    <3>1. b >= 2
      BY <2>3, <2>4, <2>5, <2>7
    <3>2. PICK c, d \in PinsReading(file, g) : c # d
      BY <2>1, <2>3, <3>1, TwoOf
    <3> QED BY <2>2, <3>2
  <2> QED BY <2>6, <2>7
<1> QED BY <1>2, <1>3

\* tg-pro's line of a gate has branches just when the gate is a stem.
LEMMA BranchingMeans ==
  ASSUME Split, GraphRead, GraphFits, NEW l \in NamedLines(graph), NEW g, g = GateOf(l)
  PROVE  /\ HasFanoutBranches(graph.lines[l]) <=> gates[g].is_stem
         /\ ~gates[g].is_stem => (graph.lines[l].is_output <=> gates[g].isPO)
<1>1. g \in Originals /\ LineFits(l, g) /\ LegalNetlist(file, Size) /\ Originals = 1 .. Size
  BY SplitFacts, NetlistsAreLegal DEF GraphFits
<1>2. PICK ds \in Seq([gate : Nat, idx : Nat]) : ds = graph.lines[l].dests
  BY <1>1 DEF LineFits
<1>3. PICK out \in BOOLEAN : out = graph.lines[l].is_output
  BY <1>1 DEF LineFits
<1>4. /\ out <=> g \in Range(file.outs)
      /\ IsInjective(ds)
      /\ \A c \in Range(ds) : FitsPin(c, g)
      /\ \A r \in Originals : \A k \in DOMAIN file.ins[r] : file.ins[r][k] = g =>
           \E c \in Range(ds) : ReaderOf(c) = r /\ c.idx = k
      /\ \A c, d \in Range(ds) : ReaderOf(c) = ReaderOf(d) /\ c.idx = d.idx => c = d
  BY <1>1, <1>2, <1>3 DEF LineFits
<1>5. HasFanoutBranches(graph.lines[l]) <=> IF out THEN ds # <<>> ELSE Len(ds) > 1
  BY <1>2, <1>3 DEF HasFanoutBranches
<1>6. \A c \in Range(ds) : <<ReaderOf(c), c.idx>> \in Wires(file, g) /\ <<ReaderOf(c), c.idx>> # <<0, g>>
  <2> SUFFICES ASSUME NEW c \in Range(ds)
               PROVE  /\ <<ReaderOf(c), c.idx>> \in Wires(file, g)
                      /\ <<ReaderOf(c), c.idx>> # <<0, g>>
    OBVIOUS
  <2>0. PICK r \in Originals : r = ReaderOf(c)
    BY <1>4 DEF FitsPin
  <2>1. PICK k \in DOMAIN file.ins[r] : r = ReaderOf(c) /\ k = c.idx /\ file.ins[r][k] = g
    BY <1>4, <2>0 DEF FitsPin
  <2>2. <<r, k>> \in Wires(file, g)
    BY <1>1, <2>1, WiresAre
  <2>3. <<r, k>> # <<0, g>>
    <3> SUFFICES ASSUME <<r, k>> = <<0, g>> PROVE FALSE
      OBVIOUS
    <3>1. <<r, k>>[1] = <<0, g>>[1]
      OBVIOUS
    <3> QED BY <1>1, <2>1, <3>1
  <2> QED BY <2>1, <2>2, <2>3
<1>7. \A w \in Wires(file, g) :
        \/ out /\ w = <<0, g>>
        \/ \E c \in Range(ds) : w = <<ReaderOf(c), c.idx>>
  <2> SUFFICES ASSUME NEW w \in Wires(file, g)
               PROVE  \/ out /\ w = <<0, g>>
                      \/ \E c \in Range(ds) : w = <<ReaderOf(c), c.idx>>
    OBVIOUS
  <2>1. CASE \E h \in 1 .. Size : \E k \in DOMAIN file.ins[h] : w = <<h, k>> /\ file.ins[h][k] = g
    BY <1>1, <1>4, <2>1
  <2>2. CASE g \in Range(file.outs) /\ w = <<0, g>>
    BY <1>4, <2>2
  <2> QED BY <1>1, <2>1, <2>2, WiresAre
<1>8. Len(ds) \in Nat /\ DOMAIN ds = 1 .. Len(ds) /\ (ds = <<>> <=> Len(ds) = 0)
  BY SeqElements
<1>9. ASSUME HasFanoutBranches(graph.lines[l])
      PROVE  gates[g].is_stem
  <2>1. CASE out
    <3>1. 1 \in DOMAIN ds
      BY <1>5, <1>8, <1>9, <2>1
    <3>2. ds[1] \in Range(ds)
      BY <3>1 DEF Range
    <3>3. <<0, g>> \in Wires(file, g)
      <4>1. PICK m \in DOMAIN file.outs : file.outs[m] = g
        BY <1>4, <2>1 DEF Range
      <4> QED BY <1>1, <4>1, WiresAre
    <3> QED BY <1>1, <1>6, <3>2, <3>3, StemWires
  <2>2. CASE ~out
    <3>1. 1 \in DOMAIN ds /\ 2 \in DOMAIN ds
      BY <1>5, <1>8, <1>9, <2>2
    <3>2. PICK c, d \in Range(ds) : c = ds[1] /\ d = ds[2]
      BY <3>1 DEF Range
    <3>3. c # d
      BY <1>4, <3>1, <3>2 DEF IsInjective
    <3>4. <<ReaderOf(c), c.idx>> # <<ReaderOf(d), d.idx>>
      <4> SUFFICES ASSUME <<ReaderOf(c), c.idx>> = <<ReaderOf(d), d.idx>> PROVE FALSE
        OBVIOUS
      <4>1. ReaderOf(c) = ReaderOf(d) /\ c.idx = d.idx
        OBVIOUS
      <4> QED BY <1>4, <3>2, <3>3, <4>1
    <3> QED BY <1>1, <1>6, <3>2, <3>4, StemWires
  <2> QED BY <2>1, <2>2
<1>10. ASSUME gates[g].is_stem
       PROVE  HasFanoutBranches(graph.lines[l])
  <2>1. PICK w, x \in Wires(file, g) : w # x
    BY <1>1, <1>10, StemWires
  <2>2. CASE out
    <3>1. \E c \in Range(ds) : TRUE
      BY <1>7, <2>1
    <3>2. ds # <<>>
      BY <1>8, <3>1 DEF Range
    <3> QED BY <1>5, <2>2, <3>2
  <2>3. CASE ~out
    <3>1. PICK c \in Range(ds) : w = <<ReaderOf(c), c.idx>>
      BY <1>7, <2>1, <2>3
    <3>2. PICK d \in Range(ds) : x = <<ReaderOf(d), d.idx>>
      BY <1>7, <2>1, <2>3
    <3>3. PICK k \in DOMAIN ds : ds[k] = c
      BY <3>1 DEF Range
    <3>4. PICK m \in DOMAIN ds : ds[m] = d
      BY <3>2 DEF Range
    <3>5. k # m
      BY <2>1, <3>1, <3>2, <3>3, <3>4
    <3>6. Len(ds) > 1
      BY <1>8, <3>5
    <3> QED BY <1>5, <2>3, <3>6
  <2> QED BY <2>2, <2>3
<1>11. ASSUME ~gates[g].is_stem
       PROVE  out <=> gates[g].isPO
  <2>1. gates[g].isPO <=> g \in Range(file.outs)
    BY <1>1, <1>11, OutputBranches DEF OutputBranch
  <2> QED BY <1>4, <2>1
<1> QED BY <1>3, <1>9, <1>10, <1>11

------------------------------------------------------------------------------
\* The names of the faults, on both sides.
StemKey(name, v) == Key(name, v, TRUE, FALSE)
OutKey(name, v) == Key(name, v, FALSE, TRUE)
FlagKey(name, v, stem) == Key(name, v, stem, FALSE)
FrontKey(g, v) == FlagKey(<<g>>, v, file.ins[g] # <<>>)

LEMMA KeysTell ==
  ASSUME NEW n, NEW v, NEW m, NEW w
  PROVE  /\ StemKey(n, v).name = n /\ OutKey(n, v).name = n /\ PlainKey(n, v).name = n
         /\ StemKey(n, v).stuck_at = v /\ OutKey(n, v).stuck_at = v /\ PlainKey(n, v).stuck_at = v
         /\ StemKey(n, v) # OutKey(m, w) /\ StemKey(n, v) # PlainKey(m, w)
         /\ OutKey(n, v) # PlainKey(m, w)
<1>1. /\ StemKey(n, v).is_stem = TRUE /\ OutKey(n, v).is_stem = FALSE /\ PlainKey(m, w).is_stem = FALSE
      /\ OutKey(n, v).is_PO = TRUE /\ StemKey(n, v).is_PO = FALSE /\ PlainKey(m, w).is_PO = FALSE
      /\ OutKey(m, w).is_stem = FALSE
  BY DEF StemKey, OutKey, PlainKey, Key
<1>2. /\ StemKey(n, v).name = n /\ OutKey(n, v).name = n /\ PlainKey(n, v).name = n
      /\ StemKey(n, v).stuck_at = v /\ OutKey(n, v).stuck_at = v /\ PlainKey(n, v).stuck_at = v
  BY DEF StemKey, OutKey, PlainKey, Key
<1>3. TRUE # FALSE
  OBVIOUS
<1> QED BY <1>1, <1>2, <1>3, Zenon

\* Names are equal if what they are made of is.
LEMMA KeyNames ==
  /\ \A n, v : StemKey(n, v).name = n /\ StemKey(n, v).stuck_at = v
  /\ \A n, v : OutKey(n, v).name = n /\ OutKey(n, v).stuck_at = v
  /\ \A n, v : PlainKey(n, v).name = n /\ PlainKey(n, v).stuck_at = v
  /\ \A n, v : FrontKey(n, v).name = <<n>> /\ FrontKey(n, v).stuck_at = v
BY DEF StemKey, OutKey, PlainKey, FrontKey, FlagKey, Key

LEMMA KeysAlike ==
  ASSUME NEW n, NEW v, NEW m, NEW w
  PROVE  /\ StemKey(n, v) = StemKey(m, w) => n = m /\ v = w
         /\ OutKey(n, v) = OutKey(m, w) => n = m /\ v = w
         /\ PlainKey(n, v) = PlainKey(m, w) => n = m /\ v = w
         /\ FrontKey(n, v) = FrontKey(m, w) => n = m /\ v = w
         /\ FrontKey(n, v) = StemKey(m, w) => <<n>> = m /\ v = w
         /\ FrontKey(n, v) = PlainKey(m, w) => <<n>> = m /\ v = w
<1>1. ASSUME StemKey(n, v) = StemKey(m, w) PROVE n = m /\ v = w
  <2>1. StemKey(n, v).name = StemKey(m, w).name /\ StemKey(n, v).stuck_at = StemKey(m, w).stuck_at
    BY <1>1
  <2>2. StemKey(n, v).name = n /\ StemKey(n, v).stuck_at = v
    BY KeyNames
  <2>3. StemKey(m, w).name = m /\ StemKey(m, w).stuck_at = w
    BY KeyNames
  <2> QED BY <2>1, <2>2, <2>3
<1>2. ASSUME OutKey(n, v) = OutKey(m, w) PROVE n = m /\ v = w
  <2>1. OutKey(n, v).name = OutKey(m, w).name /\ OutKey(n, v).stuck_at = OutKey(m, w).stuck_at
    BY <1>2
  <2>2. OutKey(n, v).name = n /\ OutKey(n, v).stuck_at = v
    BY KeyNames
  <2>3. OutKey(m, w).name = m /\ OutKey(m, w).stuck_at = w
    BY KeyNames
  <2> QED BY <2>1, <2>2, <2>3
<1>3. ASSUME PlainKey(n, v) = PlainKey(m, w) PROVE n = m /\ v = w
  <2>1. PlainKey(n, v).name = PlainKey(m, w).name /\ PlainKey(n, v).stuck_at = PlainKey(m, w).stuck_at
    BY <1>3
  <2>2. PlainKey(n, v).name = n /\ PlainKey(n, v).stuck_at = v
    BY KeyNames
  <2>3. PlainKey(m, w).name = m /\ PlainKey(m, w).stuck_at = w
    BY KeyNames
  <2> QED BY <2>1, <2>2, <2>3
<1>4. ASSUME FrontKey(n, v) = FrontKey(m, w) PROVE <<n>> = <<m>> /\ v = w
  <2>1. FrontKey(n, v).name = FrontKey(m, w).name /\ FrontKey(n, v).stuck_at = FrontKey(m, w).stuck_at
    BY <1>4
  <2>2. FrontKey(n, v).name = <<n>> /\ FrontKey(n, v).stuck_at = v
    BY KeyNames
  <2>3. FrontKey(m, w).name = <<m>> /\ FrontKey(m, w).stuck_at = w
    BY KeyNames
  <2> QED BY <2>1, <2>2, <2>3
<1>5. ASSUME FrontKey(n, v) = StemKey(m, w) PROVE <<n>> = m /\ v = w
  <2>1. FrontKey(n, v).name = StemKey(m, w).name /\ FrontKey(n, v).stuck_at = StemKey(m, w).stuck_at
    BY <1>5
  <2>2. FrontKey(n, v).name = <<n>> /\ FrontKey(n, v).stuck_at = v
    BY KeyNames
  <2>3. StemKey(m, w).name = m /\ StemKey(m, w).stuck_at = w
    BY KeyNames
  <2> QED BY <2>1, <2>2, <2>3
<1>6. ASSUME FrontKey(n, v) = PlainKey(m, w) PROVE <<n>> = m /\ v = w
  <2>1. FrontKey(n, v).name = PlainKey(m, w).name /\ FrontKey(n, v).stuck_at = PlainKey(m, w).stuck_at
    BY <1>6
  <2>2. FrontKey(n, v).name = <<n>> /\ FrontKey(n, v).stuck_at = v
    BY KeyNames
  <2>3. PlainKey(m, w).name = m /\ PlainKey(m, w).stuck_at = w
    BY KeyNames
  <2> QED BY <2>1, <2>2, <2>3
<1>7. <<n>> = <<m>> => n = m
  OBVIOUS
<1> QED BY <1>1, <1>2, <1>3, <1>4, <1>5, <1>6, <1>7

LEMMA KeysDiffer ==
  ASSUME NEW n, NEW v, NEW m, NEW w
  PROVE  /\ StemKey(n, v) # OutKey(m, w) /\ StemKey(n, v) # PlainKey(m, w)
         /\ OutKey(n, v) # PlainKey(m, w)
         /\ FrontKey(n, v) # OutKey(m, w)
<1>1. FrontKey(n, v).is_PO = FALSE /\ OutKey(m, w).is_PO = TRUE
  BY DEF FrontKey, FlagKey, OutKey, Key
<1>2. FALSE # TRUE
  OBVIOUS
<1>3. FrontKey(n, v) # OutKey(m, w)
  BY <1>1, <1>2, Zenon
<1> QED BY <1>3, KeysTell

\* The names ls_main gives the faults of gate or line g.
GateKey(g, v) ==
  IF IsLine(g)
  THEN IF gates[g].isPO THEN OutKey(gates[g].name, v) ELSE PlainKey(gates[g].name, v)
  ELSE IF gates[g].is_stem \/ gates[g].isPO THEN StemKey(<<g>>, v) ELSE FrontKey(g, v)

LEMMA GateKeys ==
  ASSUME Split, NEW g \in DOMAIN gates, NEW k \in DOMAIN GateFaults(g)
  PROVE  /\ k \in DOMAIN Polarities(g)
         /\ GateFaults(g)[k].gate = g /\ GateFaults(g)[k].key = GateKey(g, Polarities(g)[k])
<1>1. /\ DOMAIN GateFaults(g) = DOMAIN Polarities(g)
      /\ GateFaults(g)[k].gate = g
      /\ IsLine(g) /\ ~gates[g].is_stem /\ ~gates[g].isPO =>
           GateFaults(g)[k].key = PlainKey(gates[g].name, Polarities(g)[k])
  BY GateFaultsAre
<1>2. PICK stuck : stuck = Polarities(g)
  OBVIOUS
<1>3. PICK flags : flags = CASE gates[g].is_stem -> <<TRUE, FALSE>>
                             [] ~gates[g].is_stem /\ gates[g].isPO -> <<~IsLine(g), IsLine(g)>>
                             [] OTHER -> <<gates[g].type = "GATE", FALSE>>
  OBVIOUS
<1>4. GateFaults(g) = [p \in DOMAIN stuck |->
                         [gate |-> g, key |-> Key(gates[g].name, stuck[p], flags[1], flags[2])]]
  BY <1>2, <1>3 DEF GateFaults, Polarities
<1>5. k \in DOMAIN stuck /\ GateFaults(g)[k].key = Key(gates[g].name, stuck[k], flags[1], flags[2])
  BY <1>1, <1>2, <1>4
<1>6. gates[g].is_stem \in BOOLEAN /\ gates[g].isPO \in BOOLEAN
  BY SplitFacts
<1>7. CASE IsLine(g)
  <2>1. g > Size /\ LineBetween(gates[g], Size)
    BY <1>7, SplitFacts DEF Split, IInv, LinesFollow
  <2>2. ~gates[g].is_stem
    BY <2>1 DEF LineBetween
  <2>3. CASE gates[g].isPO
    <3>1. flags = <<FALSE, TRUE>>
      BY <1>3, <1>6, <1>7, <2>2, <2>3
    <3>2. flags[1] = FALSE /\ flags[2] = TRUE
      BY <3>1
    <3>3. GateFaults(g)[k].key = OutKey(gates[g].name, stuck[k])
      BY <1>5, <3>2, Zenon DEF OutKey
    <3> QED BY <1>1, <1>2, <1>7, <2>3, <3>3 DEF GateKey
  <2>4. CASE ~gates[g].isPO
    BY <1>1, <1>7, <2>2, <2>4 DEF GateKey
  <2> QED BY <2>3, <2>4
<1>8. CASE ~IsLine(g)
  <2>1. g \in Originals /\ gates[g].name = <<g>>
    <3>1. ~(g > Size)
      BY <1>8, SplitFacts
    <3> QED BY <3>1, SplitFacts
  <2>2. CASE gates[g].is_stem \/ gates[g].isPO
    <3>1. flags = <<TRUE, FALSE>>
      <4>1. CASE gates[g].is_stem
        BY <1>3, <4>1
      <4>2. CASE ~gates[g].is_stem
        <5>1. flags = <<~IsLine(g), IsLine(g)>>
          BY <1>3, <2>2, <4>2
        <5>2. IsLine(g) = FALSE /\ (~IsLine(g)) = TRUE
          BY <1>8 DEF IsLine
        <5> QED BY <5>1, <5>2, Zenon
      <4> QED BY <4>1, <4>2
    <3>2. flags[1] = TRUE /\ flags[2] = FALSE
      BY <3>1
    <3>3. GateFaults(g)[k].key = StemKey(<<g>>, stuck[k])
      BY <1>5, <2>1, <3>2, Zenon DEF StemKey
    <3> QED BY <1>1, <1>2, <1>8, <2>2, <3>3 DEF GateKey
  <2>3. CASE ~(gates[g].is_stem \/ gates[g].isPO)
    <3>1. PICK b \in BOOLEAN : b = (gates[g].type = "GATE")
      OBVIOUS
    <3>2. flags = <<b, FALSE>>
      BY <1>3, <1>6, <2>3, <3>1
    <3>3. flags[1] = b /\ flags[2] = FALSE
      BY <3>2
    <3>4. GateFaults(g)[k].key = FlagKey(<<g>>, stuck[k], b)
      BY <1>5, <2>1, <3>3, Zenon DEF FlagKey
    <3>5. b <=> file.ins[g] # <<>>
      BY <1>8, <2>1, <3>1, SplitFacts DEF Split, InputsKept, IsLine
    <3>6. b = (file.ins[g] # <<>>)
      BY <3>5
    <3>7. GateFaults(g)[k].key = FrontKey(g, stuck[k])
      BY <3>4, <3>6, Zenon DEF FrontKey
    <3> QED BY <1>1, <1>2, <1>8, <2>3, <3>7 DEF GateKey
  <2> QED BY <2>2, <2>3
<1> QED BY <1>7, <1>8

------------------------------------------------------------------------------
\* What tg-pro's faults of the line of a gate are called, and where they sit.
Lone(l) == graph.lines[l].source = NoGate /\ Len(graph.lines[l].dests) = 1

Placed(f, key, site) == KeyOf(graph, f) = key /\ TgSite(f) = site

HasName(f, n) == KeyOf(graph, f) = Key(n, f.stuck_at, f.is_stem, f.is_primary_output)

LEMMA KeyParts ==
  ASSUME NEW l \in NamedLines(graph), NEW g, graph.lines[l].name = <<g>>, NEW f, f.line = l
  PROVE  /\ NamedByLine(graph, f) => HasName(f, <<g>>)
         /\ ~NamedByLine(graph, f) /\ f.is_primary_output => HasName(f, <<g, 0>>)
         /\ \A r : ~NamedByLine(graph, f) /\ ~f.is_primary_output
                   /\ graph.lines[graph.gates[f.connection.gate].output].name = <<r>> =>
                     HasName(f, <<g, r>>)
<1>1. ASSUME NEW r PROVE <<g>> \o <<r>> = <<g, r>>
  <2>1. PICK T : T = {g, r}
    OBVIOUS
  <2>0. <<g>> \in Seq(T) /\ <<r>> \in Seq(T) /\ <<g, r>> \in Seq(T)
    BY <2>1
  <2>2. PICK s \in Seq(T), t \in Seq(T) : s = <<g>> /\ t = <<r>>
    BY <2>0
  <2>3. /\ s \o t \in Seq(T) /\ Len(s \o t) = Len(s) + Len(t)
        /\ \A k \in 1 .. Len(s) : (s \o t)[k] = s[k]
        /\ \A k \in 1 .. Len(t) : (s \o t)[Len(s) + k] = t[k]
    OBVIOUS
  <2>4. Len(s) = 1 /\ Len(t) = 1 /\ s[1] = g /\ t[1] = r
    BY <2>2
  <2>5. Len(s \o t) = 2 /\ (s \o t)[1] = g /\ (s \o t)[2] = r
    BY <2>3, <2>4
  <2>6. s \o t = <<g, r>>
    <3>1. Len(<<g, r>>) = 2 /\ <<g, r>>[1] = g /\ <<g, r>>[2] = r
      OBVIOUS
    <3>2. \A m \in 1 .. 2 : m = 1 \/ m = 2
      OBVIOUS
    <3>3. PICK u \in Seq(T), w \in Seq(T) : u = s \o t /\ w = <<g, r>>
      BY <2>0, <2>3
    <3>4. Len(u) = Len(w) /\ \A m \in 1 .. Len(u) : u[m] = w[m]
      BY <2>5, <3>1, <3>2, <3>3
    <3>5. u = w
      BY <3>4, SeqEqual
    <3> QED BY <3>3, <3>5
  <2> QED BY <2>2, <2>6
<1>2. PICK own, reader : own = <<g>> /\ reader = graph.lines[graph.gates[f.connection.gate].output].name
  OBVIOUS
<1>3. KeyOf(graph, f) = Key(IF NamedByLine(graph, f) THEN own
                            ELSE own \o IF f.is_primary_output THEN <<0>> ELSE reader,
                            f.stuck_at, f.is_stem, f.is_primary_output)
  BY <1>2 DEF KeyOf
<1> QED BY <1>1, <1>2, <1>3 DEF HasName

LEMMA TgKeys ==
  ASSUME GraphRead, GraphFits, NEW l \in NamedLines(graph), NEW g, g = GateOf(l),
         NEW v \in {0, 1}
  PROVE  /\ Placed(StemFault(l, v), StemKey(<<g>>, v), Wires(file, g))
         /\ Placed(OutputFault(l, v), OutKey(IF Lone(l) THEN <<g>> ELSE <<g, 0>>, v), {<<0, g>>})
         /\ \A c \in Range(graph.lines[l].dests) :
              Placed(BranchFault(l, v, c), PlainKey(IF Lone(l) THEN <<g>> ELSE <<g, ReaderOf(c)>>, v),
                     {<<ReaderOf(c), c.idx>>})
         /\ \A c : ~LineBranches(l) /\ c = graph.lines[l].dests[1] =>
              Placed(FrontFault(l, v), FrontKey(g, v), {<<ReaderOf(c), c.idx>>})
<1>1. g \in Originals /\ LineFits(l, g) /\ graph.lines[l].name = <<g>>
  BY DEF GraphFits, LineFits
<1>2. Placed(StemFault(l, v), StemKey(<<g>>, v), Wires(file, g))
  <2>1. PICK f : f = StemFault(l, v)
    OBVIOUS
  <2>2. /\ f.line = l /\ f.stuck_at = v /\ f.is_stem = TRUE /\ f.connection = NoConnection
        /\ f.is_primary_output = FALSE
    BY <2>1 DEF StemFault, TgFault
  <2>3. NamedByLine(graph, f)
    BY <2>2 DEF NamedByLine
  <2>4. HasName(f, <<g>>)
    BY <1>1, <2>2, <2>3, KeyParts
  <2>5. KeyOf(graph, f) = StemKey(<<g>>, v)
    BY <2>2, <2>4, Zenon DEF StemKey, HasName
  <2>6. TgSite(f) = Wires(file, g)
    BY <2>2 DEF TgSite
  <2> QED BY <2>1, <2>5, <2>6 DEF Placed
<1>3. Placed(OutputFault(l, v), OutKey(IF Lone(l) THEN <<g>> ELSE <<g, 0>>, v), {<<0, g>>})
  <2>1. PICK f : f = OutputFault(l, v)
    OBVIOUS
  <2>2. /\ f.line = l /\ f.stuck_at = v /\ f.is_stem = FALSE /\ f.is_primary_output = TRUE
        /\ f.connection = NoConnection
    BY <2>1 DEF OutputFault, TgFault
  <2>3. PICK n : n = IF Lone(l) THEN <<g>> ELSE <<g, 0>>
    OBVIOUS
  <2>4. NamedByLine(graph, f) <=> Lone(l)
    BY <2>2 DEF NamedByLine, Lone
  <2>5. HasName(f, n)
    BY <1>1, <2>2, <2>3, <2>4, KeyParts
  <2>6. KeyOf(graph, f) = OutKey(n, v)
    BY <2>2, <2>5, Zenon DEF OutKey, HasName
  <2>7. TgSite(f) = {<<0, g>>}
    BY <2>2 DEF TgSite
  <2> QED BY <2>1, <2>3, <2>6, <2>7 DEF Placed
<1>4. ASSUME NEW c \in Range(graph.lines[l].dests)
      PROVE  Placed(BranchFault(l, v, c), PlainKey(IF Lone(l) THEN <<g>> ELSE <<g, ReaderOf(c)>>, v),
                    {<<ReaderOf(c), c.idx>>})
  <2>1. PICK f : f = BranchFault(l, v, c)
    OBVIOUS
  <2>2. /\ f.line = l /\ f.stuck_at = v /\ f.is_stem = FALSE /\ f.is_primary_output = FALSE
        /\ f.connection = c
    BY <2>1 DEF BranchFault, TgFault
  <2>3. PICK n : n = IF Lone(l) THEN <<g>> ELSE <<g, ReaderOf(c)>>
    OBVIOUS
  <2>4. NamedByLine(graph, f) <=> Lone(l)
    BY <2>2 DEF NamedByLine, Lone
  <2>5. FitsPin(c, g)
    BY <1>1 DEF LineFits
  <2>6. graph.lines[graph.gates[c.gate].output].name = <<ReaderOf(c)>> /\ c # NoConnection
    BY <2>5 DEF FitsPin
  <2>7. HasName(f, n)
    <3>1. CASE Lone(l)
      BY <1>1, <2>2, <2>3, <2>4, <3>1, KeyParts
    <3>2. CASE ~Lone(l)
      <4>1. ~NamedByLine(graph, f) /\ ~f.is_primary_output
        BY <2>2, <2>4, <3>2
      <4>2. graph.lines[graph.gates[f.connection.gate].output].name = <<ReaderOf(c)>>
        BY <2>2, <2>6
      <4> QED BY <1>1, <2>2, <2>3, <3>2, <4>1, <4>2, KeyParts
    <3> QED BY <3>1, <3>2
  <2>8. KeyOf(graph, f) = PlainKey(n, v)
    BY <2>2, <2>7, Zenon DEF PlainKey, HasName
  <2>9. TgSite(f) = {<<ReaderOf(c), c.idx>>}
    BY <2>2, <2>6 DEF TgSite, ReaderOf
  <2> QED BY <2>1, <2>3, <2>8, <2>9 DEF Placed
<1>5. ASSUME NEW c, ~LineBranches(l), c = graph.lines[l].dests[1]
      PROVE  Placed(FrontFault(l, v), FrontKey(g, v), {<<ReaderOf(c), c.idx>>})
  <2>1. PICK f : f = FrontFault(l, v)
    OBVIOUS
  <2>2. PICK b \in BOOLEAN : b = (graph.lines[l].source # NoGate)
    OBVIOUS
  <2>3. f = InputFault(l, v, b, c)
    BY <1>5, <2>1, <2>2 DEF FrontFault, InputFault
  <2>4. /\ f.line = l /\ f.stuck_at = v /\ f.is_stem = b /\ f.is_primary_output = FALSE
        /\ f.connection = c
    BY <2>3 DEF InputFault, TgFault
  <2>5. PICK ds \in Seq([gate : Nat, idx : Nat]) : ds = graph.lines[l].dests
    BY <1>1 DEF LineFits
  <2>6. Len(ds) = 1 /\ c \in Range(ds)
    <3>1. ~graph.lines[l].is_output /\ ~(Len(ds) > 1)
      BY <1>5, <2>5 DEF LineBranches, HasFanoutBranches
    <3>2. ds # <<>>
      BY <1>1, <2>5, <3>1 DEF LineFits
    <3>3. Len(ds) = 1
      <4>1. PICK n \in Nat : n = Len(ds)
        BY SeqElements
      <4>2. n # 0
        BY <3>2, <4>1, SeqElements
      <4>3. ~(n > 1)
        BY <3>1, <4>1
      <4>4. n = 1
        BY <4>2, <4>3
      <4> QED BY <4>1, <4>4
    <3> QED BY <1>5, <2>5, <3>3 DEF Range
  <2>7. NamedByLine(graph, f)
    <3>1. CASE b = TRUE
      BY <2>4, <3>1 DEF NamedByLine
    <3>2. CASE b = FALSE
      <4>1. graph.lines[l].source = NoGate
        BY <2>2, <3>2
      <4> QED BY <2>4, <2>5, <2>6, <4>1 DEF NamedByLine
    <3> QED BY <2>2, <3>1, <3>2
  <2>8. HasName(f, <<g>>)
    BY <1>1, <2>4, <2>7, KeyParts
  <2>9. b = (file.ins[g] # <<>>)
    <3>1. graph.lines[l].source = NoGate <=> file.ins[g] = <<>>
      BY <1>1 DEF LineFits
    <3> QED BY <2>2, <3>1
  <2>10. KeyOf(graph, f) = FrontKey(g, v)
    BY <2>4, <2>8, <2>9, Zenon DEF FrontKey, FlagKey, HasName
  <2>11. FitsPin(c, g)
    BY <1>1, <2>5, <2>6 DEF LineFits
  <2>12. c # NoConnection
    BY <2>11 DEF FitsPin
  <2>13. TgSite(f) = {<<ReaderOf(c), c.idx>>}
    BY <2>4, <2>12 DEF TgSite, ReaderOf
  <2> QED BY <2>1, <2>10, <2>13 DEF Placed
<1> QED BY <1>2, <1>3, <1>4, <1>5

------------------------------------------------------------------------------
\* The four kinds of tg-pro's faults by their names and their connections.
AtStem(l, v, key, site) ==
  LineBranches(l) /\ key = StemKey(<<GateOf(l)>>, v) /\ site = Wires(file, GateOf(l))

AtOutput(l, v, key, site) ==
  /\ LineBranches(l) /\ graph.lines[l].is_output /\ HasFanoutBranches(graph.lines[l])
  /\ key = OutKey(IF Lone(l) THEN <<GateOf(l)>> ELSE <<GateOf(l), 0>>, v)
  /\ site = {<<0, GateOf(l)>>}

AtBranch(l, v, c, key, site) ==
  /\ LineBranches(l) /\ c \in Range(graph.lines[l].dests) /\ v \in Fronts(FrontType(c))
  /\ key = PlainKey(IF Lone(l) THEN <<GateOf(l)>> ELSE <<GateOf(l), ReaderOf(c)>>, v)
  /\ site = {<<ReaderOf(c), c.idx>>}

AtFront(l, v, c, key, site) ==
  /\ ~LineBranches(l) /\ c \in Range(graph.lines[l].dests) /\ c = graph.lines[l].dests[1]
  /\ Len(graph.lines[l].dests) = 1
  /\ v \in Fronts(FrontType(c)) /\ key = FrontKey(GateOf(l), v)
  /\ site = {<<ReaderOf(c), c.idx>>}

Kind(l, v, key, site) ==
  \/ AtStem(l, v, key, site)
  \/ AtOutput(l, v, key, site)
  \/ \E c : AtBranch(l, v, c, key, site)
  \/ \E c : AtFront(l, v, c, key, site)

KindOf(l, f) ==
  f.line = l /\ f.stuck_at \in {0, 1} /\ Kind(l, f.stuck_at, KeyOf(graph, f), TgSite(f))

\* A line that is read once.
LEMMA OnlyDest ==
  ASSUME GraphRead, GraphFits, NEW l \in NamedLines(graph), ~LineBranches(l)
  PROVE  /\ Len(graph.lines[l].dests) = 1
         /\ graph.lines[l].dests[1] \in Range(graph.lines[l].dests)
<1>1. PICK ds : ds = graph.lines[l].dests
  OBVIOUS
<1>2. /\ ds \in Seq([gate : Nat, idx : Nat]) /\ DOMAIN ds = 1 .. Len(ds) /\ Len(ds) \in Nat
      /\ ~graph.lines[l].is_output => Len(ds) > 0
  BY <1>1, DestsFit
<1>3. ~graph.lines[l].is_output /\ ~HasFanoutBranches(graph.lines[l])
  BY DEF LineBranches
<1>4. Len(ds) > 0 /\ ~(Len(ds) > 1)
  BY <1>1, <1>2, <1>3 DEF HasFanoutBranches
<1>5. Len(ds) = 1 /\ 1 \in DOMAIN ds
  BY <1>2, <1>4
<1> QED BY <1>1, <1>5 DEF Range

LEMMA FrontValues ==
  ASSUME NEW type \in GateTypes, NEW v \in Fronts(type)
  PROVE  v \in {0, 1}
BY FrontsAre DEF GateTypes

\* Which fault it is.
Shape(l, v, f) ==
  \/ f = StemFault(l, v) /\ AtStem(l, v, KeyOf(graph, f), TgSite(f))
  \/ f = OutputFault(l, v) /\ AtOutput(l, v, KeyOf(graph, f), TgSite(f))
  \/ \E c : f = BranchFault(l, v, c) /\ AtBranch(l, v, c, KeyOf(graph, f), TgSite(f))
  \/ f = FrontFault(l, v) /\ \E c : AtFront(l, v, c, KeyOf(graph, f), TgSite(f))

LEMMA ShapesAre ==
  ASSUME GraphRead, GraphFits, NEW l \in NamedLines(graph), NEW f, FaultOf(l, f)
  PROVE  f.line = l /\ f.stuck_at \in {0, 1} /\ Shape(l, f.stuck_at, f)
<1>1. PICK g : g = GateOf(l)
  OBVIOUS
<1>2. PICK ds : ds = graph.lines[l].dests
  OBVIOUS
<1>3. \A c \in Range(ds) : FrontType(c) \in GateTypes
  <2>1. \A k \in DOMAIN ds : FrontType(ds[k]) \in GateTypes
    BY <1>2, DestsFit
  <2> QED BY <2>1 DEF Range
<1>4. CASE LineBranches(l) /\ \E v \in {0, 1} : f = StemFault(l, v)
  <2>1. PICK v \in {0, 1} : f = StemFault(l, v)
    BY <1>4
  <2>2. f.line = l /\ f.stuck_at = v
    BY <2>1 DEF StemFault, TgFault
  <2>3. Placed(f, StemKey(<<g>>, v), Wires(file, g))
    BY <1>1, <2>1, TgKeys
  <2>4. AtStem(l, v, KeyOf(graph, f), TgSite(f))
    BY <1>1, <1>4, <2>3 DEF Placed, AtStem
  <2> QED BY <2>1, <2>2, <2>4 DEF Shape
<1>5. CASE /\ graph.lines[l].is_output /\ HasFanoutBranches(graph.lines[l])
           /\ \E v \in {0, 1} : f = OutputFault(l, v)
  <2>1. PICK v \in {0, 1} : f = OutputFault(l, v)
    BY <1>5
  <2>2. f.line = l /\ f.stuck_at = v
    BY <2>1 DEF OutputFault, TgFault
  <2>3. Placed(f, OutKey(IF Lone(l) THEN <<g>> ELSE <<g, 0>>, v), {<<0, g>>})
    BY <1>1, <2>1, TgKeys
  <2>4. AtOutput(l, v, KeyOf(graph, f), TgSite(f))
    BY <1>1, <1>5, <2>3 DEF Placed, AtOutput, LineBranches
  <2> QED BY <2>1, <2>2, <2>4 DEF Shape
<1>6. CASE /\ LineBranches(l)
           /\ \E c \in Range(ds) : \E v \in Fronts(FrontType(c)) : f = BranchFault(l, v, c)
  <2>1. PICK c \in Range(ds) : \E v \in Fronts(FrontType(c)) : f = BranchFault(l, v, c)
    BY <1>6
  <2>2. PICK v \in Fronts(FrontType(c)) : f = BranchFault(l, v, c)
    BY <2>1
  <2>3. v \in {0, 1}
    BY <1>3, FrontValues
  <2>4. f.line = l /\ f.stuck_at = v
    BY <2>2 DEF BranchFault, TgFault
  <2>5. Placed(f, PlainKey(IF Lone(l) THEN <<g>> ELSE <<g, ReaderOf(c)>>, v), {<<ReaderOf(c), c.idx>>})
    BY <1>1, <1>2, <2>2, <2>3, TgKeys
  <2>6. AtBranch(l, v, c, KeyOf(graph, f), TgSite(f))
    BY <1>1, <1>2, <1>6, <2>5 DEF Placed, AtBranch
  <2> QED BY <2>2, <2>3, <2>4, <2>6 DEF Shape
<1>7. CASE ~LineBranches(l) /\ \E v \in Fronts(FrontType(ds[1])) : f = FrontFault(l, v)
  <2>1. PICK c : c = ds[1]
    OBVIOUS
  <2>2. PICK v \in Fronts(FrontType(c)) : f = FrontFault(l, v)
    BY <1>7, <2>1
  <2>3. Len(ds) = 1 /\ c \in Range(ds)
    BY <1>2, <1>7, <2>1, OnlyDest
  <2>4. v \in {0, 1}
    BY <1>3, <2>3, FrontValues
  <2>5. f.line = l /\ f.stuck_at = v
    BY <2>2 DEF FrontFault, TgFault
  <2>6. Placed(f, FrontKey(g, v), {<<ReaderOf(c), c.idx>>})
    BY <1>1, <1>2, <1>7, <2>1, <2>2, <2>4, TgKeys
  <2>7. AtFront(l, v, c, KeyOf(graph, f), TgSite(f))
    BY <1>1, <1>2, <1>7, <2>1, <2>3, <2>6 DEF Placed, AtFront
  <2> QED BY <2>2, <2>4, <2>5, <2>7 DEF Shape
<1> QED BY <1>2, <1>4, <1>5, <1>6, <1>7 DEF FaultOf

LEMMA KindsAre ==
  ASSUME GraphRead, GraphFits, NEW l \in NamedLines(graph), NEW f, FaultOf(l, f)
  PROVE  KindOf(l, f)
BY ShapesAre DEF Shape, KindOf, Kind

\* What is called alike is the same fault.
LEMMA SameSite ==
  ASSUME Split, OneRead, GraphRead, GraphFits, NEW a \in DOMAIN gates, NEW l \in NamedLines(graph),
         NEW v, NEW x, NEW site, Kind(l, v, GateKey(a, x), site)
  PROVE  site = SiteOf(a) /\ v = x
<1>1. PICK g \in Originals : g = GateOf(l)
  BY DEF GraphFits
<1>2. /\ Originals = 1 .. Size /\ LineFits(l, g) /\ \A b \in Originals : b \in DOMAIN gates
      /\ HasFanoutBranches(graph.lines[l]) <=> gates[g].is_stem
      /\ ~gates[g].is_stem => (graph.lines[l].is_output <=> gates[g].isPO)
  BY <1>1, SplitFacts, BranchingMeans DEF GraphFits
<1>3. LineBranches(l) <=> gates[g].is_stem \/ gates[g].isPO
  <2>1. CASE gates[g].is_stem
    BY <1>2, <2>1 DEF LineBranches
  <2>2. CASE ~gates[g].is_stem
    BY <1>2, <2>2 DEF LineBranches
  <2> QED BY <2>1, <2>2
<1>4. \A b, c, d : <<b>> # <<c, d>>
  <2> SUFFICES ASSUME NEW b, NEW c, NEW d, <<b>> = <<c, d>> PROVE FALSE
    OBVIOUS
  <2>1. Len(<<b>>) = 1 /\ Len(<<c, d>>) = 2
    OBVIOUS
  <2> QED BY <2>1
<1>5. \A b, c : <<b>> = <<c>> => b = c
  OBVIOUS
<1>6. \A b, c, d, e : <<b, c>> = <<d, e>> => b = d /\ c = e
  OBVIOUS
<1>7. PICK key : key = GateKey(a, x)
  OBVIOUS
<1>8. CASE ~IsLine(a)
  <2>1. a \in Originals /\ SiteOf(a) = Wires(file, a)
    <3>1. a \in Originals
      BY <1>8, SplitFacts
    <3> QED BY <3>1, SitesOfGates
  <2>2. CASE gates[a].is_stem \/ gates[a].isPO
    <3>1. key = StemKey(<<a>>, x)
      BY <1>7, <1>8, <2>2 DEF GateKey
    <3>2. CASE AtStem(l, v, key, site)
      <4>1. key = StemKey(<<g>>, v) /\ site = Wires(file, g)
        BY <1>1, <3>2 DEF AtStem
      <4>2. <<g>> = <<a>> /\ v = x
        <5>1. StemKey(<<g>>, v) = StemKey(<<a>>, x)
          BY <3>1, <4>1
        <5> QED BY <5>1, KeysAlike
      <4> QED BY <1>5, <2>1, <4>1, <4>2
    <3>3. CASE AtOutput(l, v, key, site)
      BY <3>1, <3>3, Zenon, KeysDiffer DEF AtOutput
    <3>4. CASE \E c : AtBranch(l, v, c, key, site)
      BY <3>1, <3>4, Zenon, KeysDiffer DEF AtBranch
    <3>5. CASE \E c : AtFront(l, v, c, key, site)
      <4>1. key = FrontKey(g, v) /\ ~LineBranches(l)
        BY <1>1, <3>5 DEF AtFront
      <4>2. <<g>> = <<a>>
        <5>1. FrontKey(g, v) = StemKey(<<a>>, x)
          BY <3>1, <4>1
        <5> QED BY <5>1, KeysAlike
      <4>3. g = a
        BY <1>5, <4>2
      <4> QED BY <1>3, <2>2, <4>1, <4>3
    <3> QED BY <1>7, <3>2, <3>3, <3>4, <3>5 DEF Kind
  <2>3. CASE ~(gates[a].is_stem \/ gates[a].isPO)
    <3>1. key = FrontKey(a, x)
      BY <1>7, <1>8, <2>3 DEF GateKey
    <3>2. key.name = <<a>> /\ key.stuck_at = x /\ \A m, w : key # OutKey(m, w)
      BY <3>1, KeyNames, KeysDiffer
    <3>3. CASE AtStem(l, v, key, site)
      <4>1. key = StemKey(<<g>>, v) /\ LineBranches(l)
        BY <1>1, <3>3 DEF AtStem
      <4>2. g = a
        <5>1. FrontKey(a, x) = StemKey(<<g>>, v)
          BY <3>1, <4>1
        <5>2. <<a>> = <<g>>
          BY <5>1, KeysAlike
        <5> QED BY <1>5, <5>2
      <4> QED BY <1>3, <2>3, <4>1, <4>2
    <3>4. CASE AtOutput(l, v, key, site)
      BY <3>2, <3>4 DEF AtOutput
    <3>5. CASE \E c : AtBranch(l, v, c, key, site)
      <4>1. PICK c : AtBranch(l, v, c, key, site)
        BY <3>5
      <4>2. /\ LineBranches(l)
            /\ key = PlainKey(IF Lone(l) THEN <<g>> ELSE <<g, ReaderOf(c)>>, v)
        BY <1>1, <4>1 DEF AtBranch
      <4>3. <<a>> = IF Lone(l) THEN <<g>> ELSE <<g, ReaderOf(c)>>
        <5>1. PICK n : n = IF Lone(l) THEN <<g>> ELSE <<g, ReaderOf(c)>>
          OBVIOUS
        <5>2. FrontKey(a, x) = PlainKey(n, v)
          BY <3>1, <4>2, <5>1
        <5>3. <<a>> = n
          BY <5>2, KeysAlike
        <5> QED BY <5>1, <5>3
      <4>4. g = a
        BY <1>4, <1>5, <4>3
      <4> QED BY <1>3, <2>3, <4>2, <4>4
    <3>6. CASE \E c : AtFront(l, v, c, key, site)
      <4>1. PICK c : AtFront(l, v, c, key, site)
        BY <3>6
      <4>2. key = FrontKey(g, v) /\ site = {<<ReaderOf(c), c.idx>>} /\ FitsPin(c, g)
        BY <1>1, <1>2, <4>1 DEF AtFront, LineFits
      <4>3. <<g>> = <<a>> /\ v = x
        <5>1. FrontKey(g, v) = FrontKey(a, x)
          BY <3>1, <4>2
        <5> QED BY <5>1, KeysAlike
      <4>4. g = a
        BY <1>5, <4>3
      <4>5. <<ReaderOf(c), c.idx>> \in Wires(file, g)
        <5>1. LegalNetlist(file, Size)
          BY SplitFacts, NetlistsAreLegal
        <5>2. PICK r \in Originals : r = ReaderOf(c)
          BY <4>2 DEF FitsPin
        <5>3. PICK k \in DOMAIN file.ins[r] : k = c.idx /\ file.ins[r][k] = g
          BY <4>2, <5>2 DEF FitsPin
        <5>4. <<r, k>> \in Wires(file, g)
          BY <1>2, <5>1, <5>3, WiresAre
        <5> QED BY <5>2, <5>3, <5>4
      <4>6. \A w \in Wires(file, g) : w = <<ReaderOf(c), c.idx>>
        BY <2>3, <4>4, <4>5, StemWires
      <4>7. Wires(file, g) = {<<ReaderOf(c), c.idx>>}
        BY <4>5, <4>6
      <4> QED BY <2>1, <4>2, <4>3, <4>4, <4>7
    <3> QED BY <1>7, <3>3, <3>4, <3>5, <3>6 DEF Kind
  <2> QED BY <2>2, <2>3
<1>9. CASE IsLine(a)
  <2>1. PICK h \in Originals : h = gates[a].fanins[1] /\ Stands(a, h) /\ a > Size
    <3>1. a > Size
      BY <1>9, SplitFacts DEF Split, IInv, LinesFollow
    <3>2. Stands(a, gates[a].fanins[1])
      BY <3>1, LinesStand
    <3> QED BY <3>1, <3>2 DEF Stands
  <2>2. CASE gates[a].isPO
    <3>1. gates[a].name = <<h, 0>> /\ key = OutKey(<<h, 0>>, x) /\ SiteOf(a) = {<<0, h>>}
      BY <1>7, <1>9, <2>1, <2>2, SitesOfOutputs DEF Stands, GateKey
    <3>2. CASE AtStem(l, v, key, site)
      BY <3>1, <3>2, Zenon, KeysDiffer DEF AtStem
    <3>3. CASE AtOutput(l, v, key, site)
      <4>1. /\ key = OutKey(IF Lone(l) THEN <<g>> ELSE <<g, 0>>, v)
            /\ site = {<<0, g>>}
        BY <1>1, <3>3 DEF AtOutput
      <4>2. <<h, 0>> = (IF Lone(l) THEN <<g>> ELSE <<g, 0>>) /\ v = x
        <5>1. PICK n : n = IF Lone(l) THEN <<g>> ELSE <<g, 0>>
          OBVIOUS
        <5>2. OutKey(<<h, 0>>, x) = OutKey(n, v)
          BY <3>1, <4>1, <5>1
        <5>3. <<h, 0>> = n /\ x = v
          BY <5>2, KeysAlike
        <5> QED BY <5>1, <5>3
      <4>3. g = h
        BY <1>4, <1>6, <4>2
      <4> QED BY <3>1, <4>1, <4>2, <4>3
    <3>4. CASE \E c : AtBranch(l, v, c, key, site)
      BY <3>1, <3>4, Zenon, KeysDiffer DEF AtBranch
    <3>5. CASE \E c : AtFront(l, v, c, key, site)
      BY <3>1, <3>5, Zenon, KeysDiffer DEF AtFront
    <3> QED BY <1>7, <3>2, <3>3, <3>4, <3>5 DEF Kind
  <2>3. CASE ~gates[a].isPO
    <3>1. PICK r \in Originals : /\ r = gates[a].fanouts[1] /\ gates[a].name = <<h, r>>
      BY <2>1, <2>3 DEF Stands
    <3>2. key = PlainKey(<<h, r>>, x) /\ LineTo(a, h, r)
      BY <1>7, <1>9, <2>1, <2>3, <3>1 DEF GateKey, LineTo
    <3>3. CASE AtStem(l, v, key, site)
      BY <3>2, <3>3, Zenon, KeysDiffer DEF AtStem
    <3>4. CASE AtOutput(l, v, key, site)
      BY <3>2, <3>4, Zenon, KeysDiffer DEF AtOutput
    <3>5. CASE \E c : AtBranch(l, v, c, key, site)
      <4>1. PICK c : AtBranch(l, v, c, key, site)
        BY <3>5
      <4>2. /\ site = {<<ReaderOf(c), c.idx>>} /\ FitsPin(c, g)
            /\ key = PlainKey(IF Lone(l) THEN <<g>> ELSE <<g, ReaderOf(c)>>, v)
        BY <1>1, <1>2, <4>1 DEF AtBranch, LineFits
      <4>3. (IF Lone(l) THEN <<g>> ELSE <<g, ReaderOf(c)>>) = <<h, r>> /\ v = x
        <5>1. PICK n : n = IF Lone(l) THEN <<g>> ELSE <<g, ReaderOf(c)>>
          OBVIOUS
        <5>2. PlainKey(<<h, r>>, x) = PlainKey(n, v)
          BY <3>2, <4>2, <5>1
        <5>3. <<h, r>> = n /\ x = v
          BY <5>2, KeysAlike
        <5> QED BY <5>1, <5>3
      <4>4. g = h /\ ReaderOf(c) = r
        BY <1>4, <1>6, <4>3
      <4>5. PICK k : k = c.idx
        OBVIOUS
      <4>6. k \in DOMAIN file.ins[r] /\ file.ins[r][k] = h
        BY <4>2, <4>4, <4>5 DEF FitsPin
      <4>7. SiteOf(a) = {<<r, k>>}
        BY <3>2, <4>6, SitesOfBranches
      <4> QED BY <4>2, <4>3, <4>4, <4>5, <4>7
    <3>6. CASE \E c : AtFront(l, v, c, key, site)
      <4>1. key = FrontKey(g, v)
        BY <1>1, <3>6 DEF AtFront
      <4>2. <<g>> = <<h, r>>
        <5>1. FrontKey(g, v) = PlainKey(<<h, r>>, x)
          BY <3>2, <4>1
        <5> QED BY <5>1, KeysAlike
      <4> QED BY <1>4, <4>2
    <3> QED BY <1>7, <3>3, <3>4, <3>5, <3>6 DEF Kind
  <2> QED BY <2>2, <2>3
<1> QED BY <1>8, <1>9

------------------------------------------------------------------------------
\* The faults of tg-pro's list, and the progress of sat_atpg_init: the lines walked so
\* far, the faults named so far.
IsTgFault(f) == \E l \in NamedLines(graph) : FaultOf(l, f)

FaultOfLine(l, n, f) == l < n /\ FaultOf(l, f)

Managing ==
  /\ m_faults \in Seq(TgFaults) /\ IsInjective(m_faults)
  /\ \A f : f \in Range(m_faults) <=> \E l \in NamedLines(graph) : FaultOfLine(l, at, f)

Managed ==
  /\ m_faults \in Seq(TgFaults) /\ IsInjective(m_faults)
  /\ \A f : f \in Range(m_faults) <=> IsTgFault(f)

NamedBefore(key, n) == \E m \in DOMAIN m_faults : m < n /\ KeyOf(graph, m_faults[m]) = key

Naming == \A key : key \in DOMAIN fault_map <=> NamedBefore(key, at)

Entered ==
  \A key \in DOMAIN fault_map : IsTgFault(fault_map[key]) /\ KeyOf(graph, fault_map[key]) = key

Named == \A key : key \in DOMAIN fault_map <=> \E f : IsTgFault(f) /\ KeyOf(graph, f) = key

\* The answer to the last question.
Answered ==
  /\ phase \in {"lines", "manager", "names", "list"} => asked = <<>>
  /\ phase = "search" =>
       \/ asked = <<>>
       \/ \E f \in AllFaults : f.key \in DOMAIN fault_map /\ asked = <<f, fault_map[f.key]>>
  /\ phase = "abort" => asked = <<>> \/ \E f : asked = <<f>>

TgInv ==
  /\ phase = "lines" => at = 1 /\ m_faults = <<>>
  /\ phase \in {"lines", "manager"} => fault_map = <<>>
  /\ phase \in {"manager", "names", "list", "search"} => GraphRead
  /\ phase = "manager" => Managing
  /\ phase = "names" => Managed /\ Naming
  /\ phase \in {"names", "list", "search"} => Entered
  /\ phase \in {"list", "search"} => Named
  /\ phase = "search" => t_faults \in Seq(AllFaults)
  /\ Answered

\* What the file and the graph say does not change.
LEMMA SameGraph ==
  ASSUME UNCHANGED <<file, graph>>
  PROVE  /\ GraphRead' = GraphRead
         /\ \A f : IsTgFault(f)' = IsTgFault(f)
         /\ \A f : KeyOf(graph, f)' = KeyOf(graph, f)
         /\ \A l, n, f : FaultOfLine(l, n, f)' = FaultOfLine(l, n, f)
         /\ NamedLines(graph)' = NamedLines(graph)
<1>1. \A l, f : FaultOf(l, f)' = FaultOf(l, f)
  BY DEF FaultOf, LineBranches, StemFault, OutputFault, BranchFault, FrontFault, FrontType
<1>2. GraphRead' = GraphRead
  BY DEF GraphRead, Size, Originals
<1>3. NamedLines(graph)' = NamedLines(graph)
  OBVIOUS
<1>4. \A f : KeyOf(graph, f)' = KeyOf(graph, f)
  OBVIOUS
<1>5. \A f : IsTgFault(f)' = IsTgFault(f)
  BY <1>1, <1>3 DEF IsTgFault
<1>6. \A l, n, f : FaultOfLine(l, n, f)' = FaultOfLine(l, n, f)
  BY <1>1 DEF FaultOfLine
<1> QED BY <1>2, <1>3, <1>4, <1>5, <1>6

LEMMA LineNumbers ==
  ASSUME GraphRead, GraphFits
  PROVE  /\ DOMAIN graph.lines = 1 .. Len(graph.lines) /\ Len(graph.lines) \in Nat
         /\ \A l : l \in NamedLines(graph) <=> l \in DOMAIN graph.lines /\ Walked(graph, l)
         /\ NamedLines(graph) \subseteq Nat
<1>1. DOMAIN graph.lines = 1 .. Len(graph.lines) /\ Len(graph.lines) \in Nat
  <2>1. graph \in GraphType(Seq(Nat))
    BY GraphFacts DEF GraphSound
  <2> QED BY <2>1, GraphParts
<1>2. \A l : l \in NamedLines(graph) <=> l \in DOMAIN graph.lines /\ Walked(graph, l)
  BY DEF NamedLines, Walked
<1> QED BY <1>1, <1>2

LEMMA AddLineKeeps ==
  ASSUME NInv, TgInv, AddLineFaults
  PROVE  TgInv'
<1>1. /\ phase = "manager" /\ UNCHANGED <<vars, graph, fault_map, t_faults, asked>>
      /\ at \in Nat /\ at >= 1 /\ asked = <<>> /\ fault_map = <<>>
  BY DEF AddLineFaults, NInv, Listing, TgInv
<1>2. GraphRead /\ Managing /\ GraphFits
  BY <1>1, GraphFitsFile DEF TgInv
<1>3. UNCHANGED <<file, graph, fault_map, asked>>
  BY <1>1 DEF vars
<1>4. /\ GraphRead' /\ NamedLines(graph)' = NamedLines(graph)
      /\ \A f : IsTgFault(f)' = IsTgFault(f)
      /\ \A l, n, f : FaultOfLine(l, n, f)' = FaultOfLine(l, n, f)
  BY <1>2, <1>3, SameGraph
<1>5. /\ DOMAIN graph.lines = 1 .. Len(graph.lines) /\ Len(graph.lines) \in Nat
      /\ \A l : l \in NamedLines(graph) <=> l \in DOMAIN graph.lines /\ Walked(graph, l)
      /\ NamedLines(graph) \subseteq Nat
  BY <1>2, LineNumbers
<1>6. PICK s \in Seq(TgFaults) : s = m_faults
  BY <1>2 DEF Managing
<1>7. IsInjective(s) /\ \A f : f \in Range(s) <=> \E l \in NamedLines(graph) : FaultOfLine(l, at, f)
  BY <1>2, <1>6 DEF Managing
<1>8. CASE at \in DOMAIN graph.lines /\ Walked(graph, at) /\ LeadsNowhere(graph.lines[at])
  <2>1. phase' = "abort"
    BY <1>8 DEF AddLineFaults
  <2> QED BY <1>1, <2>1 DEF TgInv, Answered
<1>9. CASE at \in DOMAIN graph.lines /\ Walked(graph, at) /\ ~LeadsNowhere(graph.lines[at])
  <2>1. phase' = "manager" /\ at' = at + 1 /\ m_faults' = s \o LineFaults(graph, at)
    BY <1>1, <1>6, <1>9 DEF AddLineFaults
  <2>2. at \in NamedLines(graph)
    BY <1>5, <1>9
  <2>3. PICK t \in Seq(TgFaults) : t = LineFaults(graph, at)
    BY <1>2, <2>2, LineFaultsAre
  <2>4. IsInjective(t) /\ \A f : f \in Range(t) <=> FaultOf(at, f)
    BY <1>2, <2>2, <2>3, LineFaultsAre
  <2>5. \A f \in Range(s) : f \notin Range(t)
    <3> SUFFICES ASSUME NEW f \in Range(s), f \in Range(t) PROVE FALSE
      OBVIOUS
    <3>1. PICK l \in NamedLines(graph) : FaultOfLine(l, at, f)
      BY <1>7
    <3>2. l < at /\ FaultOf(l, f) /\ FaultOf(at, f)
      BY <2>4, <3>1 DEF FaultOfLine
    <3>3. f.line = l
      BY <1>2, <3>2, KindsAre DEF KindOf
    <3>4. f.line = at
      BY <1>2, <2>2, <3>2, KindsAre DEF KindOf
    <3> QED BY <1>1, <3>2, <3>3, <3>4
  <2>6. PICK u : u = s \o t
    OBVIOUS
  <2>7. IsInjective(u)
    BY <1>7, <2>4, <2>5, <2>6, JoinedInjective
  <2>8. u \in Seq(TgFaults) /\ \A f : f \in Range(u) <=> f \in Range(s) \/ f \in Range(t)
    BY <2>6, JoinedRange
  <2>9. PICK n : n = at + 1
    OBVIOUS
  <2>10. \A f : f \in Range(u) <=> \E l \in NamedLines(graph) : FaultOfLine(l, n, f)
    <3>1. ASSUME NEW f, NEW l \in NamedLines(graph), FaultOfLine(l, n, f)
          PROVE  f \in Range(u)
      <4>1. l < at \/ l = at
        BY <1>1, <1>5, <2>9, <3>1 DEF FaultOfLine
      <4>2. CASE l < at
        <5>1. FaultOfLine(l, at, f)
          BY <3>1, <4>2 DEF FaultOfLine
        <5> QED BY <1>7, <2>8, <5>1
      <4>3. CASE l = at
        BY <2>4, <2>8, <3>1, <4>3 DEF FaultOfLine
      <4> QED BY <4>1, <4>2, <4>3
    <3>2. ASSUME NEW f \in Range(s) PROVE \E l \in NamedLines(graph) : FaultOfLine(l, n, f)
      <4>1. PICK l \in NamedLines(graph) : FaultOfLine(l, at, f)
        BY <1>7
      <4>2. FaultOfLine(l, n, f)
        BY <1>1, <1>5, <2>9, <4>1 DEF FaultOfLine
      <4> QED BY <4>2
    <3>3. ASSUME NEW f \in Range(t) PROVE \E l \in NamedLines(graph) : FaultOfLine(l, n, f)
      <4>1. FaultOfLine(at, n, f)
        BY <1>1, <2>4, <2>9 DEF FaultOfLine
      <4> QED BY <2>2, <4>1
    <3> QED BY <2>8, <3>1, <3>2, <3>3
  <2>11. m_faults' = u /\ at' = n
    BY <2>1, <2>3, <2>6, <2>9
  <2>12. Managing'
    <3>1. \A f : f \in Range(u) <=> \E l \in NamedLines(graph)' : FaultOfLine(l, n, f)'
      BY <1>4, <2>10
    <3> QED BY <2>7, <2>8, <2>11, <3>1 DEF Managing
  <2> QED BY <1>1, <1>4, <2>1, <2>12 DEF TgInv, Answered
<1>10. CASE at \in DOMAIN graph.lines /\ ~Walked(graph, at)
  <2>1. phase' = "manager" /\ at' = at + 1 /\ m_faults' = s \o <<>>
    BY <1>1, <1>6, <1>10 DEF AddLineFaults
  <2>2. m_faults' = s
    <3>1. s \o <<>> = s
      OBVIOUS
    <3> QED BY <2>1, <3>1
  <2>3. PICK n : n = at + 1
    OBVIOUS
  <2>4. \A l \in NamedLines(graph) : l < n <=> l < at
    <3> SUFFICES ASSUME NEW l \in NamedLines(graph) PROVE l < n <=> l < at
      OBVIOUS
    <3>1. l # at /\ l \in Nat
      BY <1>5, <1>10
    <3> QED BY <1>1, <2>3, <3>1
  <2>5. \A f : f \in Range(s) <=> \E l \in NamedLines(graph) : FaultOfLine(l, n, f)
    BY <1>7, <2>4 DEF FaultOfLine
  <2>6. Managing'
    <3>1. \A f : f \in Range(s) <=> \E l \in NamedLines(graph)' : FaultOfLine(l, n, f)'
      BY <1>4, <2>5
    <3> QED BY <1>7, <2>1, <2>2, <2>3, <3>1 DEF Managing
  <2> QED BY <1>1, <1>4, <2>1, <2>6 DEF TgInv, Answered
<1>11. CASE at \notin DOMAIN graph.lines
  <2>1. phase' = "names" /\ at' = 1 /\ m_faults' = m_faults
    BY <1>11 DEF AddLineFaults
  <2>2. \A l \in NamedLines(graph) : l < at
    <3> SUFFICES ASSUME NEW l \in NamedLines(graph) PROVE l < at
      OBVIOUS
    <3>1. l \in 1 .. Len(graph.lines)
      BY <1>5
    <3> QED BY <1>1, <1>5, <1>11, <3>1
  <2>3. \A f : f \in Range(s) <=> IsTgFault(f)
    BY <1>7, <2>2 DEF FaultOfLine, IsTgFault
  <2>4. Managed'
    <3>1. \A f : f \in Range(s) <=> IsTgFault(f)'
      BY <1>4, <2>3
    <3> QED BY <1>6, <1>7, <2>1, <3>1 DEF Managed
  <2>5. fault_map' = <<>> /\ DOMAIN <<>> = {}
    BY <1>1
  <2>6. Naming'
    <3>1. DOMAIN s \subseteq Nat \ {0}
      BY SeqElements
    <3>2. \A key : ~NamedBefore(key, 1)'
      <4> SUFFICES ASSUME NEW m \in DOMAIN s, m < 1 PROVE FALSE
        BY <1>6, <2>1 DEF NamedBefore
      <4>1. m \in Nat \ {0}
        BY <3>1
      <4> QED BY <4>1
    <3> QED BY <2>1, <2>5, <3>2 DEF Naming, NamedBefore
  <2>7. Entered'
    BY <2>5 DEF Entered
  <2> QED BY <1>1, <1>4, <2>1, <2>4, <2>6, <2>7 DEF TgInv, Answered
<1> QED BY <1>8, <1>9, <1>10, <1>11

LEMMA NameFaultKeeps ==
  ASSUME NInv, TgInv, NameFault
  PROVE  TgInv'
<1>1. /\ phase = "names" /\ UNCHANGED <<vars, graph, m_faults, t_faults, asked>>
      /\ at \in Nat /\ at >= 1 /\ asked = <<>>
  BY DEF NameFault, NInv, Listing
<1>2. GraphRead /\ Managed /\ Naming /\ Entered
  BY <1>1 DEF TgInv
<1>3. UNCHANGED <<file, graph, m_faults, asked>>
  BY <1>1 DEF vars
<1>4. /\ GraphRead' /\ \A f : IsTgFault(f)' = IsTgFault(f)
      /\ \A f : KeyOf(graph, f)' = KeyOf(graph, f)
  BY <1>2, <1>3, SameGraph
<1>5. Managed'
  BY <1>2, <1>3, <1>4 DEF Managed
<1>6. /\ m_faults \in Seq(TgFaults) /\ DOMAIN m_faults = 1 .. Len(m_faults) /\ Len(m_faults) \in Nat
      /\ \A m \in DOMAIN m_faults : IsTgFault(m_faults[m])
  <2>1. m_faults \in Seq(TgFaults) /\ \A f : f \in Range(m_faults) <=> IsTgFault(f)
    BY <1>2 DEF Managed
  <2>2. DOMAIN m_faults = 1 .. Len(m_faults) /\ Len(m_faults) \in Nat
    BY <2>1, SeqElements
  <2> QED BY <2>1, <2>2 DEF Range
<1>7. CASE at \in DOMAIN m_faults
  <2>1. PICK key : key = KeyOf(graph, m_faults[at])
    OBVIOUS
  <2>2. /\ phase' \in {"names", "abort"} /\ at' = at + 1
        /\ fault_map' = [k \in DOMAIN fault_map \cup {key} |->
                           IF k = key THEN m_faults[at] ELSE fault_map[k]]
    BY <1>1, <1>7, <2>1 DEF NameFault
  <2>3. /\ DOMAIN fault_map' = DOMAIN fault_map \cup {key} /\ fault_map'[key] = m_faults[at]
        /\ \A k \in DOMAIN fault_map : k # key => fault_map'[k] = fault_map[k]
    BY <2>2
  <2>4. PICK n : n = at + 1
    OBVIOUS
  <2>5. \A k : NamedBefore(k, n)' <=> NamedBefore(k, at) \/ k = key
    <3>1. ASSUME NEW k, NEW m \in DOMAIN m_faults, m < n, KeyOf(graph, m_faults[m]) = k
          PROVE  NamedBefore(k, at) \/ k = key
      <4>1. m < at \/ m = at
        BY <1>1, <1>6, <2>4, <3>1
      <4> QED BY <2>1, <3>1, <4>1 DEF NamedBefore
    <3>2. ASSUME NEW k, NEW m \in DOMAIN m_faults, m < at, KeyOf(graph, m_faults[m]) = k
          PROVE  NamedBefore(k, n)
      <4>1. m < n
        BY <1>1, <1>6, <2>4, <3>2
      <4> QED BY <3>2, <4>1 DEF NamedBefore
    <3>3. NamedBefore(key, n)
      <4>1. at < n
        BY <1>1, <2>4
      <4> QED BY <1>7, <2>1, <4>1 DEF NamedBefore
    <3>4. \A k : NamedBefore(k, n) <=> NamedBefore(k, at) \/ k = key
      BY <3>1, <3>2, <3>3 DEF NamedBefore
    <3>5. \A k : NamedBefore(k, n)' <=> NamedBefore(k, n)
      BY <1>3, <1>4 DEF NamedBefore
    <3> QED BY <3>4, <3>5
  <2>6. Naming'
    <3>1. \A k : k \in DOMAIN fault_map' <=> NamedBefore(k, n)'
      BY <1>2, <2>3, <2>5 DEF Naming
    <3> QED BY <2>2, <2>4, <3>1 DEF Naming, NamedBefore
  <2>7. Entered'
    <3>0. PICK fm : fm = fault_map'
      OBVIOUS
    <3>1. ASSUME NEW k \in DOMAIN fm
          PROVE  IsTgFault(fm[k]) /\ KeyOf(graph, fm[k]) = k
      <4>1. CASE k = key
        BY <1>6, <1>7, <2>1, <2>3, <3>0, <4>1
      <4>2. CASE k # key
        BY <1>2, <2>3, <3>0, <3>1, <4>2 DEF Entered
      <4> QED BY <4>1, <4>2
    <3>2. \A k \in DOMAIN fm : IsTgFault(fm[k])' /\ KeyOf(graph, fm[k])' = k
      BY <1>4, <3>1
    <3> QED BY <3>0, <3>2 DEF Entered
  <2> QED BY <1>1, <1>4, <1>5, <2>2, <2>6, <2>7 DEF TgInv, Answered
<1>8. CASE at \notin DOMAIN m_faults
  <2>1. phase' = "list" /\ fault_map' = fault_map
    BY <1>8 DEF NameFault
  <2>2. \A m \in DOMAIN m_faults : m < at
    BY <1>1, <1>6, <1>8
  <2>3. Named'
    <3>1. ASSUME NEW k, k \in DOMAIN fault_map PROVE \E f : IsTgFault(f) /\ KeyOf(graph, f) = k
      BY <1>2, <3>1 DEF Entered
    <3>2. ASSUME NEW k, NEW f, IsTgFault(f), KeyOf(graph, f) = k PROVE k \in DOMAIN fault_map
      <4>1. PICK m \in DOMAIN m_faults : m_faults[m] = f
        BY <1>2, <3>2 DEF Managed, Range
      <4> QED BY <1>2, <2>2, <3>2, <4>1 DEF Naming, NamedBefore
    <3>3. \A k : k \in DOMAIN fault_map <=> \E f : IsTgFault(f) /\ KeyOf(graph, f) = k
      BY <3>1, <3>2
    <3>4. \A k : k \in DOMAIN fault_map' <=> \E f : IsTgFault(f)' /\ KeyOf(graph, f)' = k
      BY <1>4, <2>1, <3>3
    <3> QED BY <3>4 DEF Named
  <2>4. Entered'
    BY <1>2, <1>4, <2>1 DEF Entered
  <2> QED BY <1>1, <1>4, <2>1, <2>3, <2>4 DEF TgInv, Answered
<1> QED BY <1>7, <1>8

\* A step that leaves the graph, the file and fault_map alone.
LEMMA KeepsTg ==
  ASSUME UNCHANGED <<file, gates, graph, m_faults, fault_map>>
  PROVE  /\ GraphRead' = GraphRead /\ Managed' = Managed
         /\ Entered' = Entered /\ Named' = Named /\ AllFaults' = AllFaults
         /\ at' = at => Managing' = Managing /\ Naming' = Naming
<1>1. /\ GraphRead' = GraphRead
      /\ \A f : IsTgFault(f)' = IsTgFault(f)
      /\ \A f : KeyOf(graph, f)' = KeyOf(graph, f)
      /\ \A l, n, f : FaultOfLine(l, n, f)' = FaultOfLine(l, n, f)
      /\ NamedLines(graph)' = NamedLines(graph)
  BY SameGraph
<1>2. AllFaults' = AllFaults
  BY SameFaults
<1>3. Managed' = Managed
  BY <1>1 DEF Managed
<1>4. Entered' = Entered
  BY <1>1 DEF Entered
<1>5. Named' = Named
  BY <1>1 DEF Named
<1>6. ASSUME at' = at PROVE Managing' = Managing
  BY <1>1, <1>6 DEF Managing
<1>7. ASSUME at' = at PROVE Naming' = Naming
  <2>1. \A k, n : NamedBefore(k, n)' = NamedBefore(k, n)
    BY <1>1 DEF NamedBefore
  <2>2. \A k : NamedBefore(k, at)' = NamedBefore(k, at)
    BY <1>1, <1>7 DEF NamedBefore
  <2> QED BY <2>2 DEF Naming
<1> QED BY <1>1, <1>2, <1>3, <1>4, <1>5, <1>6, <1>7

LEMMA NamesInitHasTgInv == NamesInit => TgInv
BY DEF NamesInit, TgInv, Answered

LEMMA LinesNumbered == GraphRead => NamedLines(graph) \subseteq Nat \ {0}
<1> SUFFICES ASSUME GraphRead PROVE NamedLines(graph) \subseteq Nat \ {0}
  OBVIOUS
<1>1. /\ DOMAIN graph.lines = 1 .. Len(graph.lines) /\ Len(graph.lines) \in Nat
      /\ \A l : l \in NamedLines(graph) <=> l \in DOMAIN graph.lines /\ Walked(graph, l)
  BY GraphFitsFile, LineNumbers
<1> QED BY <1>1

LEMMA LinesNumberedNext == GraphRead' => (NamedLines(graph) \subseteq Nat \ {0})'
BY LinesNumbered, PTL

LEMMA NamesNextKeepsTgInv == NInv /\ TgInv /\ [NamesNext]_fvars => TgInv'
<1> SUFFICES ASSUME NInv, TgInv, [NamesNext]_fvars PROVE TgInv'
  OBVIOUS
<1>1. CASE SplitStems
  BY <1>1 DEF SplitStems, TgInv, Answered
<1>2. CASE ParseGraph
  <2>1. /\ phase = "lines" /\ phase' = "manager" /\ pc = "done" /\ graph' = GraphOf(Statements(file))
        /\ UNCHANGED <<vars, at, m_faults, fault_map, t_faults, asked>>
    BY <1>2 DEF ParseGraph
  <2>2. Split /\ at = 1 /\ m_faults = <<>> /\ fault_map = <<>> /\ asked = <<>>
    BY <2>1 DEF NInv, Lined, Split, TgInv, Listing
  <2>3. file' = file
    BY <2>1 DEF vars
  <2>4. GraphRead'
    <3>1. file \in Netlists /\ Size = Len(file.ins) /\ Size \in Nat /\ Originals = 1 .. Size
      BY <2>2, SplitFacts
    <3> QED BY <2>1, <2>3, <3>1 DEF GraphRead, Size, Originals
  <2>5. Managing'
    <3>1. (NamedLines(graph) \subseteq Nat \ {0})'
      BY <2>4, LinesNumberedNext
    <3>2. <<>> \in Seq(TgFaults) /\ IsInjective(<<>>) /\ Range(<<>>) = {}
      BY DEF IsInjective, Range
    <3>3. \A l \in NamedLines(graph)' : ~(l < 1)
      BY <3>1
    <3>4. at' = 1 /\ m_faults' = <<>>
      BY <2>1, <2>2
    <3>5. \A f : ~\E l \in NamedLines(graph)' : FaultOfLine(l, 1, f)'
      BY <3>3 DEF FaultOfLine
    <3> QED BY <3>2, <3>4, <3>5 DEF Managing, FaultOfLine
  <2> QED BY <2>1, <2>2, <2>4, <2>5 DEF TgInv, Answered
<1>3. CASE AddLineFaults
  BY <1>3, AddLineKeeps
<1>4. CASE NameFault
  BY <1>4, NameFaultKeeps
<1>5. CASE ListGate
  <2>1. /\ phase = "list" /\ phase' \in {"list", "search", "abort"}
        /\ UNCHANGED <<vars, graph, m_faults, fault_map, asked>>
        /\ phase' = "search" => t_faults' = t_faults
    BY <1>5 DEF ListGate
  <2>2. UNCHANGED <<file, gates, graph, m_faults, fault_map>>
    BY <2>1 DEF vars
  <2>3. t_faults \in Seq(AllFaults) /\ asked = <<>>
    BY <2>1 DEF NInv, Listing
  <2>4. GraphRead' = GraphRead /\ Entered' = Entered /\ Named' = Named /\ AllFaults' = AllFaults
    BY <2>2, KeepsTg
  <2> QED BY <2>1, <2>3, <2>4 DEF TgInv, Answered
<1>6. CASE Ask
  <2>1. /\ phase = "search" /\ phase' \in {"search", "abort"}
        /\ UNCHANGED <<vars, graph, at, m_faults, fault_map, t_faults>>
        /\ \E f \in Range(t_faults) :
             IF f.key \in DOMAIN fault_map THEN asked' = <<f, fault_map[f.key]>> /\ phase' = "search"
             ELSE asked' = <<f>> /\ phase' = "abort"
    BY <1>6 DEF Ask
  <2>2. UNCHANGED <<file, gates, graph, m_faults, fault_map>>
    BY <2>1 DEF vars
  <2>3. GraphRead' = GraphRead /\ Entered' = Entered /\ Named' = Named /\ AllFaults' = AllFaults
    BY <2>2, KeepsTg
  <2>4. \A f \in Range(t_faults) : f \in AllFaults
    <3>1. t_faults \in Seq(AllFaults)
      BY <2>1 DEF TgInv
    <3> QED BY <3>1, SeqElements DEF Range
  <2>5. Answered'
    <3>1. PICK f \in Range(t_faults) :
            IF f.key \in DOMAIN fault_map THEN asked' = <<f, fault_map[f.key]>> /\ phase' = "search"
            ELSE asked' = <<f>> /\ phase' = "abort"
      BY <2>1
    <3> QED BY <2>1, <2>3, <2>4, <3>1 DEF Answered
  <2> QED BY <2>1, <2>3, <2>5 DEF TgInv
<1>7. CASE UNCHANGED fvars
  <2>1. UNCHANGED <<phase, graph, at, m_faults, fault_map, t_faults, asked>> /\ UNCHANGED vars
    BY <1>7 DEF fvars
  <2>2. UNCHANGED <<file, gates, graph, m_faults, fault_map>>
    BY <2>1 DEF vars
  <2>3. /\ GraphRead' = GraphRead /\ Managed' = Managed /\ Entered' = Entered /\ Named' = Named
        /\ AllFaults' = AllFaults /\ Managing' = Managing /\ Naming' = Naming
    BY <2>1, <2>2, KeepsTg
  <2> QED BY <2>1, <2>3 DEF TgInv, Answered
<1> QED BY <1>1, <1>2, <1>3, <1>4, <1>5, <1>6, <1>7 DEF NamesNext

LEMMA NamesSpecHasTgInv == NamesSpec => [](NInv /\ TgInv)
<1>1. NamesInit => NInv /\ TgInv
  BY NamesInitHasNInv, NamesInitHasTgInv
<1>2. NInv /\ TgInv /\ [NamesNext]_fvars => (NInv /\ TgInv)'
  BY NamesNextKeepsNInv, NamesNextKeepsTgInv
<1> QED BY <1>1, <1>2, PTL DEF NamesSpec

\* sat_atpg is asked about the fault the generator means, for every netlist: the entry
\* of fault_map it finds has the connections and the value of the target.
THEOREM RightFaultIsAsked == NamesSpec => []SameFault
<1>1. ASSUME NInv, TgInv PROVE SameFault
  <2>1. SUFFICES ASSUME Len(asked) = 2
                 PROVE  /\ TgSite(asked[2]) = SiteOf(asked[1].gate)
                        /\ asked[2].stuck_at = asked[1].key.stuck_at
    BY DEF SameFault
  <2>2. Len(<<>>) = 0 /\ \A f : Len(<<f>>) = 1
    OBVIOUS
  <2>3. phase = "search"
    <3>1. asked # <<>> /\ \A f : asked # <<f>>
      BY <2>1, <2>2
    <3> QED BY <1>1, <3>1 DEF TgInv, Answered, NInv
  <2>4. PICK f \in AllFaults : f.key \in DOMAIN fault_map /\ asked = <<f, fault_map[f.key]>>
    <3>1. asked # <<>>
      BY <2>1, <2>2
    <3> QED BY <1>1, <2>3, <3>1 DEF TgInv, Answered
  <2>5. PICK e : e = fault_map[f.key]
    OBVIOUS
  <2>6. asked[1] = f /\ asked[2] = e
    BY <2>4, <2>5
  <2>7. Split /\ AllListed /\ GraphRead /\ GraphFits /\ Entered
    BY <1>1, <2>3, GraphFitsFile DEF NInv, Listing, Lined, Split, TgInv
  <2>8. OneRead
    BY <2>7, ListedReadOnce
  <2>9. PICK l \in NamedLines(graph) : FaultOf(l, e) /\ KeyOf(graph, e) = f.key
    BY <2>4, <2>5, <2>7 DEF Entered, IsTgFault
  <2>10. PICK g \in DOMAIN gates : f \in FaultsOf(g)
    BY <2>4 DEF AllFaults
  <2>11. PICK k \in DOMAIN GateFaults(g) : f = GateFaults(g)[k]
    BY <2>10 DEF FaultsOf
  <2>12. PICK x : x = Polarities(g)[k]
    OBVIOUS
  <2>13. f.gate = g /\ f.key = GateKey(g, x)
    BY <2>7, <2>11, <2>12, GateKeys
  <2>14. f.key.stuck_at = x
    BY <2>11, <2>12, GateFaultsAre
  <2>15. Kind(l, e.stuck_at, GateKey(g, x), TgSite(e))
    BY <2>7, <2>9, <2>13, KindsAre DEF KindOf
  <2>16. TgSite(e) = SiteOf(g) /\ e.stuck_at = x
    BY <2>7, <2>8, <2>15, SameSite
  <2> QED BY <2>6, <2>13, <2>14, <2>16
<1> QED BY <1>1, NamesSpecHasTgInv, PTL

------------------------------------------------------------------------------
\* The names on the two sides. A fault of gate or line a is stuck at v.
Stuck(a, v) == \E k \in DOMAIN Polarities(a) : Polarities(a)[k] = v

LEMMA PolaritiesAre ==
  ASSUME NEW a
  PROVE  /\ gates[a].is_stem \/ gates[a].isPO => \A v : Stuck(a, v) <=> v \in {0, 1}
         /\ ~(gates[a].is_stem \/ gates[a].isPO) =>
              \A v : Stuck(a, v) <=> v \in Fronts(TypeOf(gates[a].fanouts[1]))
<1>1. ASSUME gates[a].is_stem \/ gates[a].isPO
      PROVE  \A v : Stuck(a, v) <=> v \in {0, 1}
  <2>1. PICK s : s = <<0, 1>>
    OBVIOUS
  <2>2. Polarities(a) = s
    BY <1>1, <2>1 DEF Polarities
  <2>3. DOMAIN s = {1, 2} /\ s[1] = 0 /\ s[2] = 1
    BY <2>1
  <2> QED BY <2>2, <2>3 DEF Stuck
<1>2. ASSUME ~(gates[a].is_stem \/ gates[a].isPO)
      PROVE  \A v : Stuck(a, v) <=> v \in Fronts(TypeOf(gates[a].fanouts[1]))
  <2>1. PICK s : s = StuckInFront(TypeOf(gates[a].fanouts[1]))
    OBVIOUS
  <2>2. Polarities(a) = s
    BY <1>2, <2>1 DEF Polarities
  <2> QED BY <2>1, <2>2 DEF Stuck, Fronts
<1> QED BY <1>1, <1>2

ListedAs(a, v, key) == Stuck(a, v) /\ key = GateKey(a, v)

LEMMA ListedKeys ==
  ASSUME Split, NEW key
  PROVE  (\E f \in AllFaults : f.key = key) <=> \E a \in DOMAIN gates : \E v : ListedAs(a, v, key)
<1>1. ASSUME NEW f \in AllFaults, f.key = key
      PROVE  \E a \in DOMAIN gates : \E v : ListedAs(a, v, key)
  <2>1. PICK a \in DOMAIN gates : f \in FaultsOf(a)
    BY <1>1 DEF AllFaults
  <2>2. PICK k \in DOMAIN GateFaults(a) : f = GateFaults(a)[k]
    BY <2>1 DEF FaultsOf
  <2>3. k \in DOMAIN Polarities(a) /\ f.key = GateKey(a, Polarities(a)[k])
    BY <2>2, GateKeys
  <2>4. PICK v : v = Polarities(a)[k]
    OBVIOUS
  <2>5. Stuck(a, v)
    BY <2>3, <2>4 DEF Stuck
  <2>6. ListedAs(a, v, key)
    BY <1>1, <2>3, <2>4, <2>5 DEF ListedAs
  <2> QED BY <2>6
<1>2. ASSUME NEW a \in DOMAIN gates, NEW v, ListedAs(a, v, key)
      PROVE  \E f \in AllFaults : f.key = key
  <2>1. PICK k \in DOMAIN Polarities(a) : Polarities(a)[k] = v
    BY <1>2 DEF ListedAs, Stuck
  <2>2. k \in DOMAIN GateFaults(a)
    BY <2>1, GateFaultsAre
  <2>3. PICK f : f = GateFaults(a)[k]
    OBVIOUS
  <2>4. f \in AllFaults
    BY <2>2, <2>3 DEF AllFaults, FaultsOf
  <2>5. f.key = GateKey(a, v)
    BY <2>1, <2>2, <2>3, GateKeys
  <2> QED BY <1>2, <2>4, <2>5 DEF ListedAs
<1> QED BY <1>1, <1>2

\* The name of a branch is given to an output that is an input and is read once.
LEMMA LoneIsReadOnce ==
  ASSUME GraphRead, GraphFits, NEW l \in NamedLines(graph), Lone(l), LineBranches(l)
  PROVE  OutputReadOnce(file)
<1>1. PICK g \in Originals : g = GateOf(l)
  BY DEF GraphFits
<1>2. PICK ds \in Seq([gate : Nat, idx : Nat]) : ds = graph.lines[l].dests
  BY <1>1 DEF GraphFits, LineFits
<1>3. /\ graph.lines[l].is_output <=> g \in Range(file.outs)
      /\ graph.lines[l].source = NoGate <=> file.ins[g] = <<>>
      /\ \A c \in Range(ds) : FitsPin(c, g)
      /\ \A r \in Originals : \A k \in DOMAIN file.ins[r] : file.ins[r][k] = g =>
           \E c \in Range(ds) : ReaderOf(c) = r /\ c.idx = k
  BY <1>1, <1>2 DEF GraphFits, LineFits
<1>4. Len(ds) = 1 /\ file.ins[g] = <<>>
  BY <1>2, <1>3 DEF Lone
<1>5. g \in Range(file.outs)
  <2>1. graph.lines[l].is_output
    <3>1. ~(Len(ds) > 1)
      BY <1>4
    <3> QED BY <1>2, <3>1 DEF LineBranches, HasFanoutBranches
  <2> QED BY <1>3, <2>1
<1>6. PICK c : c = ds[1]
  OBVIOUS
<1>7. Range(ds) = {c}
  <2>1. DOMAIN ds = {1}
    BY <1>4
  <2> QED BY <1>6, <2>1 DEF Range
<1>8. PICK r \in Originals : r = ReaderOf(c)
  BY <1>3, <1>7 DEF FitsPin
<1>9. PICK k \in DOMAIN file.ins[r] : k = c.idx /\ file.ins[r][k] = g
  BY <1>3, <1>7, <1>8, SMTT(30) DEF FitsPin
<1>10. DOMAIN file.ins = Originals
  BY NetlistsAreLegal DEF GraphRead, LegalNetlist
<1>11. ReadersOf(file, g) = {<<r, k>>}
  <2>1. <<r, k>> \in ReadersOf(file, g)
    <3>1. <<r, k>> \in {r} \X DOMAIN file.ins[r]
      OBVIOUS
    <3>2. <<r, k>> \in UNION {{h} \X DOMAIN file.ins[h] : h \in DOMAIN file.ins}
      BY <1>10, <3>1
    <3> QED BY <1>9, <3>2 DEF ReadersOf
  <2>2. ASSUME NEW w \in ReadersOf(file, g)
        PROVE  w = <<r, k>>
    <3>1. /\ w \in UNION {{h} \X DOMAIN file.ins[h] : h \in DOMAIN file.ins}
          /\ file.ins[w[1]][w[2]] = g
      BY <2>2 DEF ReadersOf
    <3>2. PICK h \in Originals : w \in {h} \X DOMAIN file.ins[h]
      BY <1>10, <3>1
    <3>3. PICK m \in DOMAIN file.ins[h] : w = <<h, m>>
      BY <3>2
    <3>4. file.ins[h][m] = g
      BY <3>1, <3>3
    <3>5. ReaderOf(c) = h /\ c.idx = m
      BY <1>3, <1>7, <3>4
    <3> QED BY <1>8, <1>9, <3>3, <3>5
  <2> QED BY <2>1, <2>2
<1>12. Cardinality(ReadersOf(file, g)) = 1
  BY <1>11, FS_Singleton
<1>13. PICK m \in DOMAIN file.outs : file.outs[m] = g
  BY <1>5 DEF Range
<1> QED BY <1>4, <1>12, <1>13 DEF OutputReadOnce

\* What tg-pro lists ls_main lists under the same name.
LEMMA TgIsListed ==
  ASSUME Split, GraphRead, GraphFits, ~OutputReadOnce(file), NEW l \in NamedLines(graph),
         NEW v \in {0, 1}, NEW key, NEW site, Kind(l, v, key, site)
  PROVE  \E a \in DOMAIN gates : \E x : ListedAs(a, x, key)
<1>1. PICK g \in Originals : g = GateOf(l)
  BY DEF GraphFits
<1>2. /\ Originals = 1 .. Size /\ LineFits(l, g) /\ \A b \in Originals : b \in DOMAIN gates
      /\ \A b \in Originals : ~IsLine(b)
      /\ HasFanoutBranches(graph.lines[l]) <=> gates[g].is_stem
      /\ ~gates[g].is_stem => (graph.lines[l].is_output <=> gates[g].isPO)
  BY <1>1, SplitFacts, BranchingMeans DEF GraphFits
<1>3. LineBranches(l) <=> gates[g].is_stem \/ gates[g].isPO
  <2>1. CASE gates[g].is_stem
    BY <1>2, <2>1 DEF LineBranches
  <2>2. CASE ~gates[g].is_stem
    BY <1>2, <2>2 DEF LineBranches
  <2> QED BY <2>1, <2>2
<1>4. LineBranches(l) => ~Lone(l)
  BY LoneIsReadOnce
<1>5. \A r \in Originals : TypeOf(r) = file.types[r]
  BY <1>2 DEF TypeOf
<1>6. ASSUME NEW a \in DOMAIN gates, a > Size
      PROVE  ~gates[a].is_stem /\ IsLine(a)
  BY <1>6, SplitFacts DEF LineBetween
<1>7. CASE AtStem(l, v, key, site)
  <2>1. (gates[g].is_stem \/ gates[g].isPO) /\ key = StemKey(<<g>>, v)
    BY <1>1, <1>3, <1>7 DEF AtStem
  <2>2. Stuck(g, v) /\ key = GateKey(g, v)
    BY <1>2, <2>1, PolaritiesAre DEF GateKey
  <2> QED BY <1>2, <2>2 DEF ListedAs
<1>8. CASE AtOutput(l, v, key, site)
  <2>1. key = OutKey(<<g, 0>>, v) /\ gates[g].is_stem /\ g \in Range(file.outs)
    BY <1>1, <1>2, <1>4, <1>8 DEF AtOutput, LineFits
  <2>2. PICK a \in DOMAIN gates : a > Size /\ gates[a].isPO /\ Stands(a, g)
    BY <2>1, OutputBranches DEF OutputBranch
  <2>3. gates[a].name = <<g, 0>> /\ IsLine(a)
    BY <1>6, <2>2 DEF Stands
  <2>4. Stuck(a, v) /\ key = GateKey(a, v)
    BY <2>1, <2>2, <2>3, PolaritiesAre DEF GateKey
  <2> QED BY <2>4 DEF ListedAs
<1>9. CASE \E c : AtBranch(l, v, c, key, site)
  <2>1. PICK c : AtBranch(l, v, c, key, site)
    BY <1>9
  <2>2. /\ LineBranches(l) /\ c \in Range(graph.lines[l].dests) /\ v \in Fronts(FrontType(c))
        /\ key = PlainKey(<<g, ReaderOf(c)>>, v)
    BY <1>1, <1>4, <2>1 DEF AtBranch
  <2>3. FitsPin(c, g)
    BY <1>2, <2>2 DEF LineFits
  <2>4. PICK r \in Originals : r = ReaderOf(c) /\ FrontType(c) = file.types[r] /\ g \in Range(file.ins[r])
    BY <2>3 DEF FitsPin, FrontType, Range
  <2>5. gates[g].is_stem
    <3>1. \E k \in DOMAIN file.ins[r] : file.ins[r][k] = g
      BY <2>4 DEF Range
    <3>2. gates[g].is_stem \/ ~gates[g].isPO
      BY <3>1, OneFanout
    <3> QED BY <1>3, <2>2, <3>2
  <2>6. PICK a \in DOMAIN gates : a > Size /\ ~gates[a].isPO /\ Stands(a, g) /\ gates[a].fanouts[1] = r
    BY <2>4, <2>5, PinBranches DEF PinBranch
  <2>7. gates[a].name = <<g, r>> /\ IsLine(a) /\ ~gates[a].is_stem
    BY <1>6, <2>6 DEF Stands
  <2>8. Stuck(a, v)
    BY <1>5, <2>2, <2>4, <2>6, <2>7, PolaritiesAre
  <2>9. key = GateKey(a, v)
    BY <2>2, <2>4, <2>6, <2>7 DEF GateKey
  <2> QED BY <2>8, <2>9 DEF ListedAs
<1>10. CASE \E c : AtFront(l, v, c, key, site)
  <2>1. PICK c : AtFront(l, v, c, key, site)
    BY <1>10
  <2>2. /\ ~LineBranches(l) /\ c \in Range(graph.lines[l].dests) /\ v \in Fronts(FrontType(c))
        /\ key = FrontKey(g, v)
    BY <1>1, <2>1 DEF AtFront
  <2>3. FitsPin(c, g) /\ ~gates[g].is_stem /\ ~gates[g].isPO
    BY <1>2, <1>3, <2>2 DEF LineFits
  <2>4. PICK r \in Originals : r = ReaderOf(c) /\ FrontType(c) = file.types[r] /\ g \in Range(file.ins[r])
    BY <2>3 DEF FitsPin, FrontType, Range
  <2>5. r = gates[g].fanouts[1]
    <3>1. PICK k \in DOMAIN file.ins[r] : file.ins[r][k] = g
      BY <2>4 DEF Range
    <3> QED BY <2>3, <3>1, OneFanout
  <2>6. Stuck(g, v)
    BY <1>5, <2>2, <2>3, <2>4, <2>5, PolaritiesAre
  <2>7. key = GateKey(g, v)
    BY <1>2, <2>2, <2>3 DEF GateKey
  <2> QED BY <1>2, <2>6, <2>7 DEF ListedAs
<1> QED BY <1>7, <1>8, <1>9, <1>10 DEF Kind

\* What ls_main lists tg-pro lists under the same name.
LEMMA ListedIsTg ==
  ASSUME Split, GraphRead, GraphFits, ~OutputReadOnce(file), NEW a \in DOMAIN gates, NEW v,
         NEW key, ListedAs(a, v, key)
  PROVE  \E f : IsTgFault(f) /\ KeyOf(graph, f) = key
<1>1. Stuck(a, v) /\ key = GateKey(a, v)
  BY DEF ListedAs
<1>2. ASSUME NEW g \in Originals
      PROVE  \E l \in NamedLines(graph) :
               /\ g = GateOf(l) /\ LineFits(l, g)
               /\ HasFanoutBranches(graph.lines[l]) <=> gates[g].is_stem
               /\ ~gates[g].is_stem => (graph.lines[l].is_output <=> gates[g].isPO)
               /\ LineBranches(l) <=> gates[g].is_stem \/ gates[g].isPO
               /\ LineBranches(l) => ~Lone(l)
  <2>1. PICK l \in NamedLines(graph) : g = GateOf(l) /\ LineFits(l, g)
    BY DEF GraphFits
  <2>2. /\ HasFanoutBranches(graph.lines[l]) <=> gates[g].is_stem
        /\ ~gates[g].is_stem => (graph.lines[l].is_output <=> gates[g].isPO)
    BY <2>1, BranchingMeans
  <2>3. LineBranches(l) <=> gates[g].is_stem \/ gates[g].isPO
    <3>1. CASE gates[g].is_stem
      BY <2>2, <3>1 DEF LineBranches
    <3>2. CASE ~gates[g].is_stem
      BY <2>2, <3>2 DEF LineBranches
    <3> QED BY <3>1, <3>2
  <2>4. LineBranches(l) => ~Lone(l)
    BY LoneIsReadOnce
  <2> QED BY <2>1, <2>2, <2>3, <2>4
<1>3. CASE ~IsLine(a)
  <2>1. a \in Originals
    BY <1>3, SplitFacts
  <2>2. PICK l \in NamedLines(graph) :
          /\ a = GateOf(l) /\ LineFits(l, a)
          /\ LineBranches(l) <=> gates[a].is_stem \/ gates[a].isPO
    BY <1>2, <2>1
  <2>3. CASE gates[a].is_stem \/ gates[a].isPO
    <3>1. v \in {0, 1} /\ key = StemKey(<<a>>, v)
      BY <1>1, <1>3, <2>3, PolaritiesAre DEF GateKey
    <3>2. PICK f : f = StemFault(l, v)
      OBVIOUS
    <3>3. FaultOf(l, f)
      BY <2>2, <2>3, <3>1, <3>2 DEF FaultOf
    <3>4. KeyOf(graph, f) = key
      BY <2>2, <3>1, <3>2, TgKeys DEF Placed
    <3> QED BY <3>3, <3>4 DEF IsTgFault
  <2>4. CASE ~(gates[a].is_stem \/ gates[a].isPO)
    <3>1. key = FrontKey(a, v)
      BY <1>1, <1>3, <2>4 DEF GateKey
    <3>2. PICK c \in Range(graph.lines[l].dests) : c = graph.lines[l].dests[1]
      BY <2>2, <2>4, OnlyDest
    <3>3. FitsPin(c, a)
      BY <2>2 DEF LineFits
    <3>4. PICK r \in Originals : r = ReaderOf(c) /\ FrontType(c) = file.types[r] /\ ~IsLine(r)
                                /\ \E k \in DOMAIN file.ins[r] : file.ins[r][k] = a
      BY <3>3, SplitFacts DEF FitsPin, FrontType
    <3>5. r = gates[a].fanouts[1]
      BY <2>1, <2>4, <3>4, OneFanout
    <3>6. v \in Fronts(FrontType(c))
      BY <1>1, <2>4, <3>4, <3>5, PolaritiesAre DEF TypeOf
    <3>7. v \in {0, 1}
      <4>1. LegalNetlist(file, Size) /\ r \in 1 .. Size /\ file.ins[r] # <<>>
        BY <3>3, <3>4, NetlistsAreLegal DEF GraphRead, FitsPin
      <4>2. FrontType(c) \in GateTypes
        BY <3>4, <4>1 DEF LegalNetlist
      <4> QED BY <3>6, <4>2, FrontValues
    <3>8. PICK f : f = FrontFault(l, v)
      OBVIOUS
    <3>9. FaultOf(l, f)
      BY <2>2, <2>4, <3>2, <3>6, <3>8 DEF FaultOf
    <3>10. KeyOf(graph, f) = key
      BY <2>2, <2>4, <3>1, <3>2, <3>7, <3>8, TgKeys DEF Placed
    <3> QED BY <3>9, <3>10 DEF IsTgFault
  <2> QED BY <2>3, <2>4
<1>4. CASE IsLine(a)
  <2>1. PICK g \in Originals : g = gates[a].fanins[1] /\ Stands(a, g) /\ a > Size
    <3>1. a > Size
      BY <1>4, SplitFacts DEF Split, IInv, LinesFollow
    <3>2. Stands(a, gates[a].fanins[1])
      BY <3>1, LinesStand
    <3> QED BY <3>1, <3>2 DEF Stands
  <2>2. PICK l \in NamedLines(graph) :
          /\ g = GateOf(l) /\ LineFits(l, g)
          /\ HasFanoutBranches(graph.lines[l]) <=> gates[g].is_stem
          /\ LineBranches(l) <=> gates[g].is_stem \/ gates[g].isPO
          /\ LineBranches(l) => ~Lone(l)
    BY <1>2
  <2>3. gates[g].is_stem /\ LineBranches(l) /\ ~Lone(l) /\ HasFanoutBranches(graph.lines[l])
    BY <2>1, <2>2 DEF Stands
  <2>4. CASE gates[a].isPO
    <3>1. v \in {0, 1} /\ key = OutKey(<<g, 0>>, v) /\ g \in Range(file.outs)
      BY <1>1, <1>4, <2>1, <2>4, PolaritiesAre DEF GateKey, Stands
    <3>2. PICK f : f = OutputFault(l, v)
      OBVIOUS
    <3>3. graph.lines[l].is_output
      BY <2>2, <3>1 DEF LineFits
    <3>4. FaultOf(l, f)
      BY <2>3, <3>1, <3>2, <3>3 DEF FaultOf
    <3>5. KeyOf(graph, f) = key
      BY <2>2, <2>3, <3>1, <3>2, TgKeys DEF Placed
    <3> QED BY <3>4, <3>5 DEF IsTgFault
  <2>5. CASE ~gates[a].isPO
    <3>1. PICK r \in Originals : /\ r = gates[a].fanouts[1] /\ gates[a].name = <<g, r>>
                                 /\ g \in Range(file.ins[r]) /\ ~IsLine(r)
      BY <2>1, <2>5, SplitFacts DEF Stands
    <3>2. key = PlainKey(<<g, r>>, v) /\ ~gates[a].is_stem
      BY <1>1, <1>4, <2>1, <2>5, <3>1, SplitFacts DEF GateKey, LineBetween
    <3>3. PICK k \in DOMAIN file.ins[r] : file.ins[r][k] = g
      BY <3>1 DEF Range
    <3>4. PICK c \in Range(graph.lines[l].dests) : ReaderOf(c) = r
      BY <2>2, <3>3 DEF LineFits
    <3>5. FitsPin(c, g)
      BY <2>2 DEF LineFits
    <3>6. FrontType(c) = file.types[r] /\ file.ins[r] # <<>>
      BY <3>4, <3>5 DEF FitsPin, FrontType
    <3>7. v \in Fronts(FrontType(c))
      BY <1>1, <2>5, <3>1, <3>2, <3>6, PolaritiesAre DEF TypeOf
    <3>8. v \in {0, 1}
      <4>1. LegalNetlist(file, Size) /\ r \in 1 .. Size
        BY <3>1, NetlistsAreLegal DEF GraphRead
      <4>2. FrontType(c) \in GateTypes
        BY <3>6, <4>1 DEF LegalNetlist
      <4> QED BY <3>7, <4>2, FrontValues
    <3>9. PICK f : f = BranchFault(l, v, c)
      OBVIOUS
    <3>10. FaultOf(l, f)
      BY <2>3, <3>7, <3>9 DEF FaultOf
    <3>11. KeyOf(graph, f) = key
      <4>1. Placed(BranchFault(l, v, c), PlainKey(IF Lone(l) THEN <<g>> ELSE <<g, ReaderOf(c)>>, v),
                   {<<ReaderOf(c), c.idx>>})
        BY <1>1, <2>2, <3>8, TgKeys
      <4>2. KeyOf(graph, f) = PlainKey(IF Lone(l) THEN <<g>> ELSE <<g, ReaderOf(c)>>, v)
        BY <3>9, <4>1 DEF Placed
      <4> QED BY <2>3, <3>2, <3>4, <4>2
    <3> QED BY <3>10, <3>11 DEF IsTgFault
  <2> QED BY <2>4, <2>5
<1> QED BY <1>3, <1>4

\* fault_map has an entry for every name ls_main can list, and no other.
LEMMA SameNames ==
  ASSUME Split, GraphRead, ~OutputReadOnce(file), Named
  PROVE  \A key : key \in DOMAIN fault_map <=> \E f \in AllFaults : f.key = key
<1>1. GraphFits
  BY GraphFitsFile
<1>2. ASSUME NEW key, key \in DOMAIN fault_map
      PROVE  \E f \in AllFaults : f.key = key
  <2>1. PICK e : IsTgFault(e) /\ KeyOf(graph, e) = key
    BY <1>2 DEF Named
  <2>2. PICK l \in NamedLines(graph) : FaultOf(l, e)
    BY <2>1 DEF IsTgFault
  <2>3. e.stuck_at \in {0, 1} /\ Kind(l, e.stuck_at, key, TgSite(e))
    BY <1>1, <2>1, <2>2, KindsAre DEF KindOf
  <2>4. \E a \in DOMAIN gates : \E x : ListedAs(a, x, key)
    BY <1>1, <2>3, TgIsListed
  <2> QED BY <2>4, ListedKeys
<1>3. ASSUME NEW key, \E f \in AllFaults : f.key = key
      PROVE  key \in DOMAIN fault_map
  <2>1. PICK a \in DOMAIN gates : \E x : ListedAs(a, x, key)
    BY <1>3, ListedKeys
  <2>2. PICK x : ListedAs(a, x, key)
    BY <2>1
  <2> QED BY <1>1, <2>2, ListedIsTg DEF Named
<1> QED BY <1>2, <1>3

\* No file has an input that is an output and is read once.
NoOutputReadOnce == \A n \in Netlists : ~OutputReadOnce(n)

\* Nothing tg-pro lists is never asked for, and every target has its entry. What the
\* assumption leaves out is what the program gets wrong (ListsAgree then fails).
THEOREM BothListsAgree ==
  ASSUME NoOutputReadOnce
  PROVE  NamesSpec => []ListsAgree
<1>1. ASSUME NInv, TgInv PROVE ListsAgree
  <2>1. SUFFICES ASSUME phase = "search"
                 PROVE  DOMAIN fault_map = {f.key : f \in Range(t_faults)}
    BY DEF ListsAgree
  <2>2. Split /\ AllListed /\ GraphRead /\ Named /\ t_faults \in Seq(AllFaults)
    BY <1>1, <2>1 DEF NInv, Listing, Lined, Split, TgInv
  <2>3. ~OutputReadOnce(file)
    BY <2>2, SplitFacts DEF NoOutputReadOnce
  <2>4. \A key : key \in DOMAIN fault_map <=> \E f \in AllFaults : f.key = key
    BY <2>2, <2>3, SameNames
  <2>5. Range(t_faults) = AllFaults
    <3>1. ASSUME NEW f \in Range(t_faults) PROVE f \in AllFaults
      BY <2>2, <3>1, SeqElements DEF Range
    <3>2. ASSUME NEW f \in AllFaults PROVE f \in Range(t_faults)
      <4>1. PICK g \in DOMAIN gates : f \in FaultsOf(g)
        BY <3>2 DEF AllFaults
      <4>2. PICK k \in DOMAIN GateFaults(g) : f = GateFaults(g)[k]
        BY <4>1 DEF FaultsOf
      <4> QED BY <2>2, <4>2 DEF AllListed
    <3> QED BY <3>1, <3>2
  <2> QED BY <2>4, <2>5
<1> QED BY <1>1, NamesSpecHasTgInv, PTL

------------------------------------------------------------------------------
\* Names are given once on both sides. No two places of a sequence of outputs, of
\* fanins or of lines have the same driver.
LEMMA LinesOnce ==
  ASSUME Split, OneRead, NEW g \in Originals, NEW l \in DOMAIN gates, NEW o \in DOMAIN gates
  PROVE  /\ \A r \in Originals : LineTo(l, g, r) /\ LineTo(o, g, r) => l = o
         /\ /\ l > Size /\ gates[l].isPO /\ Stands(l, g)
            /\ o > Size /\ gates[o].isPO /\ Stands(o, g)
            => l = o
<1>1. /\ LegalNetlist(file, Size) /\ DOMAIN file.ins = Originals
      /\ \A h \in Originals : h \in DOMAIN gates /\ gates[h].fanins \in Seq(DOMAIN gates)
  BY SplitFacts, NetlistsAreLegal
<1>2. ASSUME NEW T, NEW s \in Seq(DOMAIN gates), NEW t \in Seq(T),
             Count(Drivers(s), g) = Count(t, g), l \in Range(s), o \in Range(s),
             Driver(l) = g, Driver(o) = g, l # o
      PROVE  \E k, m \in DOMAIN t : k # m /\ t[k] = g /\ t[m] = g
  <2>1. /\ Drivers(s) \in Seq(DOMAIN gates) /\ DOMAIN Drivers(s) = DOMAIN s
        /\ \A k \in DOMAIN s : Drivers(s)[k] = Driver(s[k])
    BY DriversAre
  <2>2. PICK a \in DOMAIN s : s[a] = l
    BY <1>2 DEF Range
  <2>3. PICK b \in DOMAIN s : s[b] = o
    BY <1>2 DEF Range
  <2>4. a # b /\ Drivers(s)[a] = g /\ Drivers(s)[b] = g
    BY <1>2, <2>1, <2>2, <2>3
  <2>5. Count(Drivers(s), g) >= 2
    BY <2>1, <2>4, CountTwice
  <2>6. Count(t, g) >= 2
    BY <1>2, <2>5
  <2> QED BY <2>6, CountTwice
<1>3. ASSUME NEW r \in Originals, LineTo(l, g, r), LineTo(o, g, r), l # o
      PROVE  FALSE
  <2>1. ASSUME NEW f \in DOMAIN gates, LineTo(f, g, r)
        PROVE  f \in Range(gates[r].fanins) /\ Driver(f) = g
    <3>1. /\ gates[f].fanouts[1] = r /\ Len(gates[f].fanouts) = 1 /\ Driver(f) = g
          /\ gates[f].fanouts \in Seq(DOMAIN gates)
      BY <2>1, SplitFacts DEF LineTo, Stands
    <3>2. r \in Range(gates[f].fanouts)
      BY <3>1 DEF Range
    <3> QED BY <1>1, <3>1, <3>2, SplitMembers DEF MirroredIn
  <2>2. Count(Drivers(gates[r].fanins), g) = Count(file.ins[r], g)
    BY <1>1 DEF Split, IInv, SameCircuit
  <2>3. file.ins[r] \in Seq(1 .. Size) /\ gates[r].fanins \in Seq(DOMAIN gates)
    BY <1>1 DEF LegalNetlist, Originals
  <2>4. \E k, m \in DOMAIN file.ins[r] : k # m /\ file.ins[r][k] = g /\ file.ins[r][m] = g
    BY <1>2, <1>3, <2>1, <2>2, <2>3
  <2> QED BY <2>4 DEF OneRead
<1>4. ASSUME gates[l].isPO, Stands(l, g), gates[o].isPO, Stands(o, g), l # o
      PROVE  FALSE
  <2>1. POs \in Seq(DOMAIN gates)
    BY DEF Split, IInv, Typed
  <2>2. ASSUME NEW f \in DOMAIN gates, gates[f].isPO, Stands(f, g)
        PROVE  f \in Range(POs) /\ Driver(f) = g
    <3>1. Count(POs, f) > 0
      <4>1. Count(POs, f) = 1
        BY <2>2 DEF Split, IInv, OutputsListed
      <4> QED BY <4>1
    <3>2. \E k \in DOMAIN POs : POs[k] = f
      BY <2>1, <3>1, CountPositive
    <3> QED BY <2>2, <3>2 DEF Range, Stands
  <2>3. Count(Drivers(POs), g) = Count(file.outs, g) /\ file.outs \in Seq(1 .. Size)
    BY <1>1 DEF Split, IInv, SameCircuit, LegalNetlist
  <2>4. \E k, m \in DOMAIN file.outs : k # m /\ file.outs[k] = g /\ file.outs[m] = g
    BY <1>2, <1>4, <2>1, <2>2, <2>3
  <2> QED BY <1>1, <2>4 DEF LegalNetlist, IsInjective
<1> QED BY <1>3, <1>4

LEMMA NamesOnce ==
  ASSUME Split, OneRead, NEW a \in DOMAIN gates, NEW b \in DOMAIN gates,
         gates[a].name = gates[b].name
  PROVE  a = b
<1>1. \A p, c, d : <<p>> # <<c, d>>
  <2> SUFFICES ASSUME NEW p, NEW c, NEW d, <<p>> = <<c, d>> PROVE FALSE
    OBVIOUS
  <2>1. Len(<<p>>) = 1 /\ Len(<<c, d>>) = 2
    OBVIOUS
  <2> QED BY <2>1
<1>2. \A p, c : <<p>> = <<c>> => p = c
  OBVIOUS
<1>3. \A p, c, d, e : <<p, c>> = <<d, e>> => p = d /\ c = e
  OBVIOUS
<1>4. Originals = 1 .. Size
  BY SplitFacts
<1>5. ASSUME NEW h \in DOMAIN gates
      PROVE  \/ h \in Originals /\ gates[h].name = <<h>>
             \/ \E g \in Originals : h > Size /\ gates[h].isPO /\ Stands(h, g) /\ gates[h].name = <<g, 0>>
             \/ \E g, r \in Originals : LineTo(h, g, r) /\ gates[h].name = <<g, r>>
  <2>1. CASE ~(h > Size)
    BY <2>1, SplitFacts
  <2>2. CASE h > Size
    <3>1. Stands(h, gates[h].fanins[1])
      BY <2>2, LinesStand
    <3> QED BY <2>2, <3>1 DEF Stands, LineTo
  <2> QED BY <2>1, <2>2
<1>6. CASE a \in Originals /\ gates[a].name = <<a>>
  <2>1. b \in Originals /\ gates[b].name = <<b>>
    BY <1>1, <1>5, <1>6
  <2> QED BY <1>2, <1>6, <2>1
<1>7. CASE \E g \in Originals : a > Size /\ gates[a].isPO /\ Stands(a, g) /\ gates[a].name = <<g, 0>>
  <2>1. PICK g \in Originals : a > Size /\ gates[a].isPO /\ Stands(a, g) /\ gates[a].name = <<g, 0>>
    BY <1>7
  <2>2. PICK h \in Originals : b > Size /\ gates[b].isPO /\ Stands(b, h) /\ gates[b].name = <<h, 0>>
    <3>1. ~\E h, r \in Originals : gates[b].name = <<h, r>>
      <4> SUFFICES ASSUME NEW h \in Originals, NEW r \in Originals, gates[b].name = <<h, r>>
                   PROVE  FALSE
        OBVIOUS
      <4>1. r = 0
        BY <1>3, <2>1
      <4> QED BY <1>4, <4>1
    <3>2. \A h : gates[b].name # <<h>>
      BY <1>1, <2>1
    <3> QED BY <1>5, <3>1, <3>2
  <2>3. g = h
    BY <1>3, <2>1, <2>2
  <2> QED BY <2>1, <2>2, <2>3, LinesOnce
<1>8. CASE \E g, r \in Originals : LineTo(a, g, r) /\ gates[a].name = <<g, r>>
  <2>1. PICK g, r \in Originals : LineTo(a, g, r) /\ gates[a].name = <<g, r>>
    BY <1>8
  <2>2. PICK h, e \in Originals : LineTo(b, h, e) /\ gates[b].name = <<h, e>>
    <3>1. ~\E h \in Originals : gates[b].name = <<h, 0>>
      <4> SUFFICES ASSUME NEW h \in Originals, gates[b].name = <<h, 0>>
                   PROVE  FALSE
        OBVIOUS
      <4>1. r = 0
        BY <1>3, <2>1
      <4> QED BY <1>4, <4>1
    <3>2. \A h : gates[b].name # <<h>>
      BY <1>1, <2>1
    <3> QED BY <1>5, <3>1, <3>2
  <2>3. g = h /\ r = e
    BY <1>3, <2>1, <2>2
  <2> QED BY <2>1, <2>2, <2>3, LinesOnce
<1> QED BY <1>5, <1>6, <1>7, <1>8

\* A fault of ls_main carries the name of its gate or line.
LEMMA FaultsNamed ==
  ASSUME Split, NEW a \in DOMAIN gates, NEW k \in DOMAIN GateFaults(a)
  PROVE  /\ k \in DOMAIN Polarities(a)
         /\ GateFaults(a)[k].key.name = gates[a].name
         /\ GateFaults(a)[k].key.stuck_at = Polarities(a)[k]
BY GateFaultsAre

LEMMA PolaritiesOnce ==
  ASSUME Split, NEW a \in DOMAIN gates
  PROVE  IsInjective(Polarities(a))
<1>1. /\ IsInjective(<<0, 1>>) /\ IsInjective(<<0>>) /\ IsInjective(<<1>>) /\ IsInjective(<<>>)
  BY DEF IsInjective
<1>2. CASE gates[a].is_stem \/ gates[a].isPO
  BY <1>1, <1>2 DEF Polarities
<1>3. CASE ~(gates[a].is_stem \/ gates[a].isPO)
  <2>1. PICK type \in GateTypes : type = TypeOf(gates[a].fanouts[1])
    BY <1>3, FrontTypes
  <2>2. StuckInFront(type) \in {<<>>, <<0, 1>>, <<0>>, <<1>>}
    BY DEF StuckInFront, GateTypes
  <2>3. Polarities(a) = StuckInFront(type)
    BY <1>3, <2>1 DEF Polarities
  <2> QED BY <1>1, <2>2, <2>3
<1> QED BY <1>2, <1>3

------------------------------------------------------------------------------
\* No gate of a file has one gate at two inputs.
EachReadOnce == \A n \in Netlists : \A r \in DOMAIN n.ins : IsInjective(n.ins[r])

\* What tg-pro's faults are called where no branch goes by the name of its line.
StemCalled(l, v, f, key) ==
  LineBranches(l) /\ f = StemFault(l, v) /\ key = StemKey(<<GateOf(l)>>, v)
OutputCalled(l, v, f, key) ==
  f = OutputFault(l, v) /\ key = OutKey(<<GateOf(l), 0>>, v)
BranchCalled(l, v, f, key) ==
  \E c \in Range(graph.lines[l].dests) :
    f = BranchFault(l, v, c) /\ key = PlainKey(<<GateOf(l), ReaderOf(c)>>, v)
FrontCalled(l, v, f, key) ==
  ~LineBranches(l) /\ f = FrontFault(l, v) /\ key = FrontKey(GateOf(l), v)

LEMMA CalledAs ==
  ASSUME GraphRead, GraphFits, ~OutputReadOnce(file), NEW l \in NamedLines(graph), NEW v, NEW f,
         NEW key, key = KeyOf(graph, f), Shape(l, v, f)
  PROVE  \/ StemCalled(l, v, f, key) \/ OutputCalled(l, v, f, key)
         \/ BranchCalled(l, v, f, key) \/ FrontCalled(l, v, f, key)
<1>1. LineBranches(l) => ~Lone(l)
  BY LoneIsReadOnce
<1>2. CASE f = StemFault(l, v) /\ AtStem(l, v, key, TgSite(f))
  BY <1>2 DEF AtStem, StemCalled
<1>3. CASE f = OutputFault(l, v) /\ AtOutput(l, v, key, TgSite(f))
  <2>1. LineBranches(l) /\ key = OutKey(IF Lone(l) THEN <<GateOf(l)>> ELSE <<GateOf(l), 0>>, v)
    BY <1>3 DEF AtOutput
  <2> QED BY <1>1, <1>3, <2>1 DEF OutputCalled
<1>4. CASE \E c : f = BranchFault(l, v, c) /\ AtBranch(l, v, c, key, TgSite(f))
  <2>1. PICK c : f = BranchFault(l, v, c) /\ AtBranch(l, v, c, key, TgSite(f))
    BY <1>4
  <2>2. /\ LineBranches(l) /\ c \in Range(graph.lines[l].dests)
        /\ key = PlainKey(IF Lone(l) THEN <<GateOf(l)>> ELSE <<GateOf(l), ReaderOf(c)>>, v)
    BY <2>1 DEF AtBranch
  <2> QED BY <1>1, <2>1, <2>2 DEF BranchCalled
<1>5. CASE f = FrontFault(l, v) /\ \E c : AtFront(l, v, c, key, TgSite(f))
  <2>1. ~LineBranches(l) /\ key = FrontKey(GateOf(l), v)
    BY <1>5 DEF AtFront
  <2> QED BY <1>5, <2>1 DEF FrontCalled
<1> QED BY <1>2, <1>3, <1>4, <1>5 DEF Shape

\* Different kinds have different names, whatever line they are of.
LEMMA KindsDiffer ==
  ASSUME GraphFits, NEW l \in NamedLines(graph), NEW o \in NamedLines(graph), NEW v, NEW w,
         NEW e, NEW f, NEW key
  PROVE  /\ OutputCalled(l, v, e, key) =>
              ~StemCalled(o, w, f, key) /\ ~BranchCalled(o, w, f, key) /\ ~FrontCalled(o, w, f, key)
         /\ StemCalled(l, v, e, key) => ~BranchCalled(o, w, f, key) /\ ~FrontCalled(o, w, f, key)
         /\ BranchCalled(l, v, e, key) => ~FrontCalled(o, w, f, key)
<1>1. ASSUME OutputCalled(l, v, e, key)
      PROVE  ~StemCalled(o, w, f, key) /\ ~BranchCalled(o, w, f, key) /\ ~FrontCalled(o, w, f, key)
  <2>1. PICK n : key = OutKey(n, v)
    BY <1>1 DEF OutputCalled
  <2>2. \A m : key # StemKey(m, w)
    BY <2>1, Zenon, KeysDiffer
  <2>3. \A m : key # PlainKey(m, w)
    BY <2>1, Zenon, KeysDiffer
  <2>4. \A m : key # FrontKey(m, w)
    BY <2>1, Zenon, KeysDiffer
  <2> QED BY <2>2, <2>3, <2>4, Zenon DEF StemCalled, BranchCalled, FrontCalled
<1>2. ASSUME StemCalled(l, v, e, key)
      PROVE  ~BranchCalled(o, w, f, key) /\ ~FrontCalled(o, w, f, key)
  <2>1. key = StemKey(<<GateOf(l)>>, v) /\ LineBranches(l)
    BY <1>2 DEF StemCalled
  <2>2. \A m : key # PlainKey(m, w)
    BY <2>1, Zenon, KeysDiffer
  <2>3. ASSUME FrontCalled(o, w, f, key)
        PROVE  FALSE
    <3>1. ~LineBranches(o) /\ key = FrontKey(GateOf(o), w)
      BY <2>3 DEF FrontCalled
    <3>2. FrontKey(GateOf(o), w) = StemKey(<<GateOf(l)>>, v)
      BY <2>1, <3>1
    <3>3. <<GateOf(o)>> = <<GateOf(l)>>
      BY <3>2, KeysAlike
    <3>4. GateOf(o) = GateOf(l)
      BY <3>3
    <3> QED BY <2>1, <3>1, <3>4 DEF GraphFits
  <2> QED BY <2>2, <2>3 DEF BranchCalled
<1>3. ASSUME BranchCalled(l, v, e, key), FrontCalled(o, w, f, key)
      PROVE  FALSE
  <2>1. PICK c \in Range(graph.lines[l].dests) : key = PlainKey(<<GateOf(l), ReaderOf(c)>>, v)
    BY <1>3 DEF BranchCalled
  <2>2. FrontKey(GateOf(o), w) = PlainKey(<<GateOf(l), ReaderOf(c)>>, v)
    BY <1>3, <2>1 DEF FrontCalled
  <2>3. <<GateOf(o)>> = <<GateOf(l), ReaderOf(c)>>
    BY <2>2, KeysAlike
  <2>4. Len(<<GateOf(o)>>) = 1 /\ Len(<<GateOf(l), ReaderOf(c)>>) = 2
    OBVIOUS
  <2> QED BY <2>3, <2>4
<1> QED BY <1>1, <1>2, <1>3

\* tg-pro gives no name twice.
LEMMA TgOnce ==
  ASSUME OneRead, GraphRead, GraphFits, ~OutputReadOnce(file), NEW e, NEW f,
         IsTgFault(e), IsTgFault(f), KeyOf(graph, e) = KeyOf(graph, f)
  PROVE  e = f
<1>1. PICK l \in NamedLines(graph) : FaultOf(l, e)
  BY DEF IsTgFault
<1>2. PICK o \in NamedLines(graph) : FaultOf(o, f)
  BY DEF IsTgFault
<1>3. PICK v : v = e.stuck_at
  OBVIOUS
<1>4. PICK w : w = f.stuck_at
  OBVIOUS
<1>5. PICK key : key = KeyOf(graph, e)
  OBVIOUS
<1>6. Shape(l, v, e) /\ Shape(o, w, f) /\ key = KeyOf(graph, f)
  BY <1>1, <1>2, <1>3, <1>4, <1>5, ShapesAre
<1>7. \/ StemCalled(l, v, e, key) \/ OutputCalled(l, v, e, key)
      \/ BranchCalled(l, v, e, key) \/ FrontCalled(l, v, e, key)
  BY <1>5, <1>6, CalledAs
<1>8. \/ StemCalled(o, w, f, key) \/ OutputCalled(o, w, f, key)
      \/ BranchCalled(o, w, f, key) \/ FrontCalled(o, w, f, key)
  BY <1>6, CalledAs
<1>9. GateOf(l) = GateOf(o) => l = o
  BY DEF GraphFits
<1>10. CASE StemCalled(l, v, e, key) /\ StemCalled(o, w, f, key)
  <2>1. StemKey(<<GateOf(l)>>, v) = StemKey(<<GateOf(o)>>, w)
    BY <1>10 DEF StemCalled
  <2>2. <<GateOf(l)>> = <<GateOf(o)>> /\ v = w
    BY <2>1, KeysAlike
  <2>3. GateOf(l) = GateOf(o)
    BY <2>2
  <2> QED BY <1>9, <1>10, <2>2, <2>3 DEF StemCalled
<1>11. CASE OutputCalled(l, v, e, key) /\ OutputCalled(o, w, f, key)
  <2>1. OutKey(<<GateOf(l), 0>>, v) = OutKey(<<GateOf(o), 0>>, w)
    BY <1>11 DEF OutputCalled
  <2>2. <<GateOf(l), 0>> = <<GateOf(o), 0>> /\ v = w
    BY <2>1, KeysAlike
  <2>3. GateOf(l) = GateOf(o)
    BY <2>2
  <2> QED BY <1>9, <1>11, <2>2, <2>3 DEF OutputCalled
<1>12. CASE BranchCalled(l, v, e, key) /\ BranchCalled(o, w, f, key)
  <2>1. PICK c \in Range(graph.lines[l].dests) :
          e = BranchFault(l, v, c) /\ key = PlainKey(<<GateOf(l), ReaderOf(c)>>, v)
    BY <1>12 DEF BranchCalled
  <2>2. PICK d \in Range(graph.lines[o].dests) :
          f = BranchFault(o, w, d) /\ key = PlainKey(<<GateOf(o), ReaderOf(d)>>, w)
    BY <1>12 DEF BranchCalled
  <2>3. PlainKey(<<GateOf(l), ReaderOf(c)>>, v) = PlainKey(<<GateOf(o), ReaderOf(d)>>, w)
    BY <2>1, <2>2
  <2>4. <<GateOf(l), ReaderOf(c)>> = <<GateOf(o), ReaderOf(d)>> /\ v = w
    BY <2>3, KeysAlike
  <2>5. GateOf(l) = GateOf(o) /\ ReaderOf(c) = ReaderOf(d)
    BY <2>4
  <2>6. l = o
    BY <1>9, <2>5
  <2>7. PICK g \in Originals : g = GateOf(l) /\ LineFits(l, g)
    BY DEF GraphFits
  <2>8. FitsPin(c, g) /\ FitsPin(d, g)
    BY <2>6, <2>7, <2>1, <2>2 DEF LineFits
  <2>9. PICK r \in Originals : r = ReaderOf(c)
    BY <2>8 DEF FitsPin
  <2>10. /\ c.idx \in DOMAIN file.ins[r] /\ file.ins[r][c.idx] = g
         /\ d.idx \in DOMAIN file.ins[r] /\ file.ins[r][d.idx] = g
    BY <2>5, <2>8, <2>9 DEF FitsPin
  <2>11. c.idx = d.idx
    BY <2>9, <2>10 DEF OneRead
  <2>12. c = d
    BY <2>1, <2>2, <2>5, <2>6, <2>7, <2>11 DEF LineFits
  <2> QED BY <2>1, <2>2, <2>4, <2>6, <2>12
<1>13. CASE FrontCalled(l, v, e, key) /\ FrontCalled(o, w, f, key)
  <2>1. FrontKey(GateOf(l), v) = FrontKey(GateOf(o), w)
    BY <1>13 DEF FrontCalled
  <2>2. GateOf(l) = GateOf(o) /\ v = w
    BY <2>1, KeysAlike
  <2> QED BY <1>9, <1>13, <2>2 DEF FrontCalled
<1> QED BY <1>7, <1>8, <1>10, <1>11, <1>12, <1>13, KindsDiffer

\* ls_main has given no name twice so far.
ListedOnce ==
  /\ \A x, y \in DOMAIN t_faults : t_faults[x].key = t_faults[y].key => x = y
  /\ \A x \in DOMAIN t_faults : \E g \in DOMAIN gates : g < at /\ t_faults[x] \in FaultsOf(g)

LEMMA FaultsOfNamed ==
  ASSUME Split, NEW g \in DOMAIN gates, NEW f \in FaultsOf(g)
  PROVE  f.key.name = gates[g].name
<1>1. PICK k \in DOMAIN GateFaults(g) : f = GateFaults(g)[k]
  BY DEF FaultsOf
<1> QED BY <1>1, FaultsNamed

LEMMA ListGateOnce ==
  ASSUME NInv, OneRead, ListedOnce, ListGate, at \in DOMAIN gates
  PROVE  ListedOnce'
<1>1. /\ phase = "list" /\ gates' = gates /\ file' = file /\ at' = at + 1
      /\ t_faults' = t_faults \o GateFaults(at)
  BY DEF ListGate, vars
<1>2. Split /\ t_faults \in Seq(AllFaults)
  BY <1>1 DEF NInv, Lined, Listing, Split
<1>3. DOMAIN gates = 1 .. Len(gates) /\ Len(gates) \in Nat
  BY <1>2, SplitFacts
<1>4. /\ GateFaults(at) \in Seq(FaultsOf(at))
      /\ Range(GateFaults(at)) = FaultsOf(at)
  BY <1>2, GateFaultsList
<1>5. \A g : FaultsOf(g)' = FaultsOf(g)
  BY <1>1, SameFaults
<1>6. PICK s : s = t_faults
  OBVIOUS
<1>7. PICK t : t = GateFaults(at)
  OBVIOUS
<1>8. PICK u : u = s \o t
  OBVIOUS
<1>9. /\ DOMAIN s = 1 .. Len(s) /\ Len(s) \in Nat /\ DOMAIN t = 1 .. Len(t) /\ Len(t) \in Nat
  BY <1>2, <1>4, <1>6, <1>7
<1>10. DOMAIN u = 1 .. Len(s) + Len(t)
  BY <1>2, <1>4, <1>6, <1>7, <1>8, <1>9
<1>11. ASSUME NEW x \in DOMAIN u
       PROVE  IF x \in DOMAIN s THEN u[x] = s[x]
              ELSE x - Len(s) \in DOMAIN t /\ u[x] = t[x - Len(s)]
  BY <1>2, <1>4, <1>6, <1>7, <1>8, <1>9, <1>10
<1>12. \A x \in DOMAIN s : \E g \in DOMAIN gates : g < at /\ s[x] \in FaultsOf(g)
  BY <1>6 DEF ListedOnce
<1>13. \A k \in DOMAIN t : t[k] \in FaultsOf(at)
  BY <1>7 DEF FaultsOf
<1>14. ASSUME NEW x \in DOMAIN s, NEW k \in DOMAIN t, s[x].key = t[k].key
       PROVE  FALSE
  <2>1. PICK g \in DOMAIN gates : g < at /\ s[x] \in FaultsOf(g)
    BY <1>12
  <2>2. s[x].key.name = gates[g].name
    BY <1>2, <2>1, FaultsOfNamed
  <2>3. t[k].key.name = gates[at].name
    BY <1>2, <1>13, FaultsOfNamed
  <2>4. g = at
    BY <1>2, <1>14, <2>2, <2>3, NamesOnce
  <2> QED BY <1>3, <2>1, <2>4
<1>15. ASSUME NEW k \in DOMAIN t, NEW m \in DOMAIN t, t[k].key = t[m].key
       PROVE  k = m
  <2>1. /\ k \in DOMAIN Polarities(at) /\ t[k].key.stuck_at = Polarities(at)[k]
        /\ m \in DOMAIN Polarities(at) /\ t[m].key.stuck_at = Polarities(at)[m]
    BY <1>2, <1>7, FaultsNamed
  <2>2. Polarities(at)[k] = Polarities(at)[m]
    BY <1>15, <2>1
  <2> QED BY <1>2, <2>1, <2>2, PolaritiesOnce DEF IsInjective
<1>16. ASSUME NEW x \in DOMAIN u, NEW y \in DOMAIN u, u[x].key = u[y].key
       PROVE  x = y
  <2>1. CASE x \in DOMAIN s /\ y \in DOMAIN s
    <3>1. s[x].key = s[y].key
      BY <1>11, <1>16, <2>1
    <3> QED BY <1>6, <2>1, <3>1 DEF ListedOnce
  <2>2. CASE x \in DOMAIN s /\ y \notin DOMAIN s
    <3>1. u[x] = s[x] /\ y - Len(s) \in DOMAIN t /\ u[y] = t[y - Len(s)]
      BY <1>11, <2>2
    <3> QED BY <1>14, <1>16, <2>2, <3>1
  <2>3. CASE x \notin DOMAIN s /\ y \in DOMAIN s
    <3>1. u[y] = s[y] /\ x - Len(s) \in DOMAIN t /\ u[x] = t[x - Len(s)]
      BY <1>11, <2>3
    <3> QED BY <1>14, <1>16, <2>3, <3>1
  <2>4. CASE x \notin DOMAIN s /\ y \notin DOMAIN s
    <3>1. /\ x - Len(s) \in DOMAIN t /\ u[x] = t[x - Len(s)]
          /\ y - Len(s) \in DOMAIN t /\ u[y] = t[y - Len(s)]
      BY <1>11, <2>4
    <3>2. x - Len(s) = y - Len(s)
      BY <1>15, <1>16, <3>1
    <3> QED BY <1>9, <1>10, <3>2
  <2> QED BY <2>1, <2>2, <2>3, <2>4
<1>17. ASSUME NEW x \in DOMAIN u
       PROVE  \E g \in DOMAIN gates : g < at + 1 /\ u[x] \in FaultsOf(g)
  <2>1. CASE x \in DOMAIN s
    <3>1. PICK g \in DOMAIN gates : g < at /\ s[x] \in FaultsOf(g)
      BY <1>12, <2>1
    <3>2. u[x] = s[x]
      BY <1>11, <2>1
    <3> QED BY <1>3, <3>1, <3>2
  <2>2. CASE x \notin DOMAIN s
    <3>1. u[x] \in FaultsOf(at)
      BY <1>11, <1>13, <2>2
    <3> QED BY <1>3, <3>1
  <2> QED BY <2>1, <2>2
<1>18. t_faults' = u
  BY <1>1, <1>6, <1>7, <1>8
<1> QED BY <1>1, <1>5, <1>16, <1>17, <1>18 DEF ListedOnce

\* No assertion has failed, and the names given so far differ.
OnceInv == phase # "abort" /\ (phase = "list" => ListedOnce)

LEMMA NamesNextKeepsOnceInv ==
  ASSUME NoOutputReadOnce, EachReadOnce, NInv, TgInv, OnceInv, [NamesNext]_fvars
  PROVE  OnceInv'
<1>1. phase \in {"lines", "manager", "names", "list", "search"}
  BY DEF OnceInv, NInv
<1>2. ASSUME GraphRead
      PROVE  GraphFits /\ OneRead /\ ~OutputReadOnce(file)
  <2>1. GraphFits /\ file \in Netlists /\ Originals = 1 .. Size
    BY <1>2, GraphFitsFile DEF GraphRead
  <2>2. DOMAIN file.ins = Originals
    BY <1>2, <2>1, NetlistsAreLegal DEF GraphRead, LegalNetlist
  <2> QED BY <2>1, <2>2 DEF NoOutputReadOnce, EachReadOnce, OneRead, IsInjective
<1>3. phase \in {"manager", "names", "list", "search"} => GraphRead
  BY DEF TgInv
<1>4. phase \in {"manager", "names", "list", "search"} => Split
  BY DEF NInv, Lined, Listing, Split
<1>5. CASE SplitStems
  BY <1>5 DEF SplitStems, OnceInv
<1>6. CASE ParseGraph
  BY <1>6 DEF ParseGraph, OnceInv
<1>7. CASE AddLineFaults
  <2>1. phase = "manager" /\ GraphRead /\ GraphFits
    BY <1>2, <1>3, <1>7 DEF AddLineFaults
  <2>2. CASE at \in DOMAIN graph.lines
    <3>1. Walked(graph, at) => ~LeadsNowhere(graph.lines[at])
      <4> SUFFICES ASSUME Walked(graph, at) PROVE ~LeadsNowhere(graph.lines[at])
        OBVIOUS
      <4>1. at \in NamedLines(graph)
        BY <2>1, <2>2, LineNumbers
      <4>2. LineFits(at, GateOf(at))
        BY <2>1, <4>1 DEF GraphFits
      <4> QED BY <4>2 DEF LineFits, LeadsNowhere
    <3>2. phase' = phase
      BY <1>7, <2>2, <3>1 DEF AddLineFaults
    <3> QED BY <2>1, <3>2 DEF OnceInv
  <2>3. CASE at \notin DOMAIN graph.lines
    BY <1>7, <2>3 DEF AddLineFaults, OnceInv
  <2> QED BY <2>2, <2>3
<1>8. CASE NameFault
  <2>1. /\ phase = "names" /\ GraphRead /\ GraphFits /\ OneRead /\ ~OutputReadOnce(file)
        /\ Managed /\ Naming /\ t_faults = <<>>
    BY <1>2, <1>3, <1>8 DEF NameFault, TgInv, NInv, Listing
  <2>2. CASE at \in DOMAIN m_faults
    <3>1. KeyOf(graph, m_faults[at]) \notin DOMAIN fault_map
      <4> SUFFICES ASSUME KeyOf(graph, m_faults[at]) \in DOMAIN fault_map PROVE FALSE
        OBVIOUS
      <4>1. PICK m \in DOMAIN m_faults : m < at /\ KeyOf(graph, m_faults[m]) = KeyOf(graph, m_faults[at])
        BY <2>1 DEF Naming, NamedBefore
      <4>2. m_faults[m] \in Range(m_faults) /\ m_faults[at] \in Range(m_faults)
        BY <2>2 DEF Range
      <4>3. IsTgFault(m_faults[m]) /\ IsTgFault(m_faults[at])
        BY <2>1, <4>2 DEF Managed
      <4>4. m_faults[m] = m_faults[at]
        BY <2>1, <4>1, <4>3, TgOnce
      <4>5. m = at
        BY <2>1, <2>2, <4>4 DEF Managed, IsInjective
      <4>6. at \in Nat
        BY <2>1 DEF NInv, Listing
      <4> QED BY <4>1, <4>5, <4>6
    <3>2. phase' = phase
      BY <1>8, <2>2, <3>1 DEF NameFault
    <3> QED BY <2>1, <3>2 DEF OnceInv
  <2>3. CASE at \notin DOMAIN m_faults
    <3>1. phase' = "list" /\ t_faults' = <<>>
      BY <1>8, <2>1, <2>3 DEF NameFault
    <3>2. ListedOnce'
      BY <3>1 DEF ListedOnce
    <3> QED BY <3>1, <3>2 DEF OnceInv
  <2> QED BY <2>2, <2>3
<1>9. CASE ListGate
  <2>1. phase = "list" /\ Split /\ OneRead /\ ListedOnce
    BY <1>2, <1>3, <1>4, <1>9 DEF ListGate, OnceInv
  <2>2. CASE at \in DOMAIN gates
    <3>1. gates[at].is_stem \/ gates[at].isPO \/ Len(gates[at].fanouts) = 1
      BY <2>1, <2>2, FrontTypes
    <3>2. phase' = phase
      BY <1>9, <2>2, <3>1 DEF ListGate
    <3>3. ListedOnce'
      BY <1>9, <2>1, <2>2, ListGateOnce
    <3> QED BY <2>1, <3>2, <3>3 DEF OnceInv
  <2>3. CASE at \notin DOMAIN gates
    <3>1. IsInjective([k \in DOMAIN t_faults |-> t_faults[k].key])
      BY <2>1 DEF ListedOnce, IsInjective
    <3>2. phase' = "search"
      BY <1>9, <2>3, <3>1 DEF ListGate
    <3> QED BY <3>2 DEF OnceInv
  <2> QED BY <2>2, <2>3
<1>10. CASE Ask
  <2>1. /\ phase = "search" /\ Split /\ GraphRead /\ ~OutputReadOnce(file) /\ Named
        /\ t_faults \in Seq(AllFaults)
    BY <1>2, <1>3, <1>4, <1>10 DEF Ask, TgInv
  <2>2. PICK f \in Range(t_faults) :
          phase' = IF f.key \in DOMAIN fault_map THEN phase ELSE "abort"
    BY <1>10 DEF Ask
  <2>3. f \in AllFaults
    BY <2>1, <2>2 DEF Range
  <2>4. f.key \in DOMAIN fault_map
    BY <2>1, <2>3, SameNames
  <2> QED BY <2>1, <2>2, <2>4 DEF OnceInv
<1>11. CASE UNCHANGED fvars
  <2>1. UNCHANGED <<file, gates, at, t_faults, phase>>
    BY <1>11 DEF fvars, vars
  <2>2. \A g : FaultsOf(g)' = FaultsOf(g)
    BY <2>1, SameFaults
  <2>3. ListedOnce' = ListedOnce
    BY <2>1, <2>2 DEF ListedOnce
  <2> QED BY <2>1, <2>3 DEF OnceInv
<1> QED BY <1>5, <1>6, <1>7, <1>8, <1>9, <1>10, <1>11 DEF NamesNext

\* No assertion about the faults fails: neither program gives a name twice, every
\* gate that is no stem has one fanout, every target has its entry in fault_map. The
\* first assumption is what ListsAgree needs; without the second one the two lines
\* between the same gates have one name, and both programs give up.
THEOREM NamingNeverAborts ==
  ASSUME NoOutputReadOnce, EachReadOnce
  PROVE  NamesSpec => []NeverAborts
<1>1. NamesInit => OnceInv
  BY DEF NamesInit, OnceInv
<1>2. NInv /\ TgInv /\ OnceInv /\ [NamesNext]_fvars => OnceInv'
  BY NamesNextKeepsOnceInv
<1>3. OnceInv => NeverAborts
  BY DEF OnceInv, NeverAborts
<1> QED BY <1>1, <1>2, <1>3, NamesSpecHasTgInv, PTL DEF NamesSpec

==============================================================================
