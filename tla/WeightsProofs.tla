---------------------------- MODULE WeightsProofs -----------------------------
(***************************************************************************)
(* Proofs about LutSearch for every cut into LUTs, every table and every   *)
(* choice of the search: the caches are right between two targets, a turn  *)
(* keeps right caches right, and repairs vsat but never breaks it. And     *)
(* about Weights for all options: it is a special case of LutSearch, so    *)
(* what is proved there holds of it, and the weights that ls_update        *)
(* changes stay between their bounds.                                      *)
(***************************************************************************)
EXTENDS Weights, InductionFacts

\* Values whose input indexes are right.
Readable(t) == t.value \in [Luts -> Bits] /\ InputsCoherent(t)

Typed(t) == t \in LutFields /\ InputsCoherent(t)

\* The input index of a LUT spells the values of its fanins.
LEMMA InputsTyped ==
  ASSUME NEW t, Readable(t), NEW l \in Luts
  PROVE  /\ t.input_var[l] \in [Fanin[l] -> Bits]
         /\ \A r \in Fanin[l] : t.input_var[l][r] = t.value[r]
<1>1. t.value \in [Luts -> Bits] /\ t.input_var = InputsOf(t.value)
  BY DEF Readable, InputsCoherent
<1>2. Fanin[l] \subseteq Luts
  BY GraphAssumption
<1>3. t.input_var[l] = [r \in Fanin[l] |-> t.value[r]]
  BY <1>1 DEF InputsOf
<1> QED BY <1>1, <1>2, <1>3

\* A LUT computes a bit.
LEMMA ValueType ==
  ASSUME NEW t, Readable(t), NEW l \in Luts
  PROVE  CalValue(t, l) \in Bits
<1>1. CASE l \in PIs
  BY <1>1 DEF CalValue, Readable
<1>2. CASE l \notin PIs
  BY <1>2, InputsTyped, TableAssumption DEF CalValue
<1> QED BY <1>1, <1>2

\* A reader of a LUT is no primary input, and comes after it.
LEMMA ReaderIsLater ==
  ASSUME NEW l \in Luts, NEW m \in Fanouts(l)
  PROVE  m \in Luts \ PIs /\ l \in Fanin[m] /\ l < m /\ l # m
<1>1. m \in Luts /\ l \in Fanin[m]
  BY DEF Fanouts
<1>2. l < m /\ l \in Nat /\ m \in Nat
  BY <1>1, GraphAssumption
<1> QED BY <1>1, <1>2 DEF PIs

\* What a reader shows of a LUT is fault info.
LEMMA ShownType ==
  ASSUME NEW t, Readable(t), NEW l \in Luts, NEW m \in Fanouts(l)
  PROVE  Shown(t, m, l) \in FaultInfo
<1>1. m \in Luts \ PIs /\ l \in Fanin[m]
  BY ReaderIsLater
<1>2. t.input_var[m] \in [Fanin[m] -> Bits]
  BY <1>1, InputsTyped
<1>3. t.value[m] \in Bits
  BY <1>1 DEF Readable
<1> QED BY <1>1, <1>2, <1>3, TableAssumption DEF Shown

\* The fault info of a LUT has its type.
LEMMA InfoType ==
  ASSUME NEW t, Readable(t), NEW info \in [Luts -> FaultInfo], NEW l \in Luts
  PROVE  CalFaultInfo(t, info, l) \in FaultInfo
<1> DEFINE open == {m \in Fanouts(l) : t.vsat[m]}
           fd == UNION {IF Observed(t, info, m) THEN Shown(t, m, l).fd ELSE {} : m \in open}
           len(x) == {Fpl(Shown(t, m, l), info[m].fpl[1 - t.value[m]], x) : m \in open}
           fpl == [x \in Bits |-> Max({0} \cup len(x))]
<1>1. \A m \in open : m \in Luts /\ Shown(t, m, l) \in FaultInfo
  BY ShownType DEF Fanouts
<1>2. fd \in SUBSET Bits
  BY <1>1 DEF FaultInfo
<1>3. IsFiniteSet(open)
  <2>1. open \in SUBSET Luts
    BY <1>1
  <2> QED BY <2>1, GraphAssumption, FS_Subset
<1>4. ASSUME NEW x \in Bits
      PROVE  Max({0} \cup len(x)) \in Nat
  <2> DEFINE own == [m \in open |-> Fpl(Shown(t, m, l), info[m].fpl[1 - t.value[m]], x)]
  <2>1. len(x) = {own[m] : m \in open}
    OBVIOUS
  <2>2. IsFiniteSet(len(x))
    <3> HIDE DEF own, len, open
    <3> QED BY <1>3, <2>1, FiniteValues
  <2>3. ASSUME NEW m \in open
        PROVE  Fpl(Shown(t, m, l), info[m].fpl[1 - t.value[m]], x) \in Nat
    <3>1. Shown(t, m, l).fpl[x] \in Nat
      BY <1>1 DEF FaultInfo
    <3>2. 1 - t.value[m] \in Bits
      <4>1. t.value[m] \in Bits
        BY <1>1 DEF Readable
      <4> QED BY <4>1 DEF Bits
    <3>3. info[m].fpl[1 - t.value[m]] \in Nat
      BY <1>1, <3>2 DEF FaultInfo
    <3> QED BY <3>1, <3>3 DEF Fpl
  <2>4. {0} \cup len(x) \in SUBSET Nat
    BY <2>3
  <2>5. IsFiniteSet({0} \cup len(x))
    <3> HIDE DEF len
    <3> QED BY <2>2, FS_Singleton, FS_Union
  <2>6. \E n \in {0} \cup len(x) : \A m \in {0} \cup len(x) : n >= m
    <3> HIDE DEF len
    <3> QED BY <2>4, <2>5, GreatestNatural
  <2> HIDE DEF len
  <2>7. Max({0} \cup len(x)) \in {0} \cup len(x)
    BY <2>6 DEF Max
  <2> QED BY <2>4, <2>7
<1>5. fpl \in [Bits -> Nat]
  BY <1>4
<1>6. CalFaultInfo(t, info, l) =
        IF l \in POs THEN [fd |-> {1 - t.value[l]}, fpl |-> [x \in Bits |-> 0]]
                     ELSE [fd |-> fd, fpl |-> fpl]
  BY DEF CalFaultInfo
<1>7. {1 - t.value[l]} \in SUBSET Bits /\ [x \in Bits |-> 0] \in [Bits -> Nat]
  <2>1. t.value[l] \in Bits
    BY DEF Readable
  <2>2. 1 - t.value[l] \in Bits
    BY <2>1 DEF Bits
  <2> QED BY <2>2
<1> HIDE DEF fd, fpl
<1> QED BY <1>2, <1>5, <1>6, <1>7 DEF FaultInfo

\* It depends on the readers of the LUT, and at an output on its own value, only.
LEMMA InfoDepends ==
  ASSUME NEW t, NEW u, NEW info, NEW jnfo, NEW l \in Luts,
         t.value[l] = u.value[l],
         \A m \in Fanouts(l) : /\ t.vsat[m] = u.vsat[m]
                               /\ t.value[m] = u.value[m]
                               /\ t.input_var[m] = u.input_var[m]
                               /\ info[m] = jnfo[m]
  PROVE  CalFaultInfo(t, info, l) = CalFaultInfo(u, jnfo, l)
<1> DEFINE open(v) == {m \in Fanouts(l) : v.vsat[m]}
           fd(v, inf, m) == IF Observed(v, inf, m) THEN Shown(v, m, l).fd ELSE {}
           len(v, inf, x, m) == Fpl(Shown(v, m, l), inf[m].fpl[1 - v.value[m]], x)
<1>1. open(t) = open(u)
  OBVIOUS
<1>2. ASSUME NEW m \in Fanouts(l)
      PROVE  fd(t, info, m) = fd(u, jnfo, m)
             /\ \A x : len(t, info, x, m) = len(u, jnfo, x, m)
  <2>1. Shown(t, m, l) = Shown(u, m, l)
    BY DEF Shown
  <2>2. info[m] = jnfo[m] /\ t.value[m] = u.value[m]
    OBVIOUS
  <2> QED BY <2>1, <2>2 DEF Observed
<1>3. CalFaultInfo(t, info, l) =
        IF l \in POs THEN [fd |-> {1 - t.value[l]}, fpl |-> [x \in Bits |-> 0]]
        ELSE [fd  |-> UNION {fd(t, info, m) : m \in open(t)},
              fpl |-> [x \in Bits |-> Max({0} \cup {len(t, info, x, m) : m \in open(t)})]]
  BY DEF CalFaultInfo
<1>4. CalFaultInfo(u, jnfo, l) =
        IF l \in POs THEN [fd |-> {1 - u.value[l]}, fpl |-> [x \in Bits |-> 0]]
        ELSE [fd  |-> UNION {fd(u, jnfo, m) : m \in open(u)},
              fpl |-> [x \in Bits |-> Max({0} \cup {len(u, jnfo, x, m) : m \in open(u)})]]
  BY DEF CalFaultInfo
<1>5. \A m \in open(t) : m \in Fanouts(l)
  OBVIOUS
<1> HIDE DEF open, fd, len
<1>6. {fd(t, info, m) : m \in open(t)} = {fd(u, jnfo, m) : m \in open(u)}
  BY <1>1, <1>2, <1>5
<1>7. \A x : {len(t, info, x, m) : m \in open(t)} = {len(u, jnfo, x, m) : m \in open(u)}
  BY <1>1, <1>2, <1>5
<1>8. [x \in Bits |-> Max({0} \cup {len(t, info, x, m) : m \in open(t)})]
        = [x \in Bits |-> Max({0} \cup {len(u, jnfo, x, m) : m \in open(u)})]
  BY <1>7
<1>9. UNION {fd(t, info, m) : m \in open(t)} = UNION {fd(u, jnfo, m) : m \in open(u)}
  BY <1>6
<1>10. CASE l \in POs
  BY <1>3, <1>4, <1>10
<1>11. CASE l \notin POs
  BY <1>3, <1>4, <1>8, <1>9, <1>11
<1> QED BY <1>10, <1>11

------------------------------------------------------------------------------
\* Walking the LUTs from the outputs back gives each the info of its readers.
LEMMA AllFaultInfoHolds ==
  ASSUME NEW t, Readable(t)
  PROVE  /\ AllFaultInfo(t) \in [Luts -> FaultInfo]
         /\ \A l \in Luts : AllFaultInfo(t)[l] = CalFaultInfo(t, AllFaultInfo(t), l)
<1>1. PICK n \in Nat : \A l \in Luts : l <= n
  <2>1. CASE Luts = {}
    BY <2>1
  <2>2. CASE Luts # {}
    <3>1. PICK n \in Luts : \A m \in Luts : n >= m
      BY <2>2, GraphAssumption, GreatestNatural
    <3> QED BY <3>1, GraphAssumption
  <2> QED BY <2>1, <2>2
<1> DEFINE rank == [l \in Luts |-> n - l]
           D == [l \in Luts |-> [f \in [Luts -> FaultInfo] |-> CalFaultInfo(t, f, l)]]
<1>2. rank \in [Luts -> Nat]
  <2>1. \A l \in Luts : n - l \in Nat
    BY <1>1, GraphAssumption
  <2> QED BY <2>1
<1>3. \A l \in Luts : \A f \in [Luts -> FaultInfo] :
        D[l][f] = CalFaultInfo(t, f, l) /\ D[l][f] \in FaultInfo
  BY InfoType
<1>4. FaultInfo # {}
  <2>1. [fd |-> {}, fpl |-> [x \in Bits |-> 0]] \in FaultInfo
    BY DEF FaultInfo
  <2> QED BY <2>1
<1>5. ASSUME NEW l \in Luts, NEW f \in [Luts -> FaultInfo], NEW g \in [Luts -> FaultInfo],
             \A m \in Luts : rank[m] < rank[l] => f[m] = g[m]
      PROVE  D[l][f] = D[l][g]
  <2>1. ASSUME NEW m \in Fanouts(l)
        PROVE  f[m] = g[m]
    <3>1. m \in Luts /\ l < m
      BY ReaderIsLater
    <3>2. rank[m] = n - m /\ rank[l] = n - l
      BY <3>1
    <3>3. n - m < n - l
      BY <3>1, GraphAssumption
    <3> QED BY <1>5, <3>1, <3>2, <3>3
  <2>2. CalFaultInfo(t, f, l) = CalFaultInfo(t, g, l)
    BY <2>1, InfoDepends
  <2> QED BY <1>3, <2>2
<1>6. \E f \in [Luts -> FaultInfo] : \A l \in Luts : f[l] = D[l][f]
  <2>1. Delivers(D, Luts, FaultInfo)
    BY <1>3 DEF Delivers
  <2>2. ReadsBelow(D, Luts, FaultInfo, rank)
    BY <1>5 DEF ReadsBelow
  <2>3. \E f \in [Luts -> FaultInfo] : Solves(f, D, Luts)
    <3> HIDE DEF rank, D
    <3> QED BY <1>2, <1>4, <2>1, <2>2, RankedRecursion
  <2> QED BY <2>3 DEF Solves
<1>7. PICK f \in [Luts -> FaultInfo] : \A l \in Luts : f[l] = CalFaultInfo(t, f, l)
  BY <1>3, <1>6
<1>8. f = [l \in Luts |-> CalFaultInfo(t, f, l)]
  BY <1>7
<1> DEFINE info == CHOOSE g : g = [l \in Luts |-> CalFaultInfo(t, g, l)]
<1>9. info = [l \in Luts |-> CalFaultInfo(t, info, l)]
  BY <1>8
<1>10. AllFaultInfo(t) = info
  BY DEF AllFaultInfo
<1> HIDE DEF info
<1>11. DOMAIN info = Luts /\ \A l \in Luts : info[l] = CalFaultInfo(t, info, l)
  BY <1>9
<1>12. ASSUME NEW l \in Luts, \A m \in Luts : rank[m] < rank[l] => f[m] = info[m]
       PROVE  f[l] = info[l]
  <2>1. ASSUME NEW m \in Fanouts(l)
        PROVE  f[m] = info[m]
    <3>1. m \in Luts /\ l < m
      BY ReaderIsLater
    <3>2. rank[m] = n - m /\ rank[l] = n - l
      BY <3>1
    <3>3. n - m < n - l
      BY <3>1, GraphAssumption
    <3> QED BY <1>12, <3>1, <3>2, <3>3
  <2>2. CalFaultInfo(t, f, l) = CalFaultInfo(t, info, l)
    BY <2>1, InfoDepends
  <2> QED BY <1>7, <1>11, <2>2
<1>13. \A l \in Luts : f[l] = info[l]
  <2> HIDE DEF rank
  <2> QED BY <1>2, <1>12, RankedUniqueness
<1>14. info = f
  <2>1. info = [l \in Luts |-> info[l]] /\ f = [l \in Luts |-> f[l]]
    BY <1>9
  <2> QED BY <1>13, <2>1
<1> QED BY <1>10, <1>11, <1>14

\* The values computed from the inputs satisfy every LUT.
LEMMA EvaluateHolds ==
  ASSUME NEW v \in Vectors
  PROVE  /\ Evaluate(v) \in [Luts -> Bits]
         /\ \A l \in Luts : Evaluate(v)[l] =
              IF l \in PIs THEN v[l] ELSE ValueTable[l][[r \in Fanin[l] |-> Evaluate(v)[r]]]
<1> DEFINE W(l, f) == IF l \in PIs THEN v[l] ELSE ValueTable[l][[r \in Fanin[l] |-> f[r]]]
           rank == [l \in Luts |-> l]
           D == [l \in Luts |-> [f \in [Luts -> Bits] |-> W(l, f)]]
<1>1. rank \in [Luts -> Nat]
  BY GraphAssumption
<1>2. ASSUME NEW l \in Luts, NEW f \in [Luts -> Bits]
      PROVE  W(l, f) \in Bits
  <2>1. Fanin[l] \subseteq Luts
    BY GraphAssumption
  <2>2. CASE l \in PIs
    BY <2>2 DEF Vectors
  <2>3. CASE l \notin PIs
    <3>1. [r \in Fanin[l] |-> f[r]] \in [Fanin[l] -> Bits]
      BY <2>1
    <3> QED BY <2>3, <3>1, TableAssumption
  <2> QED BY <2>2, <2>3
<1>3. ASSUME NEW l \in Luts, NEW f, NEW g,
             \A m \in Luts : rank[m] < rank[l] => f[m] = g[m]
      PROVE  W(l, f) = W(l, g)
  <2>1. \A r \in Fanin[l] : r \in Luts /\ r < l
    BY GraphAssumption
  <2>2. \A r \in Fanin[l] : f[r] = g[r]
    BY <1>3, <2>1
  <2>3. [r \in Fanin[l] |-> f[r]] = [r \in Fanin[l] |-> g[r]]
    BY <2>2
  <2> QED BY <2>3
<1> HIDE DEF W, rank
<1>4. Delivers(D, Luts, Bits)
  BY <1>2 DEF Delivers
<1>5. ReadsBelow(D, Luts, Bits, rank)
  BY <1>3 DEF ReadsBelow
<1>6. Bits # {}
  BY DEF Bits
<1>7. \E f \in [Luts -> Bits] : Solves(f, D, Luts)
  <2> HIDE DEF D
  <2> QED BY <1>1, <1>4, <1>5, <1>6, RankedRecursion
<1>8. PICK f \in [Luts -> Bits] : \A l \in Luts : f[l] = W(l, f)
  BY <1>7 DEF Solves
<1>9. f = [l \in Luts |-> W(l, f)]
  BY <1>8
<1> DEFINE val == CHOOSE g : g = [l \in Luts |-> W(l, g)]
<1>10. val = [l \in Luts |-> W(l, val)]
  BY <1>9
<1>11. Evaluate(v) = val
  BY DEF Evaluate, W
<1> HIDE DEF val
<1>12. \A l \in Luts : val[l] = W(l, val)
  BY <1>10
<1>13. ASSUME NEW l \in Luts, \A m \in Luts : rank[m] < rank[l] => f[m] = val[m]
       PROVE  f[l] = val[l]
  BY <1>3, <1>8, <1>12, <1>13
<1>14. \A l \in Luts : f[l] = val[l]
  BY <1>1, <1>13, RankedUniqueness
<1>15. val = f
  <2>1. val = [l \in Luts |-> val[l]] /\ f = [l \in Luts |-> f[l]]
    BY <1>10
  <2> QED BY <1>14, <2>1
<1> QED BY <1>11, <1>12, <1>15 DEF W

------------------------------------------------------------------------------
\* The fields of a state of the LUTs.
LEMMA FieldTypes ==
  ASSUME NEW t, Typed(t)
  PROVE  /\ Readable(t)
         /\ t.value \in [Luts -> Bits]
         /\ t.vsat \in [Luts -> BOOLEAN] /\ t.uptag \in [Luts -> BOOLEAN]
         /\ t.CC \in [Luts -> BOOLEAN]   /\ t.info \in [Luts -> FaultInfo]
         /\ t.input_var = InputsOf(t.value)
BY DEF Typed, Readable, LutFields, InputsCoherent

\* Values and their input indexes are well typed.
LEMMA InputsOfType ==
  ASSUME NEW value \in [Luts -> Bits]
  PROVE  InputsOf(value) \in [Luts -> UNION {[Fanin[l] -> Bits] : l \in Luts}]
<1>1. ASSUME NEW l \in Luts
      PROVE  [r \in Fanin[l] |-> value[r]] \in [Fanin[l] -> Bits]
  BY GraphAssumption
<1> QED BY <1>1 DEF InputsOf

\* flip_value changes one value, and the input indexes follow.
LEMMA FlipValueHolds ==
  ASSUME NEW t, Typed(t), NEW l \in Luts
  PROVE  LET u == FlipValue(t, l)
         IN  /\ Typed(u)
             /\ u.value = [t.value EXCEPT ![l] = 1 - @]
             /\ \A m \in Luts : l \notin Fanin[m] => u.input_var[m] = t.input_var[m]
             /\ u.vsat = t.vsat /\ u.uptag = t.uptag /\ u.info = t.info /\ u.CC = t.CC
<1> DEFINE u == FlipValue(t, l)
           val == [t.value EXCEPT ![l] = 1 - @]
           inp == [m \in Luts |-> IF l \in Fanin[m] THEN [t.input_var[m] EXCEPT ![l] = 1 - @]
                                                    ELSE t.input_var[m]]
<1>1. t \in LutFields
  BY DEF Typed
<1>2. u = [t EXCEPT !.value = val, !.input_var = inp]
  BY <1>1 DEF FlipValue, LutFields
<1>3. /\ u.value = val /\ u.input_var = inp /\ u.vsat = t.vsat /\ u.uptag = t.uptag
      /\ u.info = t.info /\ u.CC = t.CC
      /\ u = [value |-> val, input_var |-> inp, vsat |-> t.vsat, uptag |-> t.uptag,
              info |-> t.info, CC |-> t.CC]
  <2> HIDE DEF val, inp, u
  <2> QED BY <1>1, <1>2 DEF LutFields
<1>4. val \in [Luts -> Bits]
  <2>1. t.value[l] \in Bits
    BY FieldTypes
  <2>2. 1 - t.value[l] \in Bits
    BY <2>1 DEF Bits
  <2> QED BY <2>2, FieldTypes
<1>5. inp = InputsOf(val)
  <2>1. ASSUME NEW m \in Luts
        PROVE  inp[m] = [r \in Fanin[m] |-> val[r]]
    <3>1. Fanin[m] \subseteq Luts
      BY GraphAssumption
    <3>2. t.input_var[m] = [r \in Fanin[m] |-> t.value[r]]
      <4>1. t.input_var = InputsOf(t.value)
        BY FieldTypes
      <4> HIDE DEF val, inp, u
      <4> QED BY <4>1 DEF InputsOf
    <3>3. \A r \in Fanin[m] : val[r] = IF r = l THEN 1 - t.value[r] ELSE t.value[r]
      BY <3>1, FieldTypes
    <3> HIDE DEF val
    <3>4. CASE l \in Fanin[m]
      <4>1. inp[m] = [t.input_var[m] EXCEPT ![l] = 1 - @]
        BY <3>4
      <4> QED BY <3>2, <3>3, <3>4, <4>1
    <3>5. CASE l \notin Fanin[m]
      <4>1. inp[m] = t.input_var[m]
        BY <3>5
      <4> QED BY <3>2, <3>3, <3>5, <4>1
    <3> QED BY <3>4, <3>5
  <2> HIDE DEF val
  <2> QED BY <2>1 DEF InputsOf
<1>6. \A m \in Luts : l \notin Fanin[m] => inp[m] = t.input_var[m]
  OBVIOUS
<1>7. Typed(u)
  <2> HIDE DEF val, inp, u
  <2>1. inp \in [Luts -> UNION {[Fanin[m] -> Bits] : m \in Luts}]
    BY <1>4, <1>5, InputsOfType
  <2>2. u \in LutFields
    BY <1>1, <1>3, <1>4, <2>1 DEF LutFields
  <2> QED BY <1>3, <1>5, <2>2 DEF Typed, InputsCoherent
<1> QED BY <1>3, <1>6, <1>7

\* The other steps of ls_flip change one cache each.
LEMMA FlipVsatHolds ==
  ASSUME NEW t, Typed(t), NEW l \in Luts
  PROVE  LET u == FlipVsat(t, l)
         IN  /\ Typed(u)
             /\ u.vsat = [m \in Luts |->
                  IF l \in Fanin[m] THEN CalValue(t, m) = t.value[m]
                  ELSE IF m = l /\ l \notin PIs THEN ~t.vsat[m] ELSE t.vsat[m]]
             /\ u.value = t.value /\ u.input_var = t.input_var
             /\ u.uptag = t.uptag /\ u.info = t.info /\ u.CC = t.CC
<1> DEFINE u == FlipVsat(t, l)
           vsat == [m \in Luts |->
                  IF l \in Fanin[m] THEN CalValue(t, m) = t.value[m]
                  ELSE IF m = l /\ l \notin PIs THEN ~t.vsat[m] ELSE t.vsat[m]]
<1>1. u = [t EXCEPT !.vsat = vsat]
  BY DEF FlipVsat
<1>2. vsat \in [Luts -> BOOLEAN]
  BY FieldTypes, Zenon
<1> HIDE DEF u, vsat
<1>3. /\ u.vsat = vsat /\ u.value = t.value /\ u.input_var = t.input_var
      /\ u.uptag = t.uptag /\ u.info = t.info /\ u.CC = t.CC /\ u \in LutFields
  BY <1>1, <1>2 DEF Typed, LutFields
<1>4. Typed(u)
  BY <1>3 DEF Typed, InputsCoherent
<1> QED BY <1>3, <1>4 DEF u, vsat

LEMMA FlipInfoHolds ==
  ASSUME NEW t, Typed(t), NEW l \in Luts
  PROVE  LET u == FlipInfo(t, l)
         IN  /\ Typed(u)
             /\ u.info = [t.info EXCEPT ![l] = CalFaultInfo(t, t.info, l)]
             /\ u.value = t.value /\ u.input_var = t.input_var
             /\ u.vsat = t.vsat /\ u.uptag = t.uptag /\ u.CC = t.CC
<1> DEFINE u == FlipInfo(t, l)
           info == [t.info EXCEPT ![l] = CalFaultInfo(t, t.info, l)]
<1>1. t \in LutFields
  BY DEF Typed
<1>2. u = [t EXCEPT !.info = info]
  BY <1>1 DEF FlipInfo, LutFields
<1>3. info \in [Luts -> FaultInfo]
  <2>1. CalFaultInfo(t, t.info, l) \in FaultInfo
    BY FieldTypes, InfoType
  <2> QED BY <2>1, FieldTypes
<1> HIDE DEF u, info
<1>4. /\ u.info = info /\ u.value = t.value /\ u.input_var = t.input_var
      /\ u.uptag = t.uptag /\ u.vsat = t.vsat /\ u.CC = t.CC /\ u \in LutFields
  BY <1>1, <1>2, <1>3 DEF LutFields
<1>5. Typed(u)
  BY <1>4 DEF Typed, InputsCoherent
<1> QED BY <1>4, <1>5 DEF u, info

LEMMA MarkRegionHolds ==
  ASSUME NEW t, Typed(t), NEW l \in Luts
  PROVE  LET u == MarkRegion(t, l)
         IN  /\ Typed(u)
             /\ u.value = t.value /\ u.input_var = t.input_var
             /\ u.vsat = t.vsat /\ u.info = t.info
             /\ \A m \in Luts \ {l} : ~u.uptag[m] =>
                  /\ ~t.uptag[m]
                  /\ m \in Region(l) => CalFaultInfo(t, t.info, m) = t.info[m]
<1> DEFINE u == MarkRegion(t, l)
           uptag == [m \in Luts |-> m # l /\ (t.uptag[m] \/
                  (m \in Region(l) /\ CalFaultInfo(t, t.info, m) # t.info[m]))]
           CC == [m \in Luts |-> m # l /\ (t.CC[m] \/ m \in Fanouts(l) \cup Region(l))]
<1>1. u = [t EXCEPT !.uptag = uptag, !.CC = CC]
  BY DEF MarkRegion
<1>2. uptag \in [Luts -> BOOLEAN] /\ CC \in [Luts -> BOOLEAN]
  BY FieldTypes, Zenon
<1> HIDE DEF u, uptag, CC
<1>3. /\ u.uptag = uptag /\ u.value = t.value /\ u.input_var = t.input_var
      /\ u.vsat = t.vsat /\ u.info = t.info /\ u \in LutFields
  BY <1>1, <1>2 DEF Typed, LutFields
<1>4. Typed(u)
  BY <1>3 DEF Typed, InputsCoherent
<1>5. ASSUME NEW m \in Luts \ {l}, ~u.uptag[m]
      PROVE  ~t.uptag[m] /\ (m \in Region(l) => CalFaultInfo(t, t.info, m) = t.info[m])
  <2>1. ~(t.uptag[m] \/ (m \in Region(l) /\ CalFaultInfo(t, t.info, m) # t.info[m]))
    BY <1>3, <1>5, Zenon DEF uptag
  <2> QED BY <2>1
<1> QED BY <1>3, <1>4, <1>5 DEF u

LEMMA CalScoresHolds ==
  ASSUME NEW t, Typed(t), NEW S
  PROVE  LET u == CalScores(t, S)
         IN  /\ Typed(u)
             /\ u.vsat = [m \in Luts |->
                  IF Fanin[m] \cap S # {} THEN CalValue(t, m) = t.value[m] ELSE t.vsat[m]]
             /\ u.value = t.value /\ u.input_var = t.input_var
             /\ u.uptag = t.uptag /\ u.info = t.info /\ u.CC = t.CC
<1> DEFINE u == CalScores(t, S)
           vsat == [m \in Luts |->
                  IF Fanin[m] \cap S # {} THEN CalValue(t, m) = t.value[m] ELSE t.vsat[m]]
<1>1. u = [t EXCEPT !.vsat = vsat]
  BY DEF CalScores
<1>2. vsat \in [Luts -> BOOLEAN]
  BY FieldTypes, Zenon
<1> HIDE DEF u, vsat
<1>3. /\ u.vsat = vsat /\ u.value = t.value /\ u.input_var = t.input_var
      /\ u.uptag = t.uptag /\ u.info = t.info /\ u.CC = t.CC /\ u \in LutFields
  BY <1>1, <1>2 DEF Typed, LutFields
<1>4. Typed(u)
  BY <1>3 DEF Typed, InputsCoherent
<1> QED BY <1>3, <1>4 DEF u, vsat

------------------------------------------------------------------------------
\* vsat of one LUT is right.
VsatRight(t, m) == t.vsat[m] <=> t.value[m] = CalValue(t, m)

\* A LUT computes the same from the same value and input index.
LEMMA SameValue ==
  ASSUME NEW t, NEW u, NEW m,
         t.value[m] = u.value[m], t.input_var[m] = u.input_var[m]
  PROVE  CalValue(t, m) = CalValue(u, m)
BY DEF CalValue

LEMMA SameVsat ==
  ASSUME NEW t, NEW u, NEW m, VsatRight(t, m),
         t.value[m] = u.value[m], t.input_var[m] = u.input_var[m], t.vsat[m] = u.vsat[m]
  PROVE  VsatRight(u, m)
BY SameValue DEF VsatRight

\* The first steps of ls_flip: the value and vsat.
Flipped(t, l) == FlipVsat(FlipValue(t, l), l)

\* The flip sets vsat of the readers, and toggles that of the LUT itself, which is
\* what a right one needs.
LEMMA FlipVsatRight ==
  ASSUME NEW t, Typed(t), NEW l \in Luts, NEW m \in Luts,
         m \in Fanouts(l) \/ VsatRight(t, m)
  PROVE  VsatRight(Flipped(t, l), m)
<1> DEFINE a == FlipValue(t, l)
           u == FlipVsat(a, l)
<1>0. SUFFICES VsatRight(u, m)
  BY DEF Flipped
<1>1. /\ Typed(a) /\ a.value = [t.value EXCEPT ![l] = 1 - @]
      /\ \A k \in Luts : l \notin Fanin[k] => a.input_var[k] = t.input_var[k]
      /\ a.vsat = t.vsat
  BY FlipValueHolds
<1> HIDE DEF a
<1>2. /\ u.vsat = [k \in Luts |->
           IF l \in Fanin[k] THEN CalValue(a, k) = a.value[k]
           ELSE IF k = l /\ l \notin PIs THEN ~a.vsat[k] ELSE a.vsat[k]]
      /\ u.value = a.value /\ u.input_var = a.input_var
  <2>1. Typed(a)
    BY <1>1
  <2> QED BY <2>1, FlipVsatHolds, Zenon
<1> HIDE DEF u
<1>3. CalValue(u, m) = CalValue(a, m)
  BY <1>2, SameValue
<1>4. CASE l \in Fanin[m]
  <2>1. u.vsat[m] <=> CalValue(a, m) = a.value[m]
    BY <1>2, <1>4
  <2>2. u.value[m] = a.value[m]
    BY <1>2
  <2> QED BY <1>3, <2>1, <2>2 DEF VsatRight
<1>5. CASE l \notin Fanin[m]
  <2>1. VsatRight(t, m)
    BY <1>5 DEF Fanouts
  <2>2. a.input_var[m] = t.input_var[m]
    BY <1>1, <1>5
  <2>3. CASE m # l
    <3>1. u.vsat[m] = t.vsat[m]
      BY <1>1, <1>2, <1>5, <2>3, Zenon
    <3>2. u.value[m] = t.value[m] /\ u.input_var[m] = t.input_var[m]
      <4>1. t.value \in [Luts -> Bits]
        BY FieldTypes
      <4>2. a.value[m] = t.value[m]
        BY <1>1, <2>3, <4>1
      <4>3. u.value = a.value /\ u.input_var = a.input_var
        BY <1>2
      <4> QED BY <2>2, <4>2, <4>3
    <3>3. /\ t.value[m] = u.value[m] /\ t.input_var[m] = u.input_var[m]
          /\ t.vsat[m] = u.vsat[m]
      BY <3>1, <3>2, Zenon
    <3> QED BY <2>1, <3>3, SameVsat, Zenon
  <2>4. CASE m = l /\ l \in PIs
    <3>1. u.vsat[m] = t.vsat[m]
      BY <1>1, <1>2, <1>5, <2>4, SMTT(30)
    <3>2. t.value[m] = CalValue(t, m) /\ u.value[m] = CalValue(u, m)
      BY <2>4 DEF CalValue
    <3> QED BY <2>1, <3>1, <3>2 DEF VsatRight
  <2>5. CASE m = l /\ l \notin PIs
    <3>1. u.vsat[m] = ~ t.vsat[m]
      BY <1>1, <1>2, <1>5, <2>5, Zenon
    <3>2. u.value[m] = 1 - t.value[m] /\ t.value[m] \in Bits
      BY <1>1, <1>2, <2>5, FieldTypes
    <3>3. CalValue(u, m) = CalValue(t, m)
      BY <1>2, <2>2, <2>5 DEF CalValue
    <3>4. CalValue(t, m) \in Bits
      BY FieldTypes, ValueType
    <3>5. u.value[m] = CalValue(u, m) <=> ~(t.value[m] = CalValue(t, m))
      BY <3>2, <3>3, <3>4 DEF Bits
    <3>6. u.vsat[m] <=> ~ t.vsat[m]
      BY <3>1
    <3> QED BY <2>1, <3>5, <3>6 DEF VsatRight
  <2> QED BY <2>3, <2>4, <2>5
<1> QED BY <1>4, <1>5

\* A LUT u leaves unmarked was unmarked in t and, if it lies in reigon, is up to date.
MarksHold(t, u, l) ==
  \A m \in Luts \ {l} : ~u.uptag[m] =>
    /\ ~t.uptag[m]
    /\ m \in Region(l) => CalFaultInfo(u, u.info, m) = u.info[m]

\* ls_flip step by step.
LEMMA LsFlipHolds ==
  ASSUME NEW t, Typed(t), NEW l \in Luts
  PROVE  /\ Typed(LsFlip(t, l)) /\ Typed(Flipped(t, l))
         /\ LsFlip(t, l).value = Flipped(t, l).value
         /\ LsFlip(t, l).input_var = Flipped(t, l).input_var
         /\ LsFlip(t, l).vsat = Flipped(t, l).vsat
         /\ LsFlip(t, l).info[l] = CalFaultInfo(Flipped(t, l), t.info, l)
         /\ \A m \in Luts \ {l} : /\ Flipped(t, l).value[m] = t.value[m]
                                 /\ LsFlip(t, l).info[m] = t.info[m]
         /\ \A m \in Luts : l \notin Fanin[m] =>
              Flipped(t, l).input_var[m] = t.input_var[m]
         /\ \A m \in Luts : l \notin Fanin[m] /\ m # l =>
              Flipped(t, l).vsat[m] = t.vsat[m]
         /\ MarksHold(t, LsFlip(t, l), l)
<1> DEFINE a == FlipValue(t, l)
           b == FlipVsat(a, l)
           c == FlipInfo(b, l)
           u == MarkRegion(c, l)
<1>1. /\ Typed(a) /\ a.info = t.info /\ a.uptag = t.uptag /\ a.vsat = t.vsat
      /\ a.value = [t.value EXCEPT ![l] = 1 - @]
      /\ \A m \in Luts : l \notin Fanin[m] => a.input_var[m] = t.input_var[m]
  BY FlipValueHolds
<1> HIDE DEF a
<1>2. /\ Typed(b) /\ b.info = a.info /\ b.uptag = a.uptag
      /\ b.value = a.value /\ b.input_var = a.input_var
      /\ b.vsat = [m \in Luts |->
           IF l \in Fanin[m] THEN CalValue(a, m) = a.value[m]
           ELSE IF m = l /\ l \notin PIs THEN ~a.vsat[m] ELSE a.vsat[m]]
  <2>1. Typed(a)
    BY <1>1
  <2> QED BY <2>1, FlipVsatHolds, Zenon
<1> HIDE DEF b
<1>3. \A m \in Luts : l \notin Fanin[m] /\ m # l => b.vsat[m] = a.vsat[m]
  BY <1>2, Zenon
<1>4. /\ Typed(c) /\ c.info = [b.info EXCEPT ![l] = CalFaultInfo(b, b.info, l)]
      /\ c.uptag = b.uptag /\ c.value = b.value /\ c.input_var = b.input_var
      /\ c.vsat = b.vsat
  <2>1. Typed(b)
    BY <1>2
  <2> QED BY <2>1, FlipInfoHolds, Zenon
<1> HIDE DEF c
<1>5. /\ Typed(u) /\ u.value = c.value /\ u.input_var = c.input_var
      /\ u.vsat = c.vsat /\ u.info = c.info
      /\ \A m \in Luts \ {l} : ~u.uptag[m] =>
           /\ ~c.uptag[m]
           /\ m \in Region(l) => CalFaultInfo(c, c.info, m) = c.info[m]
  <2>1. Typed(c)
    BY <1>4
  <2> QED BY <2>1, MarkRegionHolds, Zenon
<1> HIDE DEF u
<1>6. ASSUME NEW m \in Luts \ {l}, ~u.uptag[m]
      PROVE  /\ ~t.uptag[m]
             /\ m \in Region(l) => CalFaultInfo(u, u.info, m) = u.info[m]
  <2>1. c.uptag = t.uptag
    BY <1>1, <1>2, <1>4
  <2>2. CalFaultInfo(c, c.info, m) = CalFaultInfo(u, u.info, m)
    BY <1>5, InfoDepends
  <2> QED BY <1>5, <1>6, <2>1, <2>2
<1>7. MarksHold(t, u, l)
  BY <1>6 DEF MarksHold
<1>8. LsFlip(t, l) = u /\ Flipped(t, l) = b
  BY DEF LsFlip, Flipped, a, b, c, u
<1>9. c.info = [t.info EXCEPT ![l] = CalFaultInfo(b, t.info, l)]
  BY <1>1, <1>2, <1>4
<1>10. /\ u.info[l] = CalFaultInfo(b, t.info, l)
      /\ \A m \in Luts \ {l} : b.value[m] = t.value[m] /\ u.info[m] = t.info[m]
  BY <1>1, <1>2, <1>5, <1>9, FieldTypes
<1>11. \A m \in Luts : l \notin Fanin[m] => b.input_var[m] = t.input_var[m]
  BY <1>1, <1>2
<1>12. \A m \in Luts : l \notin Fanin[m] /\ m # l => b.vsat[m] = t.vsat[m]
  BY <1>1, <1>3
<1>13. Typed(b) /\ Typed(u)
  BY <1>2, <1>5
<1>14. u.value = b.value /\ u.input_var = b.input_var /\ u.vsat = b.vsat
  BY <1>4, <1>5
<1> QED BY <1>8, <1>10, <1>11, <1>12, <1>13, <1>14, <1>7

\* A flip makes no vsat wrong.
LEMMA FlipKeepsVsat ==
  ASSUME NEW t, Typed(t), NEW l \in Luts, NEW m \in Luts, VsatRight(t, m)
  PROVE  VsatRight(LsFlip(t, l), m)
<1> DEFINE b == Flipped(t, l)
           u == LsFlip(t, l)
<1>1. u.value = b.value /\ u.input_var = b.input_var /\ u.vsat = b.vsat
  BY LsFlipHolds
<1>2. VsatRight(b, m)
  BY FlipVsatRight
<1> HIDE DEF b, u
<1> QED BY <1>1, <1>2, SameVsat DEF u

\* reigon holds what l reads and what its readers read.
LEMMA RegionCovers ==
  ASSUME NEW l, NEW r, r # l, r \notin Region(l)
  PROVE  r \notin Fanin[l] /\ \A m \in Fanouts(l) : r \notin Fanin[m]
<1> DEFINE beside == UNION {Fanin[m] : m \in Fanouts(l)}
<1>1. Region(l) = (Fanin[l] \cup beside) \ {l}
  BY DEF Region
<1>2. \A m \in Fanouts(l) : Fanin[m] \subseteq beside
  OBVIOUS
<1> HIDE DEF beside
<1> QED BY <1>1, <1>2

\* The fault info of the flipped LUT is computed anew, and beside it only that of
\* the LUTs in reigon reads something the flip has changed: what uptag leaves
\* unmarked is up to date.
LEMMA FlipKeepsInfo ==
  ASSUME NEW t, Typed(t), InfoCoherent(t), NEW l \in Luts
  PROVE  InfoCoherent(LsFlip(t, l))
<1> DEFINE b == Flipped(t, l)
           u == LsFlip(t, l)
<1>1. /\ u.value = b.value /\ u.input_var = b.input_var /\ u.vsat = b.vsat
      /\ u.info[l] = CalFaultInfo(b, t.info, l)
  BY LsFlipHolds
<1>2. /\ \A m \in Luts : l \notin Fanin[m] => b.input_var[m] = t.input_var[m]
      /\ \A m \in Luts : l \notin Fanin[m] /\ m # l => b.vsat[m] = t.vsat[m]
  BY LsFlipHolds
<1>3. MarksHold(t, u, l)
  BY LsFlipHolds
<1>4. \A m \in Luts \ {l} : u.info[m] = t.info[m] /\ u.value[m] = t.value[m]
  <2>1. \A m \in Luts \ {l} : u.info[m] = t.info[m] /\ b.value[m] = t.value[m]
    BY LsFlipHolds
  <2> QED BY <1>1, <2>1
<1> HIDE DEF b, u
<1>5. ASSUME NEW r \in Luts, ~u.uptag[r]
      PROVE  u.info[r] = CalFaultInfo(u, u.info, r)
  <2>1. CASE r = l
    <3>1. \A m \in Fanouts(l) : m \in Luts \ {l}
      BY ReaderIsLater
    <3>2. CalFaultInfo(b, t.info, l) = CalFaultInfo(u, u.info, l)
      BY <1>1, <1>4, <3>1, InfoDepends
    <3>3. u.info[l] = CalFaultInfo(b, t.info, l)
      BY <1>1, <1>4
    <3> QED BY <2>1, <3>2, <3>3
  <2>2. CASE r # l /\ r \in Region(l)
    BY <1>3, <1>5, <2>2 DEF MarksHold
  <2>3. CASE r # l /\ r \notin Region(l)
    <3>1. ~t.uptag[r]
      BY <1>3, <1>5, <2>3 DEF MarksHold
    <3>2. t.info[r] = CalFaultInfo(t, t.info, r)
      BY <3>1 DEF InfoCoherent
    <3>3. ASSUME NEW m \in Fanouts(r)
          PROVE  m \in Luts \ {l} /\ l \notin Fanin[m]
      <4>1. m \in Luts /\ r \in Fanin[m]
        BY DEF Fanouts
      <4>2. r \notin Fanin[l] /\ m \notin Fanouts(l)
        BY <2>3, <4>1, RegionCovers
      <4> QED BY <4>1, <4>2 DEF Fanouts
    <3>4. ASSUME NEW m \in Fanouts(r)
          PROVE  /\ t.vsat[m] = u.vsat[m] /\ t.value[m] = u.value[m]
                 /\ t.input_var[m] = u.input_var[m] /\ t.info[m] = u.info[m]
      BY <1>1, <1>2, <1>4, <3>3
    <3>5. t.value[r] = u.value[r] /\ t.info[r] = u.info[r]
      BY <1>4, <2>3
    <3>6. CalFaultInfo(t, t.info, r) = CalFaultInfo(u, u.info, r)
      BY <3>4, <3>5, InfoDepends
    <3> QED BY <3>2, <3>5, <3>6
  <2> QED BY <2>1, <2>2, <2>3
<1> QED BY <1>5 DEF InfoCoherent, u

------------------------------------------------------------------------------
\* The vsat that are wrong, LUT by LUT.
LEMMA StaleAreWrong ==
  ASSUME NEW t, Typed(t)
  PROVE  StaleVsat(t) = {m \in Luts : ~VsatRight(t, m)}
<1>1. ASSUME NEW m \in Luts
      PROVE  (t.vsat[m] # (t.value[m] = CalValue(t, m))) <=> ~VsatRight(t, m)
  <2>1. t.vsat[m] \in BOOLEAN
    BY FieldTypes
  <2> QED BY <2>1 DEF VsatRight
<1> QED BY <1>1, Zenon DEF StaleVsat

\* Scoring evaluates vsat where it tries a flip, and touches nothing else.
LEMMA ScoringKeepsVsat ==
  ASSUME NEW t, Typed(t), NEW S, NEW m \in Luts, VsatRight(t, m)
  PROVE  VsatRight(CalScores(t, S), m)
<1> DEFINE u == CalScores(t, S)
<1>1. /\ u.vsat = [k \in Luts |->
           IF Fanin[k] \cap S # {} THEN CalValue(t, k) = t.value[k] ELSE t.vsat[k]]
      /\ u.value = t.value /\ u.input_var = t.input_var
  BY CalScoresHolds
<1> HIDE DEF u
<1>2. CalValue(u, m) = CalValue(t, m)
  BY <1>1, SameValue
<1>3. CASE Fanin[m] \cap S # {}
  <2>1. u.vsat[m] <=> CalValue(t, m) = t.value[m]
    BY <1>1, <1>3
  <2>2. u.value[m] = t.value[m]
    BY <1>1
  <2>3. VsatRight(u, m)
    BY <1>2, <2>1, <2>2 DEF VsatRight
  <2> QED BY <2>3 DEF u
<1>4. CASE Fanin[m] \cap S = {}
  <2>1. u.vsat[m] = t.vsat[m]
    BY <1>1, <1>4, Zenon
  <2>2. VsatRight(u, m)
    BY <1>1, <2>1, SameVsat
  <2> QED BY <2>2 DEF u
<1> QED BY <1>3, <1>4

\* When every vsat is right, scoring leaves the state alone.
LEMMA ScoringKeepsInfo ==
  ASSUME NEW t, Typed(t), Coherent(t), NEW S
  PROVE  InfoCoherent(CalScores(t, S))
<1> DEFINE u == CalScores(t, S)
<1>1. /\ Typed(u)
      /\ u.value = t.value /\ u.input_var = t.input_var
      /\ u.uptag = t.uptag /\ u.info = t.info
  BY CalScoresHolds
<1>2. ASSUME NEW m \in Luts
      PROVE  VsatRight(t, m) /\ VsatRight(u, m)
  <2>1. VsatRight(t, m)
    BY StaleAreWrong DEF Coherent
  <2> QED BY <2>1, ScoringKeepsVsat
<1> HIDE DEF u
<1>3. ASSUME NEW m \in Luts
      PROVE  u.vsat[m] = t.vsat[m]
  <2>1. u.vsat[m] \in BOOLEAN /\ t.vsat[m] \in BOOLEAN
    BY <1>1, FieldTypes
  <2>2. CalValue(u, m) = CalValue(t, m)
    BY <1>1, SameValue
  <2> QED BY <1>1, <1>2, <2>1, <2>2 DEF VsatRight
<1>4. ASSUME NEW r \in Luts, ~u.uptag[r]
      PROVE  u.info[r] = CalFaultInfo(u, u.info, r)
  <2>1. t.info[r] = CalFaultInfo(t, t.info, r)
    BY <1>1, <1>4 DEF Coherent, InfoCoherent
  <2>2. \A m \in Fanouts(r) : m \in Luts
    BY DEF Fanouts
  <2>3. CalFaultInfo(t, t.info, r) = CalFaultInfo(u, u.info, r)
    BY <1>1, <1>3, <2>2, InfoDepends
  <2> QED BY <1>1, <2>1, <2>3
<1> QED BY <1>4 DEF InfoCoherent, u

\* Coherent is: typed, all vsat right, all info up to date.
LEMMA CoherentIs ==
  ASSUME NEW t, Typed(t)
  PROVE  Coherent(t) <=> (\A m \in Luts : VsatRight(t, m)) /\ InfoCoherent(t)
BY StaleAreWrong DEF Coherent, Typed

\* A turn of the search: scoring, then a flip.
LEMMA TurnKeepsVsat ==
  ASSUME NEW t, Typed(t), NEW S, NEW l \in Luts
  PROVE  /\ Typed(LsFlip(CalScores(t, S), l))
         /\ StaleVsat(LsFlip(CalScores(t, S), l)) \subseteq StaleVsat(t)
         /\ Coherent(t) => Coherent(LsFlip(CalScores(t, S), l))
<1> DEFINE a == CalScores(t, S)
           u == LsFlip(a, l)
<1>1. Typed(a)
  BY CalScoresHolds
<1>2. \A m \in Luts : VsatRight(t, m) => VsatRight(a, m)
  BY ScoringKeepsVsat
<1>3. Coherent(t) => InfoCoherent(a)
  BY ScoringKeepsInfo
<1> HIDE DEF a
<1>4. Typed(u)
  BY <1>1, LsFlipHolds
<1>5. \A m \in Luts : VsatRight(a, m) => VsatRight(u, m)
  BY <1>1, FlipKeepsVsat
<1>6. InfoCoherent(a) => InfoCoherent(u)
  BY <1>1, FlipKeepsInfo
<1> HIDE DEF u
<1>7. StaleVsat(u) \subseteq StaleVsat(t)
  BY <1>2, <1>4, <1>5, StaleAreWrong
<1>8. Coherent(t) => Coherent(u)
  BY <1>2, <1>3, <1>4, <1>5, <1>6, CoherentIs
<1> QED BY <1>4, <1>7, <1>8 DEF a, u

\* Taking a flip back is a flip after which the LUT is not to be picked.
LEMMA UnflipKeeps ==
  ASSUME NEW t, Typed(t), NEW l \in Luts
  PROVE  /\ Typed(Unflip(t, l))
         /\ StaleVsat(Unflip(t, l)) \subseteq StaleVsat(t)
         /\ Coherent(t) => Coherent(Unflip(t, l))
<1> DEFINE a == LsFlip(t, l)
           CC == [a.CC EXCEPT ![l] = FALSE]
           u == [a EXCEPT !.CC = CC]
<1>1. Typed(a)
  BY LsFlipHolds
<1>2. \A m \in Luts : VsatRight(t, m) => VsatRight(a, m)
  BY FlipKeepsVsat
<1>3. InfoCoherent(t) => InfoCoherent(a)
  BY FlipKeepsInfo
<1> HIDE DEF a
<1>4. CC \in [Luts -> BOOLEAN]
  BY <1>1, FieldTypes
<1>5. Unflip(t, l) = u
  BY <1>1 DEF Unflip, a, Typed, LutFields
<1> HIDE DEF CC
<1>6. /\ u.value = a.value /\ u.input_var = a.input_var /\ u.vsat = a.vsat
      /\ u.uptag = a.uptag /\ u.info = a.info /\ u \in LutFields
  BY <1>1, <1>4 DEF Typed, LutFields
<1> HIDE DEF u
<1>7. Typed(u)
  BY <1>1, <1>6 DEF Typed, InputsCoherent
<1>8. \A m \in Luts : VsatRight(a, m) => VsatRight(u, m)
  BY <1>6, SameVsat
<1>9. InfoCoherent(a) => InfoCoherent(u)
  <2>1. ASSUME NEW r \in Luts
        PROVE  CalFaultInfo(a, a.info, r) = CalFaultInfo(u, u.info, r)
    BY <1>6, InfoDepends
  <2> QED BY <1>6, <2>1 DEF InfoCoherent
<1>10. StaleVsat(u) \subseteq StaleVsat(t)
  BY <1>2, <1>7, <1>8, StaleAreWrong
<1>11. Coherent(t) => Coherent(u)
  BY <1>2, <1>3, <1>7, <1>8, <1>9, CoherentIs
<1> QED BY <1>5, <1>7, <1>10, <1>11

------------------------------------------------------------------------------
\* All vsat right, and the fault info of all LUTs computed anew, is coherent.
LEMMA AllInfoIsCoherent ==
  ASSUME NEW t, Readable(t), \A m \in Luts : VsatRight(t, m),
         NEW u, Typed(u), u.value = t.value, u.input_var = t.input_var, u.vsat = t.vsat,
         u.info = AllFaultInfo(t)
  PROVE  Coherent(u)
<1>1. \A m \in Luts : VsatRight(u, m)
  BY SameVsat
<1>2. ASSUME NEW r \in Luts
      PROVE  u.info[r] = CalFaultInfo(u, u.info, r)
  <2>1. u.info[r] = CalFaultInfo(t, u.info, r)
    BY AllFaultInfoHolds
  <2>2. CalFaultInfo(t, u.info, r) = CalFaultInfo(u, u.info, r)
    BY InfoDepends
  <2> QED BY <2>1, <2>2
<1>3. InfoCoherent(u)
  BY <1>2 DEF InfoCoherent
<1> QED BY <1>1, <1>3, CoherentIs

\* ls_random_sol leaves all caches right.
LEMMA RandomSolCoherent ==
  ASSUME NEW val \in [Luts -> Bits]
  PROVE  Typed(RandomSol(val)) /\ Coherent(RandomSol(val))
<1> DEFINE yes == [l \in Luts |-> TRUE]
           no == [l \in Luts |-> FALSE]
           fresh == [value |-> val, input_var |-> InputsOf(val), vsat |-> yes,
                     uptag |-> no, info |-> <<>>, CC |-> yes]
           vsat == [l \in Luts |-> fresh.value[l] = CalValue(fresh, l)]
           a == [fresh EXCEPT !.vsat = vsat]
           info == AllFaultInfo(a)
           b == [a EXCEPT !.info = info]
           u == CalScores(b, Luts)
<1>1. RandomSol(val) = u
  BY DEF RandomSol, WithInfo, WithVsat
<1>2. vsat \in [Luts -> BOOLEAN] /\ yes \in [Luts -> BOOLEAN] /\ no \in [Luts -> BOOLEAN]
  BY Zenon
<1>3. a = [value |-> val, input_var |-> InputsOf(val), vsat |-> vsat,
           uptag |-> no, info |-> <<>>, CC |-> yes]
  <2> HIDE DEF vsat, yes, no
  <2> QED OBVIOUS
<1>4. ASSUME NEW m \in Luts
      PROVE  VsatRight(a, m)
  <2>1. a.value[m] = fresh.value[m] /\ a.input_var[m] = fresh.input_var[m]
    BY <1>3
  <2>2. vsat[m] <=> fresh.value[m] = CalValue(fresh, m)
    OBVIOUS
  <2>3. CalValue(a, m) = CalValue(fresh, m)
    <3> HIDE DEF a, fresh
    <3> QED BY <2>1, SameValue
  <2>4. a.vsat = vsat
    BY <1>3
  <2> HIDE DEF a, fresh, vsat
  <2> QED BY <2>1, <2>2, <2>3, <2>4 DEF VsatRight
<1> HIDE DEF vsat, fresh, yes, no
<1>5. Readable(a)
  BY <1>3 DEF Readable, InputsCoherent
<1>6. info \in [Luts -> FaultInfo] /\ info = AllFaultInfo(a)
  BY <1>5, AllFaultInfoHolds
<1> HIDE DEF info
<1>7. b = [value |-> val, input_var |-> InputsOf(val), vsat |-> vsat,
           uptag |-> no, info |-> info, CC |-> yes]
  <2> HIDE DEF a
  <2> QED BY <1>3
<1>8. /\ b.value = a.value /\ b.input_var = a.input_var /\ b.vsat = a.vsat
      /\ b.info = info /\ b.value = val /\ b.input_var = InputsOf(val)
  BY <1>3, <1>7
<1>9. Typed(b)
  <2> HIDE DEF a
  <2>1. b \in LutFields
    <3>1. InputsOf(val) \in [Luts -> UNION {[Fanin[l] -> Bits] : l \in Luts}]
      BY <1>2, InputsOfType
    <3> QED BY <1>2, <1>6, <1>7, <3>1 DEF LutFields
  <2> HIDE DEF b
  <2> QED BY <1>8, <2>1 DEF Typed, InputsCoherent
<1> HIDE DEF a, b
<1>10. Coherent(b)
  BY <1>4, <1>5, <1>6, <1>8, <1>9, AllInfoIsCoherent
<1>11. \A m \in Luts : VsatRight(u, m)
  BY <1>9, <1>10, CoherentIs, ScoringKeepsVsat
<1>12. Typed(u) /\ InfoCoherent(u)
  BY <1>9, <1>10, CalScoresHolds, ScoringKeepsInfo
<1> HIDE DEF u
<1>13. Coherent(u)
  BY <1>11, <1>12, CoherentIs
<1> QED BY <1>1, <1>12, <1>13

\* The end of ls_gen_sol leaves all caches right, whatever the search made of them.
LEMMA SettleCoherent ==
  ASSUME NEW t, Typed(t), NEW v \in Vectors
  PROVE  Typed(Settle(t, v)) /\ Coherent(Settle(t, v))
<1> DEFINE val == Evaluate(v)
           yes == [l \in Luts |-> TRUE]
           a == [t EXCEPT !.value = val, !.input_var = InputsOf(val), !.vsat = yes]
           info == AllFaultInfo(a)
           u == [a EXCEPT !.info = info]
<1>1. Settle(t, v) = u
  BY DEF Settle, Satisfied, WithInfo
<1>2. /\ val \in [Luts -> Bits]
      /\ \A l \in Luts : val[l] =
           IF l \in PIs THEN v[l] ELSE ValueTable[l][[r \in Fanin[l] |-> val[r]]]
  BY EvaluateHolds
<1> HIDE DEF val
<1>3. yes \in [Luts -> BOOLEAN] /\ \A m \in Luts : yes[m] = TRUE
  OBVIOUS
<1> HIDE DEF yes
<1>4. a = [value |-> val, input_var |-> InputsOf(val), vsat |-> yes,
           uptag |-> t.uptag, info |-> t.info, CC |-> t.CC]
  <2>1. t \in LutFields
    BY DEF Typed
  <2> DEFINE inp == InputsOf(val)
  <2>2. a = [t EXCEPT !.value = val, !.input_var = inp, !.vsat = yes]
    OBVIOUS
  <2> HIDE DEF a, inp
  <2>3. a = [value |-> val, input_var |-> inp, vsat |-> yes,
             uptag |-> t.uptag, info |-> t.info, CC |-> t.CC]
    BY <2>1, <2>2 DEF LutFields
  <2> QED BY <2>3 DEF inp
<1>5. a.value = val /\ a.input_var = InputsOf(val) /\ a.vsat = yes
  BY <1>4
<1>6. Readable(a)
  <2> HIDE DEF a
  <2> QED BY <1>2, <1>5 DEF Readable, InputsCoherent
<1>7. info \in [Luts -> FaultInfo] /\ info = AllFaultInfo(a)
  BY <1>6, AllFaultInfoHolds
<1> HIDE DEF info
<1>8. u = [value |-> val, input_var |-> InputsOf(val), vsat |-> yes,
           uptag |-> t.uptag, info |-> info, CC |-> t.CC]
  <2> HIDE DEF a
  <2> QED BY <1>4
<1>9. u.value = val /\ u.input_var = InputsOf(val) /\ u.vsat = yes /\ u.info = info
  BY <1>8
<1> HIDE DEF a
<1>10. ASSUME NEW m \in Luts
      PROVE  VsatRight(a, m)
  <2>1. a.input_var[m] = [r \in Fanin[m] |-> val[r]]
    BY <1>5 DEF InputsOf
  <2>2. CASE m \in PIs
    BY <1>3, <1>5, <2>2 DEF VsatRight, CalValue
  <2>3. CASE m \notin PIs
    <3>1. CalValue(a, m) = val[m]
      BY <1>2, <2>1, <2>3 DEF CalValue
    <3> QED BY <1>3, <1>5, <3>1 DEF VsatRight
  <2> QED BY <2>2, <2>3
<1>11. u \in LutFields
  <2> HIDE DEF u
  <2> QED BY <1>2, <1>3, <1>7, <1>8, InputsOfType, FieldTypes DEF LutFields
<1> HIDE DEF u
<1>12. Typed(u)
  BY <1>9, <1>11 DEF Typed, InputsCoherent
<1>13. Coherent(u)
  BY <1>5, <1>6, <1>7, <1>9, <1>10, <1>12, AllInfoIsCoherent
<1> QED BY <1>1, <1>12, <1>13

\* The vector of the oracle keeps the input indexes right.
LEMMA SeedTyped ==
  ASSUME NEW t, Typed(t), NEW v \in Vectors
  PROVE  Typed(SatSeed(t, v))
<1> DEFINE val == [l \in Luts |-> IF l \in PIs THEN v[l] ELSE t.value[l]]
           u == [t EXCEPT !.value = val, !.input_var = InputsOf(val)]
<1>1. SatSeed(t, v) = u
  BY DEF SatSeed
<1>2. val \in [Luts -> Bits]
  BY FieldTypes DEF Vectors
<1> HIDE DEF val
<1>3. u = [value |-> val, input_var |-> InputsOf(val), vsat |-> t.vsat,
           uptag |-> t.uptag, info |-> t.info, CC |-> t.CC]
  <2>1. t \in LutFields
    BY DEF Typed
  <2> DEFINE inp == InputsOf(val)
  <2>2. u = [t EXCEPT !.value = val, !.input_var = inp]
    OBVIOUS
  <2> HIDE DEF u, inp
  <2>3. u = [value |-> val, input_var |-> inp, vsat |-> t.vsat,
             uptag |-> t.uptag, info |-> t.info, CC |-> t.CC]
    BY <2>1, <2>2 DEF LutFields
  <2> QED BY <2>3 DEF inp
<1>4. u.value = val /\ u.input_var = InputsOf(val)
  BY <1>3
<1>5. u \in LutFields
  <2> HIDE DEF u
  <2> QED BY <1>2, <1>3, InputsOfType, FieldTypes DEF LutFields
<1> HIDE DEF u
<1> QED BY <1>1, <1>4, <1>5 DEF Typed, InputsCoherent

\* What the primary inputs hold is a vector.
LEMMA VectorType ==
  ASSUME NEW t, Typed(t)
  PROVE  Vector(t) \in Vectors
<1>1. PIs \subseteq Luts
  BY DEF PIs
<1> QED BY <1>1, FieldTypes DEF Vector, Vectors

------------------------------------------------------------------------------
\* A turn, whether or not its flip is undone.
LEMMA TurnHolds ==
  ASSUME TypeOK, NEW S, NEW pick \in Luts, Turn(S, pick)
  PROVE  /\ Typed(s') /\ best_sol' \in Vectors
         /\ StaleVsat(s') \subseteq StaleVsat(s)
         /\ Coherent(s) => Coherent(s')
<1> DEFINE u == LsFlip(CalScores(s, S), pick)
<1>1. Typed(s) /\ best_sol \in Vectors
  BY DEF TypeOK, Typed
<1>2. /\ Typed(u) /\ StaleVsat(u) \subseteq StaleVsat(s)
      /\ Coherent(s) => Coherent(u)
  BY <1>1, TurnKeepsVsat
<1>3. FlipTo(u, pick)
  BY DEF Turn
<1> HIDE DEF u
<1>4. /\ Typed(Unflip(u, pick)) /\ StaleVsat(Unflip(u, pick)) \subseteq StaleVsat(u)
      /\ Coherent(u) => Coherent(Unflip(u, pick))
  BY <1>2, UnflipKeeps
<1>5. Vector(u) \in Vectors
  BY <1>2, VectorType
<1>6. s' = u \/ s' = Unflip(u, pick)
  BY <1>3 DEF FlipTo
<1>7. best_sol' \in Vectors
  <2>1. best_sol' \in IF pick \in PIs /\ Vector(u) \in good
                      THEN {best_sol, Vector(u)} ELSE {best_sol}
    BY <1>3 DEF FlipTo
  <2> QED BY <1>1, <1>5, <2>1
<1>8. CASE s' = u
  BY <1>2, <1>7, <1>8
<1>9. CASE s' = Unflip(u, pick)
  BY <1>2, <1>4, <1>7, <1>9
<1> QED BY <1>6, <1>8, <1>9

\* The inductive invariant: the types, and right caches outside the search.
IInv == TypeOK /\ RestsCoherent

LEMMA InitHolds == Init => IInv
<1> SUFFICES ASSUME Init PROVE IInv
  OBVIOUS
<1>1. Typed(s) /\ Coherent(s)
  BY RandomSolCoherent DEF Init
<1>2. best_sol \in Vectors
  BY <1>1, VectorType DEF Init
<1>3. good \in SUBSET Vectors
  BY TargetAssumption DEF Init
<1> QED BY <1>1, <1>2, <1>3, BoundAssumption DEF Init, IInv, TypeOK, RestsCoherent, Typed

LEMMA NextHolds == IInv /\ [Next]_vars => IInv'
<1> SUFFICES ASSUME IInv, [Next]_vars PROVE IInv'
  OBVIOUS
<1>0. TypeOK /\ RestsCoherent /\ Typed(s)
  BY DEF IInv, TypeOK, Typed
<1>1. CASE Start
  <2>1. Typed(s') /\ Coherent(s')
    BY <1>1, RandomSolCoherent DEF Start
  <2>2. good' \in SUBSET Vectors /\ best_sol' \in Vectors /\ step' \in 0 .. MaxSteps
    BY <1>0, <1>1, TargetAssumption DEF Start, TypeOK
  <2> QED BY <1>1, <2>1, <2>2 DEF Start, IInv, TypeOK, RestsCoherent, Typed
<1>2. CASE Unsatisfiable
  <2>1. Coherent(s)
    BY <1>0, <1>2 DEF Unsatisfiable, RestsCoherent
  <2>2. pc' = "idle" /\ UNCHANGED <<s, good, best_sol, step>>
    BY <1>2 DEF Unsatisfiable
  <2> QED BY <1>0, <2>1, <2>2 DEF IInv, TypeOK, RestsCoherent, InputsCoherent, Coherent
<1>3. CASE Seed
  <2>1. PICK v \in good : s' = SatSeed(s, v) /\ best_sol' = v
    BY <1>3 DEF Seed
  <2>2. v \in Vectors
    BY <1>0 DEF TypeOK
  <2>3. Typed(s')
    BY <1>0, <2>1, <2>2, SeedTyped
  <2>4. pc' = "search" /\ step' \in 0 .. MaxSteps /\ good' = good
    BY <1>3, BoundAssumption DEF Seed
  <2> QED BY <1>0, <2>1, <2>2, <2>3, <2>4 DEF IInv, TypeOK, RestsCoherent, Typed
<1>4. ASSUME NEW S \in SampleSets, NEW pick \in Luts, Turn(S, pick)
      PROVE  IInv'
  <2>1. Typed(s') /\ best_sol' \in Vectors
    BY <1>0, <1>4, TurnHolds
  <2>2. pc' = pc /\ good' = good /\ pc = "search" /\ step' = step + 1 /\ step < MaxSteps
    BY <1>4 DEF Turn, FlipTo, Searching
  <2>3. step' \in 0 .. MaxSteps
    BY <1>0, <2>2, BoundAssumption DEF TypeOK
  <2> QED BY <1>0, <2>1, <2>2, <2>3 DEF IInv, TypeOK, RestsCoherent, Typed
<1>5. CASE Finish
  <2>1. s' = Settle(s, best_sol) /\ pc' = "idle" /\ UNCHANGED <<good, best_sol, step>>
    BY <1>5 DEF Finish
  <2>2. Typed(s') /\ Coherent(s')
    BY <1>0, <2>1, SettleCoherent DEF TypeOK
  <2> QED BY <1>0, <2>1, <2>2 DEF IInv, TypeOK, RestsCoherent, Typed
<1>6. CASE UNCHANGED vars
  BY <1>0, <1>6 DEF vars, IInv, TypeOK, RestsCoherent, InputsCoherent, Coherent, LutFields,
     StaleVsat, InfoCoherent
<1> QED BY <1>1, <1>2, <1>3, <1>4, <1>5, <1>6 DEF Next

\* The input indexes that flip_value patches bit by bit are right at all times, and
\* every other field keeps its type.
THEOREM TypeCorrect == Spec => []TypeOK
<1>1. IInv => TypeOK
  BY DEF IInv
<1> QED BY <1>1, InitHolds, NextHolds, PTL DEF Spec

\* Between targets, and when a target has just been randomised, the assertions of
\* LUTCircuit::check hold, whatever the search before left behind.
THEOREM CachesRest == Spec => []RestsCoherent
<1>1. IInv => RestsCoherent
  BY DEF IInv
<1> QED BY <1>1, InitHolds, NextHolds, PTL DEF Spec

\* reigon is large enough: a turn from a coherent state leads to one.
THEOREM TurnsKeepCoherence == Spec => FlipKeepsCoherence
<1>1. IInv /\ [Next]_vars => [pc = "search" /\ Coherent(s) => Coherent(s')]_vars
  <2> SUFFICES ASSUME IInv, [Next]_vars, pc = "search", Coherent(s)
               PROVE  Coherent(s') \/ UNCHANGED vars
    OBVIOUS
  <2>1. TypeOK /\ Typed(s)
    BY DEF IInv, TypeOK, Typed
  <2>2. CASE Start \/ Unsatisfiable \/ Seed
    BY <2>2 DEF Start, Unsatisfiable, Seed
  <2>3. CASE \E S \in SampleSets, pick \in Luts : Turn(S, pick)
    BY <2>1, <2>3, TurnHolds
  <2>4. CASE Finish
    BY <2>1, <2>4, SettleCoherent DEF Finish, TypeOK
  <2> QED BY <2>2, <2>3, <2>4 DEF Next
<1> QED BY <1>1, InitHolds, NextHolds, PTL DEF Spec, FlipKeepsCoherence

\* A turn from any state, also one the oracle's vector has made incoherent, makes
\* no vsat wrong that was right.
THEOREM VsatIsOnlyRepaired == Spec => StaleVsatShrinks
<1>1. IInv /\ [Next]_vars => [pc = "search" => StaleVsat(s') \subseteq StaleVsat(s)]_vars
  <2> SUFFICES ASSUME IInv, [Next]_vars, pc = "search"
               PROVE  StaleVsat(s') \subseteq StaleVsat(s) \/ UNCHANGED vars
    OBVIOUS
  <2>1. TypeOK /\ Typed(s)
    BY DEF IInv, TypeOK, Typed
  <2>2. CASE Start \/ Unsatisfiable \/ Seed
    BY <2>2 DEF Start, Unsatisfiable, Seed
  <2>3. CASE \E S \in SampleSets, pick \in Luts : Turn(S, pick)
    BY <2>1, <2>3, TurnHolds
  <2>4. CASE Finish
    <3>1. Coherent(s')
      BY <2>1, <2>4, SettleCoherent DEF Finish, TypeOK
    <3> QED BY <3>1 DEF Coherent
  <2> QED BY <2>2, <2>3, <2>4 DEF Next
<1> QED BY <1>1, InitHolds, NextHolds, PTL DEF Spec, StaleVsatShrinks

------------------------------------------------------------------------------
\* The LUTs a turn may pick and score are as LutSearch leaves them open.
LEMMA PickIsLut ==
  ASSUME NEW t, NEW S \in SUBSET Luts, NEW l \in Pickable(t, S)
  PROVE  l \in Luts
<1>1. Unsat(t) \subseteq Luts
  BY DEF Unsat
<1>2. UNION {Fanin[m] : m \in Unsat(t)} \subseteq Luts
  BY <1>1, GraphAssumption
<1> QED BY <1>1, <1>2 DEF Pickable

LEMMA SampledSet ==
  ASSUME NEW q \in [1 .. Samples -> Luts]
  PROVE  {m \in Range(q) : s.CC[m]} \in SampleSets
<1> DEFINE R == Range(q)
           S == {m \in R : s.CC[m]}
<1>1. R \subseteq Luts /\ q \in Surjection(1 .. Samples, R)
  BY DEF Range, Surjection
<1>2. IsFiniteSet(1 .. Samples) /\ Cardinality(1 .. Samples) = Samples
  BY BoundAssumption, FS_Interval
<1>3. S \subseteq R
  OBVIOUS
<1> HIDE DEF R
<1>4. IsFiniteSet(R) /\ Cardinality(R) <= Samples
  BY <1>1, <1>2, FS_Surjection
<1> HIDE DEF S
<1>5. IsFiniteSet(S) /\ Cardinality(S) <= Cardinality(R)
  BY <1>3, <1>4, FS_Subset
<1>6. Cardinality(S) \in Nat /\ Cardinality(R) \in Nat
  BY <1>4, <1>5, FS_CardinalityType
<1>7. Cardinality(S) <= Samples
  BY <1>4, <1>5, <1>6, BoundAssumption
<1> QED BY <1>1, <1>3, <1>7 DEF SampleSets, S, R

LEMMA TurnIsTurn ==
  ASSUME NEW q \in [1 .. Samples -> Luts], NEW l, Turn({m \in Range(q) : s.CC[m]}, l)
  PROVE  l \in Luts /\ \E S \in SampleSets, pick \in Luts : Turn(S, pick)
<1> DEFINE S == {m \in Range(q) : s.CC[m]}
<1>1. S \in SampleSets
  BY SampledSet
<1>2. Turn(S, l)
  OBVIOUS
<1> HIDE DEF S
<1>3. S \subseteq Luts /\ l \in Pickable(CalScores(s, S), S)
  BY <1>1, <1>2 DEF Turn, SampleSets
<1>4. l \in Luts
  BY <1>3, PickIsLut
<1> QED BY <1>1, <1>2, <1>4

\* A step that follows the scores is a step of the search that leaves them open.
LEMMA WStepIsStep == [WNext]_wvars => [Next]_vars
<1> SUFFICES ASSUME [WNext]_wvars PROVE [Next]_vars
  OBVIOUS
<1>1. CASE WStart
  BY <1>1 DEF WStart, Next
<1>2. CASE WUnsatisfiable
  BY <1>2 DEF WUnsatisfiable, Next
<1>3. CASE WSeed
  BY <1>3 DEF WSeed, Next
<1>4. ASSUME NEW q \in [1 .. Samples -> Luts], ScoredTurn(q)
      PROVE  Next
  BY <1>4, TurnIsTurn DEF ScoredTurn, Next
<1>5. ASSUME NEW q \in [1 .. Samples -> Luts], UpdatingTurn(q)
      PROVE  Next
  BY <1>5, TurnIsTurn DEF UpdatingTurn, Next
<1>6. CASE WFinish
  BY <1>6 DEF WFinish, Next
<1>7. CASE UNCHANGED wvars
  BY <1>7 DEF wvars
<1> QED BY <1>1, <1>2, <1>3, <1>4, <1>5, <1>6, <1>7 DEF WNext

\* ls_pick with scores, weights and ls_update implements the search in which any of
\* the LUTs may be picked.
THEOREM ScoresGuideTheSearch == WSpec => Spec
<1>1. WInit => Init
  BY DEF WInit
<1> QED BY <1>1, WStepIsStep, PTL DEF WSpec, Spec

\* So the caches rest, turns keep coherence and vsat is only repaired here too.
THEOREM SearchWithScores ==
  WSpec => []RestsCoherent /\ FlipKeepsCoherence /\ StaleVsatShrinks
BY ScoresGuideTheSearch, CachesRest, TurnsKeepCoherence, VsatIsOnlyRepaired, PTL

------------------------------------------------------------------------------
\* The costs and weights as records of functions.
WeightRecords ==
  [vunat : [Luts -> Nat], up : [Luts -> Nat],
   fd : [InnerGates -> [Bits -> Nat]], fp : [InnerGates -> [Bits -> Int]]]

\* Between which bounds they stay when the faults in d are flagged (WTypeOK).
Bounded(v, d) ==
  /\ \A l \in Luts :
       /\ v.vunat[l] \in CostRange(IF l \in PIs THEN VsatInc * 100 ELSE VsatMax)
       /\ v.up[l] \in CostRange(UpMax)
  /\ \A g \in InnerGates :
       /\ \A x \in Bits : v.fd[g][x] \in IF <<g, x>> \in d THEN {0} ELSE 1 .. Focus
       /\ v.fp[g][0] \in 0 .. HighestFp
       /\ v.fp[g][1] \in LowestFp .. HighestFp

\* The primary inputs are satisfied at all times: ls_update never makes the cost of
\* one dearer, which starts above the bound of the others.
InputsSatisfied(t) == \A l \in PIs : t.vsat[l]

WInv ==
  /\ TypeOK /\ RestsCoherent
  /\ flags \in DetectedSets
  /\ w \in WeightRecords
  /\ Bounded(w, flags)
  /\ InputsSatisfied(s)

\* vsat of an input is right just when it is set.
LEMMA InputVsat ==
  ASSUME NEW t, NEW l \in PIs
  PROVE  VsatRight(t, l) <=> t.vsat[l]
BY DEF VsatRight, CalValue

LEMMA CoherentInputs ==
  ASSUME NEW t, Typed(t), Coherent(t)
  PROVE  InputsSatisfied(t)
<1>1. PIs \subseteq Luts
  BY DEF PIs
<1> QED BY <1>1, CoherentIs, InputVsat DEF InputsSatisfied

LEMMA ShrinkingInputs ==
  ASSUME NEW t, NEW u, Typed(t), Typed(u), StaleVsat(u) \subseteq StaleVsat(t),
         InputsSatisfied(t)
  PROVE  InputsSatisfied(u)
<1>1. PIs \subseteq Luts
  BY DEF PIs
<1>2. \A l \in PIs : l \notin StaleVsat(t)
  BY <1>1, StaleAreWrong, InputVsat DEF InputsSatisfied
<1>3. \A l \in PIs : l \notin StaleVsat(u)
  BY <1>2
<1>4. \A l \in PIs : VsatRight(u, l)
  BY <1>1, <1>3, StaleAreWrong
<1> QED BY <1>4, InputVsat DEF InputsSatisfied

LEMMA ScoredInputs ==
  ASSUME NEW t, Typed(t), NEW S, InputsSatisfied(t)
  PROVE  InputsSatisfied(CalScores(t, S))
<1>1. PIs \subseteq Luts
  BY DEF PIs
<1>2. \A l \in PIs : VsatRight(t, l)
  BY InputVsat DEF InputsSatisfied
<1>3. \A l \in PIs : VsatRight(CalScores(t, S), l)
  BY <1>1, <1>2, ScoringKeepsVsat
<1> QED BY <1>3, InputVsat DEF InputsSatisfied

LEMMA OptionTypes ==
  /\ VsatInc \in Nat /\ FwInc \in Nat /\ UpInc \in Nat
  /\ VsatMax \in Nat /\ FwMax \in Nat /\ UpMax \in Nat /\ Focus \in Nat /\ Focus >= 1
  /\ HighestFp \in Nat /\ HighestFp >= 1 /\ HighestFp >= FwMax
  /\ LowestFp \in Int /\ LowestFp <= 0
  /\ FwInc # 0 => LowestFp = 1 - 2 * FwInc
  /\ FwInc = 0 => LowestFp = 0
BY OptionAssumption DEF HighestFp, LowestFp

\* A cost stays in its range.
LEMMA CostSteps ==
  ASSUME NEW max \in Nat, NEW c \in CostRange(max), NEW inc \in Nat
  PROVE  /\ c \in Nat
         /\ Lower(c, inc) \in CostRange(max)
         /\ RaiseTo(c, inc, max) \in CostRange(max)
<1>1. CASE max = 0
  BY <1>1 DEF CostRange, Lower, RaiseTo
<1>2. CASE max # 0
  BY <1>2 DEF CostRange, Lower, RaiseTo
<1> QED BY <1>1, <1>2

\* ls_random_sol starts within the bounds.
LEMMA FreshBounded ==
  ASSUME NEW d \in DetectedSets, NEW v \in FreshWeights(d)
  PROVE  v \in WeightRecords /\ Bounded(v, d)
<1>1. PICK f \in Faults \ d :
        v = [vunat |-> [l \in Luts |-> IF l \in PIs THEN VsatInc * 100 ELSE 1],
             up    |-> [l \in Luts |-> 1],
             fd    |-> [Undetected(d) EXCEPT ![f[1]][f[2]] = Focus],
             fp    |-> Undetected(d)]
  BY DEF FreshWeights
<1>2. PICK g0 \in InnerGates, x0 \in Bits : f = <<g0, x0>>
  BY DEF Faults
<1> DEFINE vunat == [l \in Luts |-> IF l \in PIs THEN VsatInc * 100 ELSE 1]
           up == [l \in Luts |-> 1]
           fp == Undetected(d)
           fd == [fp EXCEPT ![g0] = [fp[g0] EXCEPT ![x0] = Focus]]
<1>3. v.vunat = vunat /\ v.up = up /\ v.fd = fd /\ v.fp = fp
      /\ v = [vunat |-> vunat, up |-> up, fd |-> fd, fp |-> fp]
  BY <1>1, <1>2
<1>4. \A g \in InnerGates : \A x \in Bits :
        /\ fp[g] \in [Bits -> {0, 1}]
        /\ <<g, x>> \in d => fp[g][x] = 0
        /\ <<g, x>> \notin d => fp[g][x] = 1
  BY DEF Undetected, Bit
<1>5. fp \in [InnerGates -> [Bits -> {0, 1}]]
  BY DEF Undetected, Bit
<1>6. \A l \in Luts : vunat[l] \in Nat /\ up[l] = 1
                      /\ (l \in PIs => vunat[l] = VsatInc * 100) /\ (l \notin PIs => vunat[l] = 1)
  BY OptionTypes
<1>7. vunat \in [Luts -> Nat] /\ up \in [Luts -> Nat]
  BY OptionTypes
<1> HIDE DEF vunat, up, fp
<1>8. \A g \in InnerGates : \A x \in Bits :
        fd[g][x] = IF g = g0 /\ x = x0 THEN Focus ELSE fp[g][x]
  BY <1>5
<1>9. fd \in [InnerGates -> [Bits -> Nat]]
  BY <1>5, OptionTypes
<1> HIDE DEF fd
<1>10. v \in WeightRecords
  <2>1. fp \in [InnerGates -> [Bits -> Int]]
    BY <1>5
  <2> QED BY <1>3, <1>7, <1>9, <2>1 DEF WeightRecords
<1>11. ASSUME NEW l \in Luts
       PROVE  /\ vunat[l] \in CostRange(IF l \in PIs THEN VsatInc * 100 ELSE VsatMax)
              /\ up[l] \in CostRange(UpMax)
  BY <1>6, OptionTypes DEF CostRange
<1>12. ASSUME NEW g \in InnerGates, NEW x \in Bits
       PROVE  fd[g][x] \in IF <<g, x>> \in d THEN {0} ELSE 1 .. Focus
  <2>1. Focus >= 1
    BY OptionTypes, OptionAssumption
  <2>2. CASE <<g, x>> \in d
    <3>1. ~(g = g0 /\ x = x0)
      BY <1>1, <1>2, <2>2
    <3> QED BY <1>4, <1>8, <2>2, <3>1
  <2>3. CASE <<g, x>> \notin d
    BY <1>4, <1>8, <2>1, <2>3, OptionTypes
  <2> QED BY <2>2, <2>3
<1>13. ASSUME NEW g \in InnerGates
       PROVE  fp[g][0] \in 0 .. HighestFp /\ fp[g][1] \in LowestFp .. HighestFp
  <2>1. fp[g][0] \in {0, 1} /\ fp[g][1] \in {0, 1}
    BY <1>5 DEF Bits
  <2> QED BY <2>1, OptionTypes
<1> QED BY <1>3, <1>10, <1>11, <1>12, <1>13 DEF Bounded

\* Making what is in order cheaper keeps the bounds.
LEMMA LoweredBounded ==
  ASSUME NEW t, NEW d, w \in WeightRecords, Bounded(w, d)
  PROVE  Lowered(t) \in WeightRecords /\ Bounded(Lowered(t), d)
<1> DEFINE Shows(g, x) == x \in RowShows(t, LutOf(g), g)
           vunat == [l \in Luts |->
                       IF t.vsat[l] THEN Lower(w.vunat[l], VsatInc) ELSE w.vunat[l]]
           up == [l \in Luts |-> IF t.uptag[l] THEN w.up[l] ELSE Lower(w.up[l], UpInc)]
           fd == [g \in InnerGates |-> [x \in Bits |->
                    IF Shows(g, x) THEN Lower(w.fd[g][x], FwInc) ELSE w.fd[g][x]]]
           fp == [g \in InnerGates |->
                    [w.fp[g] EXCEPT
                       ![0] = IF Shows(g, 0) THEN Lower(@, FwInc) ELSE @,
                       ![1] = IF Shows(g, 1) /\ @ + FwInc >= 1 THEN @ - FwInc ELSE @]]
           v == Lowered(t)
<1>1. v = [vunat |-> vunat, up |-> up, fd |-> fd, fp |-> fp]
  BY DEF Lowered
<1> HIDE DEF v, Shows
<1>2. /\ \A l \in Luts : w.vunat[l] \in Nat /\ w.up[l] \in Nat
      /\ \A g \in InnerGates : w.fp[g] \in [Bits -> Int] /\ \A x \in Bits : w.fd[g][x] \in Nat
  BY DEF WeightRecords
<1>3. ASSUME NEW l \in Luts
      PROVE  /\ vunat[l] \in Nat /\ up[l] \in Nat
             /\ vunat[l] \in CostRange(IF l \in PIs THEN VsatInc * 100 ELSE VsatMax)
             /\ up[l] \in CostRange(UpMax)
  <2>1. PICK max \in Nat : max = IF l \in PIs THEN VsatInc * 100 ELSE VsatMax
    BY OptionTypes
  <2>2. w.vunat[l] \in CostRange(max) /\ w.up[l] \in CostRange(UpMax)
    BY <2>1 DEF Bounded
  <2>3. Lower(w.vunat[l], VsatInc) \in CostRange(max) /\ Lower(w.up[l], UpInc) \in CostRange(UpMax)
    BY <2>2, OptionTypes, CostSteps
  <2>4. vunat[l] \in CostRange(max) /\ up[l] \in CostRange(UpMax)
    BY <2>2, <2>3
  <2>5. vunat[l] \in Nat /\ up[l] \in Nat
    BY <2>4, OptionTypes, CostSteps
  <2> QED BY <2>1, <2>4, <2>5
<1>4. ASSUME NEW g \in InnerGates, NEW x \in Bits
      PROVE  fd[g][x] \in Nat /\ fd[g][x] \in IF <<g, x>> \in d THEN {0} ELSE 1 .. Focus
  <2>1. w.fd[g][x] \in IF <<g, x>> \in d THEN {0} ELSE 1 .. Focus
    BY DEF Bounded
  <2>2. fd[g][x] = IF Shows(g, x) THEN Lower(w.fd[g][x], FwInc) ELSE w.fd[g][x]
    OBVIOUS
  <2> HIDE DEF fd
  <2>3. w.fd[g][x] \in Nat
    BY <1>2
  <2>4. CASE <<g, x>> \in d
    BY <2>1, <2>2, <2>3, <2>4, OptionTypes DEF Lower
  <2>5. CASE <<g, x>> \notin d
    BY <2>1, <2>2, <2>3, <2>5, OptionTypes DEF Lower
  <2> QED BY <2>4, <2>5
<1>5. ASSUME NEW g \in InnerGates
      PROVE  /\ fp[g] \in [Bits -> Int]
             /\ fp[g][0] \in 0 .. HighestFp /\ fp[g][1] \in LowestFp .. HighestFp
  <2> DEFINE a == IF Shows(g, 0) THEN Lower(w.fp[g][0], FwInc) ELSE w.fp[g][0]
             b == IF Shows(g, 1) /\ w.fp[g][1] + FwInc >= 1 THEN w.fp[g][1] - FwInc
                                                            ELSE w.fp[g][1]
  <2>1. w.fp[g][0] \in 0 .. HighestFp /\ w.fp[g][1] \in LowestFp .. HighestFp
    BY DEF Bounded
  <2>2. w.fp[g] \in [Bits -> Int]
    BY <1>2
  <2>3. fp[g] = [w.fp[g] EXCEPT ![0] = a, ![1] = b]
    <3>1. [w.fp[g] EXCEPT ![0] = a][1] = w.fp[g][1]
      BY <2>2 DEF Bits
    <3> QED BY <3>1
  <2>4. a \in 0 .. HighestFp
    BY <2>1, OptionTypes DEF Lower
  <2>5. b \in LowestFp .. HighestFp
    BY <2>1, OptionTypes
  <2> HIDE DEF a, b, fp
  <2>6. fp[g][0] = a /\ fp[g][1] = b /\ fp[g] \in [Bits -> Int]
    BY <2>2, <2>3, <2>4, <2>5, OptionTypes DEF Bits
  <2> QED BY <2>4, <2>5, <2>6
<1>6. DOMAIN vunat = Luts /\ DOMAIN up = Luts
  OBVIOUS
<1>7. vunat \in [Luts -> Nat] /\ up \in [Luts -> Nat]
  BY <1>3
<1>8. fd \in [InnerGates -> [Bits -> Nat]]
  BY <1>4
<1>9. fp \in [InnerGates -> [Bits -> Int]]
  BY <1>5
<1> HIDE DEF vunat, up, fd, fp
<1>10. v.vunat = vunat /\ v.up = up /\ v.fd = fd /\ v.fp = fp
  BY <1>1
<1>11. v \in WeightRecords
  BY <1>1, <1>7, <1>8, <1>9 DEF WeightRecords
<1>12. Bounded(v, d)
  BY <1>3, <1>4, <1>5, <1>10 DEF Bounded
<1> QED BY <1>11, <1>12 DEF v

\* So does making dearer what is out of order.
LEMMA RaisedBounded ==
  ASSUME NEW t, NEW d, w \in WeightRecords, Bounded(w, d), InputsSatisfied(t)
  PROVE  Raised(t) \in WeightRecords /\ Bounded(Raised(t), d)
<1> DEFINE Hidden(g, x) == x \notin RowShows(t, LutOf(g), g)
           vunat == [l \in Luts |->
             IF t.vsat[l] THEN w.vunat[l] ELSE RaiseTo(w.vunat[l], VsatInc, VsatMax)]
           up == [l \in Luts |->
             IF t.uptag[l] THEN RaiseTo(w.up[l], UpInc, UpMax) ELSE w.up[l]]
           fd == [g \in InnerGates |-> [x \in Bits |->
             IF Hidden(g, x) /\ MayRaise(w.fd[g][x], w.fd[g][x])
             THEN w.fd[g][x] + FwInc ELSE w.fd[g][x]]]
           fp == [g \in InnerGates |-> [x \in Bits |->
             IF Hidden(g, x) /\ MayRaise(w.fp[g][x], w.fp[g][0])
             THEN w.fp[g][x] + FwInc ELSE w.fp[g][x]]]
           v == Raised(t)
<1>1. v = [vunat |-> vunat, up |-> up, fd |-> fd, fp |-> fp]
  BY DEF Raised
<1> HIDE DEF v, Hidden
<1>2. /\ \A l \in Luts : w.vunat[l] \in Nat /\ w.up[l] \in Nat
      /\ \A g \in InnerGates : \A x \in Bits : w.fp[g][x] \in Int /\ w.fd[g][x] \in Nat
  BY DEF WeightRecords
<1>3. ASSUME NEW l \in Luts
      PROVE  /\ vunat[l] \in Nat /\ up[l] \in Nat
             /\ vunat[l] \in CostRange(IF l \in PIs THEN VsatInc * 100 ELSE VsatMax)
             /\ up[l] \in CostRange(UpMax)
  <2>1. PICK max \in Nat : max = IF l \in PIs THEN VsatInc * 100 ELSE VsatMax
    BY OptionTypes
  <2>2. w.vunat[l] \in CostRange(max) /\ w.up[l] \in CostRange(UpMax)
    BY <2>1 DEF Bounded
  <2>3. RaiseTo(w.up[l], UpInc, UpMax) \in CostRange(UpMax)
    BY <2>2, OptionTypes, CostSteps
  <2>4. vunat[l] \in CostRange(max)
    <3>1. CASE l \in PIs
      BY <2>2, <3>1 DEF InputsSatisfied
    <3>2. CASE l \notin PIs
      <4>1. RaiseTo(w.vunat[l], VsatInc, VsatMax) \in CostRange(max)
        BY <2>1, <2>2, <3>2, OptionTypes, CostSteps
      <4> QED BY <2>2, <4>1
    <3> QED BY <3>1, <3>2
  <2>5. up[l] \in CostRange(UpMax)
    BY <2>2, <2>3
  <2>6. vunat[l] \in Nat /\ up[l] \in Nat
    BY <2>4, <2>5, OptionTypes, CostSteps
  <2> QED BY <2>1, <2>4, <2>5, <2>6
<1>4. ASSUME NEW g \in InnerGates, NEW x \in Bits
      PROVE  fd[g][x] \in IF <<g, x>> \in d THEN {0} ELSE 1 .. Focus
  <2>1. w.fd[g][x] \in IF <<g, x>> \in d THEN {0} ELSE 1 .. Focus
    BY DEF Bounded
  <2> QED BY <1>2, <2>1, OptionTypes, OptionAssumption DEF MayRaise
<1>5. ASSUME NEW g \in InnerGates
      PROVE  fp[g][0] \in 0 .. HighestFp /\ fp[g][1] \in LowestFp .. HighestFp
  <2>1. w.fp[g][0] \in 0 .. HighestFp /\ w.fp[g][1] \in LowestFp .. HighestFp
    BY DEF Bounded
  <2>2. 0 \in Bits /\ 1 \in Bits
    BY DEF Bits
  <2> QED BY <2>1, <2>2, OptionTypes DEF MayRaise
<1>6. vunat \in [Luts -> Nat] /\ up \in [Luts -> Nat]
  <2>1. \A l \in Luts : vunat[l] \in Nat /\ up[l] \in Nat
    BY <1>3
  <2> QED BY <2>1
<1>7. fd \in [InnerGates -> [Bits -> Nat]] /\ fp \in [InnerGates -> [Bits -> Int]]
  BY <1>2, OptionTypes
<1> HIDE DEF vunat, up, fd, fp
<1>8. v.vunat = vunat /\ v.up = up /\ v.fd = fd /\ v.fp = fp
  BY <1>1
<1>9. v \in WeightRecords
  BY <1>1, <1>6, <1>7 DEF WeightRecords
<1>10. Bounded(v, d)
  BY <1>3, <1>4, <1>5, <1>8 DEF Bounded
<1> QED BY <1>9, <1>10 DEF v

LEMMA WInvInit == WInit => WInv
<1> SUFFICES ASSUME WInit PROVE WInv
  OBVIOUS
<1>1. TypeOK /\ RestsCoherent /\ Typed(s) /\ Coherent(s)
  BY InitHolds, RandomSolCoherent DEF WInit, Init, IInv
<1>2. InputsSatisfied(s)
  BY <1>1, CoherentInputs
<1>3. w \in WeightRecords /\ Bounded(w, flags)
  BY FreshBounded DEF WInit
<1> QED BY <1>1, <1>2, <1>3 DEF WInit, WInv

LEMMA WInvNext == WInv /\ [WNext]_wvars => WInv'
<1> SUFFICES ASSUME WInv, [WNext]_wvars PROVE WInv'
  OBVIOUS
<1>1. TypeOK' /\ RestsCoherent'
  BY WStepIsStep, NextHolds DEF WInv, IInv
<1>2. Typed(s) /\ Typed(s') /\ TypeOK
  BY <1>1 DEF WInv, TypeOK, Typed, InputsCoherent
<1>3. CASE WStart
  <2>1. flags' \in DetectedSets /\ w' \in FreshWeights(flags')
    BY <1>3 DEF WStart
  <2>2. w' \in WeightRecords /\ Bounded(w', flags')
    BY <2>1, FreshBounded
  <2>3. Coherent(s')
    BY <1>1, <1>3 DEF WStart, Start, RestsCoherent
  <2>4. InputsSatisfied(s')
    BY <1>2, <2>3, CoherentInputs
  <2> QED BY <1>1, <2>1, <2>2, <2>4 DEF WInv
<1>4. CASE WUnsatisfiable
  BY <1>1, <1>4 DEF WUnsatisfiable, Unsatisfiable, WInv
<1>5. CASE WSeed
  <2>1. InputsSatisfied(s')
    BY <1>2, <1>5 DEF WSeed, Seed, SatSeed, WInv, InputsSatisfied, Typed, LutFields
  <2> QED BY <1>1, <1>5, <2>1 DEF WSeed, WInv
<1>6. ASSUME NEW q \in [1 .. Samples -> Luts], NEW l, Turn({m \in Range(q) : s.CC[m]}, l)
      PROVE  InputsSatisfied(s')
  <2>1. StaleVsat(s') \subseteq StaleVsat(s)
    BY <1>2, <1>6, TurnIsTurn, TurnHolds
  <2> QED BY <1>2, <2>1, ShrinkingInputs DEF WInv
<1>7. ASSUME NEW q \in [1 .. Samples -> Luts], ScoredTurn(q)
      PROVE  WInv'
  <2>1. InputsSatisfied(s')
    BY <1>6, <1>7 DEF ScoredTurn
  <2> QED BY <1>1, <1>7, <2>1 DEF ScoredTurn, WInv
<1>8. ASSUME NEW q \in [1 .. Samples -> Luts], UpdatingTurn(q)
      PROVE  WInv'
  <2>1. InputsSatisfied(s')
    BY <1>6, <1>8 DEF UpdatingTurn
  <2> DEFINE t == CalScores(s, {m \in Range(q) : s.CC[m]})
  <2>2. InputsSatisfied(t)
    BY <1>2, ScoredInputs DEF WInv
  <2>3. w' \in {Lowered(t), Raised(t)} /\ flags' = flags
    BY <1>8 DEF UpdatingTurn
  <2> HIDE DEF t
  <2>4. w' \in WeightRecords /\ Bounded(w', flags)
    BY <2>2, <2>3, LoweredBounded, RaisedBounded DEF WInv
  <2> QED BY <1>1, <2>1, <2>3, <2>4 DEF WInv
<1>9. CASE WFinish
  <2>1. Coherent(s')
    BY <1>1, <1>9 DEF WFinish, Finish, RestsCoherent
  <2>2. InputsSatisfied(s')
    BY <1>2, <2>1, CoherentInputs
  <2> QED BY <1>1, <1>9, <2>2 DEF WFinish, WInv
<1>10. CASE UNCHANGED wvars
  BY <1>1, <1>10 DEF wvars, vars, WInv
<1> QED BY <1>3, <1>4, <1>5, <1>7, <1>8, <1>9, <1>10 DEF WNext

\* The costs and weights stay between their bounds whatever ls_update does, and the
\* score is drawn to each undetected fault and to no other. It takes that an input
\* is satisfied at all times, which the search keeps.
THEOREM WeightsBounded == WSpec => []WTypeOK
<1>1. WInv => WTypeOK
  BY DEF WInv, WTypeOK, Bounded
<1> QED BY <1>1, WInvInit, WInvNext, PTL DEF WSpec

------------------------------------------------------------------------------
\* What the faults of a LUT are worth is an integer.
LEMMA WeightType ==
  ASSUME w \in WeightRecords, NEW g \in InnerGates, NEW p \in Bits, NEW x \in Bits,
         NEW row \in FaultInfo, NEW info \in FaultInfo
  PROVE  Weight(g, p, row, x, info) \in Int
<1> DEFINE fpl == Fpl(row, info.fpl[1 - x], p)
           a == w.fd[g][p]
           b == Scale * Bit(p \in row.fd /\ 1 - x \in info.fd)
           c == IF g \in POs THEN 0 ELSE fpl * (Scale \div AvgDist[g])
<1>1. a \in Int
  BY DEF WeightRecords
<1>2. fpl \in Int
  <2>1. 1 - x \in Bits
    BY DEF Bits
  <2>2. row.fpl[p] \in Nat /\ info.fpl[1 - x] \in Nat
    BY <2>1 DEF FaultInfo
  <2> QED BY <2>2 DEF Fpl
<1>3. b \in Int
  <2>1. Scale \in Int
    BY InnerAssumption
  <2>2. CASE p \in row.fd /\ 1 - x \in info.fd
    BY <2>1, <2>2 DEF Bit
  <2>3. CASE ~(p \in row.fd /\ 1 - x \in info.fd)
    BY <2>1, <2>3 DEF Bit
  <2> QED BY <2>2, <2>3
<1> HIDE DEF fpl
<1>4. c \in Int
  <2>1. CASE g \in POs
    BY <2>1
  <2>2. CASE g \notin POs
    <3>1. AvgDist[g] \in Nat \ {0} /\ Scale \in Nat
      BY <2>2, InnerAssumption
    <3>2. Scale \div AvgDist[g] \in Int
      BY <3>1
    <3> QED BY <1>2, <2>2, <3>2
  <2> QED BY <2>1, <2>2
<1>5. Weight(g, p, row, x, info) = a * (b + c)
  BY DEF Weight, fpl
<1> HIDE DEF a, b, c
<1> QED BY <1>1, <1>3, <1>4, <1>5

LEMMA WorthType ==
  ASSUME NEW t, Typed(t), w \in WeightRecords, NEW l \in Luts
  PROVE  WorthIn(t, l) \in Int
<1> DEFINE in == t.input_var[l]
           x == t.value[l]
           info == t.info[l]
           F == [f \in Inner[l] \X Bits |->
                   Weight(f[1], f[2], FaultTable[l][f[1]][<<in, x>>], x, info)]
           S == Inner[l] \X Bits
<1>1. in \in [Fanin[l] -> Bits] /\ x \in Bits /\ info \in FaultInfo
  BY FieldTypes, InputsTyped
<1>2. WorthIn(t, l) = SumFunction(F)
  BY DEF WorthIn, Worth
<1> HIDE DEF in, x, info
<1>3. ASSUME NEW g \in Inner[l], NEW p \in Bits
      PROVE  Weight(g, p, FaultTable[l][g][<<in, x>>], x, info) \in Int
  <2>1. g \in InnerGates
    BY DEF InnerGates
  <2>2. FaultTable[l][g][<<in, x>>] \in FaultInfo
    BY <1>1, InnerAssumption
  <2> QED BY <1>1, <2>1, <2>2, WeightType
<1>4. \A f \in S : F[f] \in Int
  BY <1>3
<1>5. IsFiniteSet(S)
  <2>1. IsFiniteSet(Bits)
    <3>1. IsFiniteSet({0} \cup {1})
      BY FS_Singleton, FS_Union
    <3>2. Bits = {0} \cup {1}
      BY DEF Bits
    <3> QED BY <3>1, <3>2
  <2> QED BY <2>1, InnerAssumption, FS_Product
<1>6. DOMAIN F = S
  OBVIOUS
<1> HIDE DEF F, S
<1>7. SumFunctionOnSet(F, S) \in Int
  BY <1>4, <1>5, SumType DEF Summable
<1> QED BY <1>2, <1>6, <1>7 DEF SumFunction

\* The state the score of l is read from and the state a flip of l leads to have the
\* same caches but for uptag, and differ from the state before around l only.
OnTrial(t, l) == FlipInfo(Flipped(t, l), l)

SameBeyond(u, t, l) ==
  /\ \A m \in Luts \ ShownBy(u, t, l) :
       /\ u.value[m] = t.value[m] /\ u.input_var[m] = t.input_var[m]
       /\ u.info[m] = t.info[m]
  /\ \A m \in Luts \ (Fanouts(l) \cup ({l} \ PIs)) : u.vsat[m] <=> t.vsat[m]

MarksFollow(v, u, t, l) ==
  \A m \in Luts : v.uptag[m] <=> m # l /\ (t.uptag[m] \/ m \in Outdated(u, t, l))

LEMMA TrialHolds ==
  ASSUME NEW t, Typed(t), NEW l \in Luts
  PROVE  /\ Typed(OnTrial(t, l)) /\ Typed(LsFlip(t, l))
         /\ LsFlip(t, l).value = OnTrial(t, l).value
         /\ LsFlip(t, l).input_var = OnTrial(t, l).input_var
         /\ LsFlip(t, l).vsat = OnTrial(t, l).vsat
         /\ LsFlip(t, l).info = OnTrial(t, l).info
         /\ SameBeyond(OnTrial(t, l), t, l)
         /\ MarksFollow(LsFlip(t, l), OnTrial(t, l), t, l)
<1> DEFINE b == Flipped(t, l)
           c == OnTrial(t, l)
           u == LsFlip(t, l)
<1>1. Typed(FlipValue(t, l)) /\ Typed(b) /\ Typed(u)
  BY FlipValueHolds, LsFlipHolds
<1>2. /\ Typed(c) /\ c.info = [b.info EXCEPT ![l] = CalFaultInfo(b, b.info, l)]
      /\ c.uptag = b.uptag /\ c.value = b.value /\ c.input_var = b.input_var
      /\ c.vsat = b.vsat
  BY <1>1, FlipInfoHolds DEF OnTrial
<1>3. b.uptag = t.uptag /\ b.info = t.info
  <2> DEFINE a == FlipValue(t, l)
  <2>1. Typed(a) /\ a.uptag = t.uptag /\ a.info = t.info
    BY FlipValueHolds
  <2> HIDE DEF a
  <2>2. FlipVsat(a, l).uptag = a.uptag /\ FlipVsat(a, l).info = a.info
    BY <2>1, FlipVsatHolds
  <2> QED BY <2>1, <2>2 DEF Flipped, a
<1>4. u = MarkRegion(c, l)
  BY DEF LsFlip, OnTrial, Flipped
<1>5. /\ u.value = c.value /\ u.input_var = c.input_var
      /\ u.vsat = c.vsat /\ u.info = c.info
  <2> HIDE DEF c, u
  <2> QED BY <1>2, <1>4, MarkRegionHolds
<1>6. SameBeyond(c, t, l)
  <2>1. ASSUME NEW m \in Luts, m # l, l \notin Fanin[m]
        PROVE  /\ c.value[m] = t.value[m] /\ c.input_var[m] = t.input_var[m]
               /\ c.info[m] = t.info[m] /\ (c.vsat[m] <=> t.vsat[m])
    <3>1. b.value[m] = t.value[m] /\ b.input_var[m] = t.input_var[m]
      <4>1. \A k \in Luts \ {l} : Flipped(t, l).value[k] = t.value[k]
        BY LsFlipHolds
      <4>2. \A k \in Luts : l \notin Fanin[k] =>
              Flipped(t, l).input_var[k] = t.input_var[k]
        BY LsFlipHolds
      <4> QED BY <2>1, <4>1, <4>2
    <3>3. b.vsat[m] = t.vsat[m]
      <4>1. \A k \in Luts : l \notin Fanin[k] /\ k # l =>
              Flipped(t, l).vsat[k] = t.vsat[k]
        BY LsFlipHolds
      <4> QED BY <2>1, <4>1
    <3>2. c.info[m] = t.info[m]
      BY <1>2, <1>3, <2>1, FieldTypes
    <3> QED BY <1>2, <3>1, <3>2, <3>3
  <2>2. ASSUME l \in PIs
        PROVE  c.vsat[l] <=> t.vsat[l]
    <3> DEFINE a == FlipValue(t, l)
    <3>1. Typed(a) /\ a.vsat = t.vsat
      BY FlipValueHolds
    <3> HIDE DEF a
    <3>2. FlipVsat(a, l).vsat = [m \in Luts |->
                  IF l \in Fanin[m] THEN CalValue(a, m) = a.value[m]
                  ELSE IF m = l /\ l \notin PIs THEN ~a.vsat[m] ELSE a.vsat[m]]
      BY <3>1, FlipVsatHolds
    <3>3. l \notin Fanin[l]
      BY <2>2 DEF PIs
    <3>4. FlipVsat(a, l).vsat[l] = a.vsat[l]
      BY <2>2, <3>2, <3>3, Zenon
    <3> QED BY <1>2, <3>1, <3>4 DEF Flipped, a
  <2>3. \A m \in Luts : m \notin Fanouts(l) => l \notin Fanin[m]
    BY DEF Fanouts
  <2> QED BY <2>1, <2>2, <2>3 DEF SameBeyond, ShownBy
<1>7. MarksFollow(u, c, t, l)
  <2> DEFINE uptag == [m \in Luts |-> m # l /\ (c.uptag[m] \/
                  (m \in Region(l) /\ CalFaultInfo(c, c.info, m) # c.info[m]))]
             CC == [m \in Luts |-> m # l /\ (c.CC[m] \/ m \in Fanouts(l) \cup Region(l))]
  <2> HIDE DEF b, c, u
  <2>1. u = [c EXCEPT !.uptag = uptag, !.CC = CC]
    BY <1>4 DEF MarkRegion
  <2> HIDE DEF uptag, CC
  <2>2. u.uptag = uptag
    BY <1>2, <2>1 DEF Typed, LutFields
  <2>3. ASSUME NEW m \in Luts
        PROVE  u.uptag[m] <=> m # l /\ (t.uptag[m] \/ m \in Outdated(c, t, l))
    <3>1. u.uptag[m] <=> m # l /\ (t.uptag[m] \/
                  (m \in Region(l) /\ CalFaultInfo(c, c.info, m) # c.info[m]))
      BY <1>2, <1>3, <2>2, Zenon DEF uptag
    <3> QED BY <3>1 DEF Outdated
  <2> QED BY <2>3 DEF MarksFollow
<1> QED BY <1>1, <1>2, <1>5, <1>6, <1>7

\* The three sums change around l only, each as cal_score counts it.
LEMMA WorthGain ==
  ASSUME NEW t, Typed(t), NEW l \in Luts, w \in WeightRecords
  PROVE  LET u == OnTrial(t, l)
             v == LsFlip(t, l)
             T == ShownBy(u, t, l)
         IN  /\ SumFunction([m \in T |-> WorthIn(u, m) - WorthIn(t, m)]) =
                  SumFunction([m \in Luts |-> WorthIn(v, m)])
                  - SumFunction([m \in Luts |-> WorthIn(t, m)])
             /\ SumFunction([m \in Luts |-> WorthIn(v, m)]) \in Int
             /\ SumFunction([m \in Luts |-> WorthIn(t, m)]) \in Int
<1> DEFINE u == OnTrial(t, l)
           v == LsFlip(t, l)
           T == ShownBy(u, t, l)
           f == [m \in Luts |-> WorthIn(t, m)]
           g == [m \in Luts |-> WorthIn(v, m)]
           d == [m \in T |-> WorthIn(u, m) - WorthIn(t, m)]
<1>1. /\ Typed(u) /\ Typed(v) /\ SameBeyond(u, t, l)
      /\ v.value = u.value /\ v.input_var = u.input_var /\ v.info = u.info
  BY TrialHolds
<1>2. T \in SUBSET Luts
  BY DEF ShownBy, Fanouts
<1> HIDE DEF u, v
<1>3. Summable(f, Luts) /\ Summable(g, Luts)
  BY <1>1, WorthType, GraphAssumption DEF Summable
<1>4. \A m \in Luts : WorthIn(u, m) = WorthIn(v, m)
  BY <1>1 DEF WorthIn
<1>5. \A m \in Luts \ T : WorthIn(v, m) = WorthIn(t, m)
  BY <1>1 DEF WorthIn, SameBeyond
<1>6. /\ \A m \in Luts \ T : g[m] = f[m]
      /\ \A m \in T : d[m] = g[m] - f[m]
  BY <1>2, <1>4, <1>5
<1>7. DOMAIN f = Luts /\ DOMAIN g = Luts /\ DOMAIN d = T
  OBVIOUS
<1> HIDE DEF f, g, d, T
<1>8. SumFunctionOnSet(d, T) = SumFunctionOnSet(g, Luts) - SumFunctionOnSet(f, Luts)
  BY <1>2, <1>3, <1>6, SumChange
<1>9. SumFunctionOnSet(g, Luts) \in Int /\ SumFunctionOnSet(f, Luts) \in Int
  BY <1>3, SumType
<1>10. /\ SumFunction(d) = SumFunction(g) - SumFunction(f)
       /\ SumFunction(g) \in Int /\ SumFunction(f) \in Int
  BY <1>7, <1>8, <1>9 DEF SumFunction
<1> QED BY <1>10 DEF u, v, T, d, f, g

\* The costs, as functions on the LUTs, can be summed over every set of them.
LEMMA CostsSummable ==
  ASSUME w \in WeightRecords, NEW S \in SUBSET Luts
  PROVE  Summable(w.vunat, S) /\ Summable(w.up, S)
<1>1. IsFiniteSet(S)
  BY GraphAssumption, FS_Subset
<1> QED BY <1>1 DEF Summable, WeightRecords

LEMMA VsatGain ==
  ASSUME NEW t, Typed(t), NEW l \in Luts, w \in WeightRecords
  PROVE  LET u == OnTrial(t, l)
             v == LsFlip(t, l)
             Cost(z) == SumFunction([m \in Unsat(z) |-> w.vunat[m]])
         IN  /\ Unsatisfied(u, l) - Unsatisfied(t, l) = Cost(v) - Cost(t)
             /\ Unsatisfied(u, l) \in Int /\ Unsatisfied(t, l) \in Int
             /\ Cost(v) \in Int /\ Cost(t) \in Int
<1> DEFINE near == Fanouts(l) \cup ({l} \ PIs)
           Near(z) == {k \in near : ~z.vsat[k]}
           Far(z) == {k \in Luts \ near : ~z.vsat[k]}
           On(S) == SumFunctionOnSet(w.vunat, S)
           u == OnTrial(t, l)
           v == LsFlip(t, l)
<1>1. near \subseteq Luts
  BY DEF Fanouts
<1>2. SameBeyond(u, t, l) /\ v.vsat = u.vsat
  BY TrialHolds
<1>3. \A m \in Luts \ near : u.vsat[m] <=> t.vsat[m]
  BY <1>2 DEF SameBeyond
<1> HIDE DEF u, v
<1>4. \A z : Near(z) \in SUBSET Luts /\ Far(z) \in SUBSET Luts /\ Unsat(z) \in SUBSET Luts
  BY <1>1 DEF Unsat
<1>5. \A z : Near(z) \cup Far(z) = Unsat(z) /\ Near(z) \cap Far(z) = {}
  BY <1>1 DEF Unsat
<1>6. Far(u) = Far(t)
  BY <1>3
<1>7. Unsat(v) = Unsat(u)
  BY <1>2 DEF Unsat
<1>8. ASSUME NEW S \in SUBSET Luts
      PROVE  SumFunction([m \in S |-> w.vunat[m]]) = On(S) /\ On(S) \in Int
  BY CostsSummable, SumOfValues, SumType
<1>9. \A z : Unsatisfied(z, l) = SumFunction([m \in Near(z) |-> w.vunat[m]])
  BY DEF Unsatisfied
<1> HIDE DEF Near, Far, On
<1>10. ASSUME NEW z
       PROVE  /\ Unsatisfied(z, l) = On(Near(z))
              /\ SumFunction([m \in Unsat(z) |-> w.vunat[m]]) = On(Near(z)) + On(Far(z))
              /\ On(Near(z)) \in Int /\ On(Far(z)) \in Int
  <2>1. Summable(w.vunat, Near(z) \cup Far(z))
    BY <1>4, <1>5, CostsSummable
  <2>2. SumFunctionOnSet(w.vunat, Near(z) \cup Far(z)) =
          SumFunctionOnSet(w.vunat, Near(z)) + SumFunctionOnSet(w.vunat, Far(z))
    BY <1>5, <2>1, SumUnion
  <2>3. On(Unsat(z)) = On(Near(z)) + On(Far(z))
    BY <1>5, <2>2 DEF On
  <2>4. SumFunction([m \in Unsat(z) |-> w.vunat[m]]) = On(Unsat(z))
    BY <1>4, <1>8
  <2>5. SumFunction([m \in Near(z) |-> w.vunat[m]]) = On(Near(z))
    BY <1>4, <1>8
  <2>6. On(Near(z)) \in Int /\ On(Far(z)) \in Int
    BY <1>4, <1>8
  <2> QED BY <1>9, <2>3, <2>4, <2>5, <2>6
<1> DEFINE Cost(z) == SumFunction([m \in Unsat(z) |-> w.vunat[m]])
           a == On(Near(u))
           b == On(Near(t))
           c == On(Far(t))
<1>11. /\ Unsatisfied(u, l) = a /\ Unsatisfied(t, l) = b
       /\ Cost(v) = a + c /\ Cost(t) = b + c
       /\ a \in Int /\ b \in Int /\ c \in Int
  BY <1>6, <1>7, <1>10
<1> HIDE DEF a, b, c, Cost
<1>12. /\ Unsatisfied(u, l) - Unsatisfied(t, l) = Cost(v) - Cost(t)
       /\ Unsatisfied(u, l) \in Int /\ Unsatisfied(t, l) \in Int
       /\ Cost(v) \in Int /\ Cost(t) \in Int
  BY <1>11
<1> QED BY <1>12 DEF u, v, Cost

LEMMA MarksGain ==
  ASSUME NEW t, Typed(t), NEW l \in Luts, w \in WeightRecords
  PROVE  LET u == OnTrial(t, l)
             v == LsFlip(t, l)
             Cost(z) == SumFunction([m \in {k \in Luts : z.uptag[k]} |-> w.up[m]])
             added == SumFunction([r \in Outdated(u, t, l) |-> w.up[r]])
             own == Bit(t.uptag[l]) * w.up[l]
         IN  /\ added - own = Cost(v) - Cost(t)
             /\ added \in Int /\ own \in Int /\ Cost(v) \in Int /\ Cost(t) \in Int
<1> DEFINE u == OnTrial(t, l)
           v == LsFlip(t, l)
           Marked(z) == {k \in Luts : z.uptag[k]}
           out == Outdated(u, t, l)
           kept == Marked(t) \ {l}
           On(S) == SumFunctionOnSet(w.up, S)
           own == Bit(t.uptag[l]) * w.up[l]
<1>1. MarksFollow(v, u, t, l)
  BY TrialHolds
<1> HIDE DEF u, v
<1>2. out \in SUBSET Luts /\ l \notin out /\ out \cap Marked(t) = {}
  <2>1. Region(l) \in SUBSET Luts /\ l \notin Region(l)
    BY GraphAssumption DEF Region, Fanouts
  <2> QED BY <2>1 DEF Outdated
<1>3. Marked(v) = kept \cup out /\ kept \cap out = {}
  BY <1>1, <1>2 DEF MarksFollow
<1>4. kept \in SUBSET Luts /\ Marked(v) \in SUBSET Luts /\ Marked(t) \in SUBSET Luts
  OBVIOUS
<1>5. ASSUME NEW S \in SUBSET Luts
      PROVE  SumFunction([m \in S |-> w.up[m]]) = On(S) /\ On(S) \in Int
  BY CostsSummable, SumOfValues, SumType
<1>6. w.up[l] \in Int
  BY DEF WeightRecords
<1>7. On(Marked(t)) = own + On(kept)
  <2>1. CASE t.uptag[l]
    <3>1. kept \cup {l} = Marked(t) /\ l \in Luts \ kept
      BY <2>1
    <3> HIDE DEF kept, Marked
    <3>2. Summable(w.up, Luts)
      BY CostsSummable
    <3>3. SumFunctionOnSet(w.up, kept \cup {l}) = w.up[l] + SumFunctionOnSet(w.up, kept)
      BY <1>4, <3>1, <3>2, SumAddElement
    <3>4. own = w.up[l]
      BY <1>6, <2>1 DEF Bit
    <3> QED BY <3>1, <3>3, <3>4
  <2>2. CASE ~t.uptag[l]
    <3>1. kept = Marked(t)
      BY <2>2
    <3>2. own = 0
      BY <1>6, <2>2 DEF Bit
    <3>3. On(kept) \in Int
      BY <1>4, <1>5
    <3> HIDE DEF own, On, kept, Marked
    <3> QED BY <3>1, <3>2, <3>3
  <2> QED BY <2>1, <2>2
<1>8. own \in Int
  <2>1. Bit(t.uptag[l]) \in {0, 1}
    BY DEF Bit
  <2> QED BY <1>6, <2>1
<1> HIDE DEF Marked, kept, out, own
<1>9. On(Marked(v)) = On(kept) + On(out)
  <2>1. Summable(w.up, kept \cup out)
    BY <1>3, <1>4, CostsSummable
  <2> QED BY <1>3, <2>1, SumUnion
<1> HIDE DEF On
<1> DEFINE Cost(z) == SumFunction([m \in Marked(z) |-> w.up[m]])
           added == SumFunction([r \in out |-> w.up[r]])
<1>10. Cost(v) = On(Marked(v)) /\ Cost(t) = On(Marked(t)) /\ added = On(out)
  BY <1>2, <1>4, <1>5
<1>11. On(kept) \in Int /\ On(out) \in Int
  BY <1>2, <1>4, <1>5
<1> HIDE DEF Cost, added
<1>12. /\ added - own = Cost(v) - Cost(t)
       /\ added \in Int /\ own \in Int /\ Cost(v) \in Int /\ Cost(t) \in Int
  BY <1>7, <1>8, <1>9, <1>10, <1>11
<1> QED BY <1>12 DEF u, v, Cost, added, out, own, Marked

\* The score of a LUT is the gain of its flip in any state of the search.
LEMMA ScoreOfFlip ==
  ASSUME NEW t, Typed(t), NEW l \in Luts, w \in WeightRecords
  PROVE  Score(t, l) = Objective(LsFlip(t, l)) - Objective(t)
<1> DEFINE u == OnTrial(t, l)
           v == LsFlip(t, l)
           T == ShownBy(u, t, l)
           out == Outdated(u, t, l)
           worth(z) == SumFunction([m \in Luts |-> WorthIn(z, m)])
           vsat(z) == SumFunction([m \in Unsat(z) |-> w.vunat[m]])
           marks(z) == SumFunction([m \in {k \in Luts : z.uptag[k]} |-> w.up[m]])
           gain == SumFunction([m \in T |-> WorthIn(u, m) - WorthIn(t, m)])
           after == Unsatisfied(u, l)
           before == Unsatisfied(t, l)
           added == SumFunction([r \in out |-> w.up[r]])
           own == Bit(t.uptag[l]) * w.up[l]
<1>1. gain = worth(v) - worth(t) /\ worth(v) \in Int /\ worth(t) \in Int
  BY WorthGain
<1>2. after - before = vsat(v) - vsat(t)
      /\ after \in Int /\ before \in Int /\ vsat(v) \in Int /\ vsat(t) \in Int
  BY VsatGain
<1>3. added - own = marks(v) - marks(t)
      /\ added \in Int /\ own \in Int /\ marks(v) \in Int /\ marks(t) \in Int
  BY MarksGain
<1>4. Score(t, l) = gain - Scale * (after - before + added - own)
  BY DEF Score, Gain, OnTrial, Flipped
<1>5. \A z : Objective(z) = worth(z) - Scale * (vsat(z) + marks(z))
  BY DEF Objective
<1>6. Scale \in Int
  BY InnerAssumption
<1> HIDE DEF u, v, worth, vsat, marks, gain, after, before, added, own
<1>7. after - before + added - own = (vsat(v) + marks(v)) - (vsat(t) + marks(t))
  <2> DEFINE c == vsat(v)
             d == vsat(t)
             e == marks(v)
             f == marks(t)
  <2>1. /\ after - before = c - d /\ added - own = e - f
        /\ c \in Int /\ d \in Int /\ e \in Int /\ f \in Int
    BY <1>2, <1>3
  <2> HIDE DEF c, d, e, f
  <2>2. after - before + added - own = (after - before) + (added - own)
    BY <1>2, <1>3
  <2>3. after - before + added - own = (c + e) - (d + f)
    BY <2>1, <2>2
  <2> QED BY <2>3 DEF c, d, e, f
<1> DEFINE a == vsat(v) + marks(v)
           b == vsat(t) + marks(t)
<1>8. a \in Int /\ b \in Int
  BY <1>2, <1>3
<1>9. /\ Score(t, l) = gain - Scale * (a - b)
      /\ Objective(v) = worth(v) - Scale * a
      /\ Objective(t) = worth(t) - Scale * b
  BY <1>4, <1>5, <1>7
<1> HIDE DEF a, b
<1>10. Scale * (a - b) = Scale * a - Scale * b
  BY <1>6, <1>8
<1>11. Scale * a \in Int /\ Scale * b \in Int
  BY <1>6, <1>8
<1>12. Score(t, l) = Objective(v) - Objective(t)
  BY <1>1, <1>9, <1>10, <1>11
<1> QED BY <1>12 DEF v

\* cal_score looks at the neighbours of a LUT only, and yet it tells what the sum of
\* LUTCircuit::check gains by a flip, whatever the cut and whatever the weights.
THEOREM ScoresAreGains == WSpec => []ScoreIsGain
<1>1. WInv => ScoreIsGain
  BY ScoreOfFlip DEF WInv, TypeOK, Typed, ScoreIsGain
<1> QED BY <1>1, WInvInit, WInvNext, PTL DEF WSpec
==============================================================================
