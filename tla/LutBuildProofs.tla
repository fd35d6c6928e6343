--------------------------- MODULE LutBuildProofs ----------------------------
(***************************************************************************)
(* Proofs about LutBuild for every netlist, every limit and every sequence *)
(* of random choices: the LUTs are a partition of the gates into closed    *)
(* cones, and every fanin of a LUT has a LUT.                              *)
(***************************************************************************)
EXTENDS LutBuild, InductionFacts, FiniteSetTheorems, SequenceTheorems,
        WellFoundedInduction, TLAPS

\* A non-empty set of gate ids has a greatest element.
LEMMA GreatestGate ==
  ASSUME NEW n \in Nat, NEW S \in SUBSET (1 .. n), S # {}
  PROVE  \E g \in S : \A h \in S : h <= g
<1> DEFINE T == {n - g : g \in S}
<1>1. T \subseteq Nat /\ T # {}
  <2>1. PICK g \in S : TRUE
    OBVIOUS
  <2>2. n - g \in T
    BY <2>1
  <2>3. T \subseteq Nat
    BY SMT
  <2> QED BY <2>2, <2>3
<1>2. \E x \in T : \A y \in T : ~ (<<y, x>> \in OpToRel(<, Nat))
  BY <1>1, NatLessThanWellFounded, WFMin
<1>3. PICK x \in T : \A y \in T : ~ (<<y, x>> \in OpToRel(<, Nat))
  BY <1>2
<1>4. \A y \in T : ~(y < x)
  BY <1>1, <1>3 DEF OpToRel
<1>5. PICK g \in S : x = n - g
  BY DEF T
<1>6. ASSUME NEW h \in S
      PROVE  h <= g
  <2>1. n - h \in T /\ h \in Int /\ g \in Int
    OBVIOUS
  <2> QED BY <1>4, <1>5, <2>1
<1> QED BY <1>6

\* A gate that does not branch has one reader.
LEMMA SoleReader ==
  ASSUME NEW g \in GateIds, ~Branching(g), NEW h1 \in Fanouts(g), NEW h2 \in Fanouts(g)
  PROVE  h1 = h2
<1>1. SUFFICES ASSUME h1 # h2
               PROVE  FALSE
  OBVIOUS
<1>2. IsFiniteSet(Fanouts(g)) /\ Cardinality(Fanouts(g)) \in Nat
  BY NetlistAssumption, FS_Subset, FS_CardinalityType DEF Fanouts
<1>3. Cardinality({h1} \cup {h2}) = 2
  <2>1. IsFiniteSet({h1}) /\ Cardinality({h1}) = 1 /\ h2 \notin {h1}
    BY <1>1, FS_Singleton
  <2>2. Cardinality({h1} \cup {h2}) = Cardinality({h1}) + 1
    BY <2>1, FS_AddElement
  <2> QED BY <2>1, <2>2
<1>4. {h1} \cup {h2} \in SUBSET Fanouts(g)
  OBVIOUS
<1>5. 2 <= Cardinality(Fanouts(g))
  BY <1>2, <1>3, <1>4, FS_Subset
<1> QED BY <1>2, <1>5 DEF Branching

\* A listing of a finite set lists each element once.
LEMMA OrdersList ==
  ASSUME NEW S, IsFiniteSet(S), NEW o \in Orders(S)
  PROVE  /\ o \in Seq(S)
         /\ Len(o) = Cardinality(S)
         /\ Range(o) = S
         /\ \A i, j \in DOMAIN o : o[i] = o[j] => i = j
<1> DEFINE n == Cardinality(S)
<1>1. /\ n \in Nat
      /\ o \in [1 .. n -> S]
      /\ Range(o) = S
  BY FS_CardinalityType DEF Orders
<1>2. o \in Seq(S) /\ Len(o) = n
  BY <1>1
<1>3. IsFiniteSet(1 .. n) /\ Cardinality(1 .. n) = n
  BY <1>1, FS_Interval
<1>4. \A e \in S : \E i \in 1 .. n : o[i] = e
  BY <1>1 DEF Range
<1>5. o \in Surjection(1 .. n, S)
  BY <1>1, <1>4 DEF Surjection
<1>6. o \in Injection(1 .. n, S)
  BY <1>3, <1>5, FS_SurjSameCardinalityImpliesInj
<1> QED BY <1>1, <1>2, <1>6 DEF Injection, IsInjective

------------------------------------------------------------------------------
\* A group of gates ins with root g and fanins fs: it has all readers of its
\* gates other than g inside, reads fs, and g is the last of its gates.
Cone(g, ins, fs) ==
  /\ g \in ins
  /\ ins \subseteq GateIds
  /\ fs = (UNION {Fanins[h] : h \in ins}) \ ins
  /\ \A h \in ins : h <= g
  /\ \A h \in ins \ {g} : h \notin Heads /\ Fanouts(h) \subseteq ins

\* The gates that were queued are queued now, built or being built, and only
\* one of these.
QueueInv ==
  /\ Heads \subseteq done
  /\ \A g \in done : \/ g \in Range(queue)
                     \/ \E i \in DOMAIN luts : luts[i].gate = g
                     \/ pc = "grow" /\ root = g
  /\ Range(queue) \subseteq done
  /\ \A i \in DOMAIN luts : luts[i].gate \in done \ Range(queue)
  /\ \A i, j \in DOMAIN luts : luts[i].gate = luts[j].gate => i = j
  /\ pc = "grow" => /\ root \in done \ Range(queue)
                    /\ \A i \in DOMAIN luts : luts[i].gate # root
  /\ pc \in {"linked", "abort"} => queue = <<>>

\* A gate that was queued and is no head of its own is a fanin of a LUT that
\* is built, and all these fanins were queued.
FaninInv ==
  /\ \A g \in done \ Heads : \E i \in DOMAIN luts : g \in luts[i].fanins
  /\ \A i \in DOMAIN luts : luts[i].fanins \subseteq done

ConeInv ==
  /\ \A i \in DOMAIN luts : Cone(luts[i].gate, luts[i].inner_gates, luts[i].fanins)
  /\ pc = "grow" => Cone(root, inner, leaves)

DisjointInv ==
  /\ LutsAreDisjoint
  /\ pc = "grow" => \A i \in DOMAIN luts : luts[i].inner_gates \cap inner = {}

IInv ==
  /\ TypeOK
  /\ QueueInv
  /\ FaninInv
  /\ ConeInv
  /\ DisjointInv
  /\ FaninsAreLuts

\* The fanins of a cone lie below its root and outside.
LEMMA ConeFanins ==
  ASSUME NEW g, NEW ins, NEW fs, Cone(g, ins, fs), NEW f \in fs
  PROVE  /\ f \in GateIds /\ f \notin ins /\ f < g
         /\ \E h \in ins : h \in Fanouts(f)
<1>1. PICK h \in ins : f \in Fanins[h]
  BY DEF Cone
<1>2. h \in GateIds /\ h <= g /\ g \in GateIds
  BY DEF Cone
<1>3. f \in GateIds /\ f < h
  BY <1>1, <1>2, NetlistAssumption
<1>4. f \in Int /\ g \in Int /\ h \in Int
  BY <1>2, <1>3, NetlistAssumption, FS_CardinalityType
<1> QED BY <1>1, <1>2, <1>3, <1>4 DEF Cone, Fanouts

\* A fanin of one cone that does not branch is in no cone that is disjoint from
\* it, unless as its root.
LEMMA FaninIsRoot ==
  ASSUME NEW g, NEW ins, NEW fs, Cone(g, ins, fs),
         NEW g2, NEW ins2, NEW fs2, Cone(g2, ins2, fs2),
         ins \cap ins2 = {},
         NEW f \in fs, f \in ins2
  PROVE  f = g2
<1>1. PICK h \in ins : h \in Fanouts(f)
  BY ConeFanins
<1> QED BY <1>1 DEF Cone

\* Taking a candidate into a cone gives a cone.
LEMMA ConeGrows ==
  ASSUME NEW g, NEW ins, NEW fs, Cone(g, ins, fs),
         NEW f \in fs, ~Branching(f), f \notin PIs
  PROVE  /\ f \notin Heads
         /\ Cone(g, ins \cup {f}, (fs \ {f}) \cup Fanins[f])
<1>1. /\ f \in GateIds /\ f \notin ins /\ f < g
      /\ \E h \in ins : h \in Fanouts(f)
  BY ConeFanins
<1>2. PICK h \in ins : h \in Fanouts(f)
  BY <1>1
<1>3. Fanouts(f) = {h}
  BY <1>1, <1>2, SoleReader
<1>4. f \notin Heads
  BY <1>3 DEF Heads
<1>5. f \in Int /\ g \in Int
  BY <1>1, NetlistAssumption, FS_CardinalityType DEF Cone
<1>6. Fanins[f] \subseteq GateIds
  BY <1>1, NetlistAssumption
<1>7. ASSUME NEW e \in Fanins[f], e \in ins
      PROVE  FALSE
  <2>1. e < f /\ e \in Int
    BY <1>1, <1>6, NetlistAssumption, FS_CardinalityType
  <2>2. e # g
    BY <1>1, <1>5, <2>1
  <2>3. f \in Fanouts(e)
    BY <1>1, <1>7 DEF Fanouts
  <2> QED BY <1>1, <1>7, <2>2, <2>3 DEF Cone
<1>8. f \notin Fanins[f]
  BY <1>1, <1>5, NetlistAssumption
<1>9. (fs \ {f}) \cup Fanins[f]
        = (UNION {Fanins[k] : k \in ins \cup {f}}) \ (ins \cup {f})
  BY <1>1, <1>7, <1>8 DEF Cone
<1> QED BY <1>1, <1>2, <1>3, <1>4, <1>5, <1>9 DEF Cone

------------------------------------------------------------------------------
LEMMA FiniteGates == IsFiniteSet(GateIds) /\ GateIds \subseteq Int
BY NetlistAssumption, FS_CardinalityType

LEMMA IInvInit == Init => IInv
<1> SUFFICES ASSUME Init
             PROVE  IInv
  OBVIOUS
<1>1. /\ HeadList \in Seq(GateIds) /\ HeadList # <<>>
      /\ Range(HeadList) = Heads
      /\ \A i, j \in DOMAIN HeadList : i < j => HeadList[i] < HeadList[j]
  BY QueueAssumption
<1>2. /\ Len(HeadList) \in Nat \ {0}
      /\ DOMAIN HeadList = 1 .. Len(HeadList)
      /\ HeadList \in [1 .. Len(HeadList) -> GateIds]
  BY <1>1, EmptySeq, LenProperties
<1>3. IsInjective(HeadList)
  <2>1. SUFFICES ASSUME NEW i \in DOMAIN HeadList, NEW j \in DOMAIN HeadList,
                        HeadList[i] = HeadList[j], i # j
                 PROVE  FALSE
    BY DEF IsInjective
  <2>2. /\ i \in 1 .. Len(HeadList) /\ j \in 1 .. Len(HeadList)
        /\ i \in Int /\ j \in Int
    BY <1>2, <2>1
  <2>3. HeadList[i] \in GateIds /\ HeadList[i] \in Int
    BY <1>2, <2>2, FiniteGates
  <2>4. i < j \/ j < i
    BY <2>1, <2>2
  <2>5. HeadList[i] < HeadList[j] \/ HeadList[j] < HeadList[i]
    BY <1>1, <2>1, <2>4
  <2> QED BY <2>1, <2>3, <2>5
<1>4. /\ luts = <<>> /\ DOMAIN luts = {} /\ luts \in Seq(Lut)
  BY EmptySeq DEF Init
<1>5. TypeOK
  <2>1. HeadList[1] \in GateIds
    BY <1>2
  <2> QED BY <1>1, <1>3, <1>4, <2>1 DEF Init, TypeOK, Heads
<1>6. QueueInv
  BY <1>1, <1>4 DEF Init, QueueInv
<1>7. FaninInv /\ ConeInv /\ DisjointInv /\ FaninsAreLuts
  BY <1>4 DEF Init, FaninInv, ConeInv, DisjointInv, LutsAreDisjoint, FaninsAreLuts
<1> QED BY <1>5, <1>6, <1>7 DEF IInv

\* A gate alone is a cone.
LEMMA ConeOfOne ==
  ASSUME NEW g \in GateIds
  PROVE  Cone(g, {g}, Fanins[g])
<1>1. g \notin Fanins[g]
  BY FiniteGates, NetlistAssumption
<1> QED BY <1>1, FiniteGates, NetlistAssumption DEF Cone

\* The next root lies in no LUT that is built.
LEMMA RootIsFree ==
  ASSUME IInv, pc = "pop", NEW g \in Range(queue), NEW i \in DOMAIN luts
  PROVE  g \notin luts[i].inner_gates
<1>1. SUFFICES ASSUME g \in luts[i].inner_gates
               PROVE  FALSE
  OBVIOUS
<1>2. /\ g \in done
      /\ luts[i].gate # g
      /\ Cone(luts[i].gate, luts[i].inner_gates, luts[i].fanins)
  BY DEF IInv, QueueInv, ConeInv
<1>3. g \notin Heads
  BY <1>1, <1>2 DEF Cone
<1>4. PICK j \in DOMAIN luts : g \in luts[j].fanins
  BY <1>2, <1>3 DEF IInv, FaninInv
<1>5. Cone(luts[j].gate, luts[j].inner_gates, luts[j].fanins)
  BY DEF IInv, ConeInv
<1>6. CASE i = j
  BY <1>1, <1>4, <1>5, <1>6 DEF Cone
<1>7. CASE i # j
  <2>1. luts[j].inner_gates \cap luts[i].inner_gates = {}
    BY <1>7 DEF IInv, DisjointInv, LutsAreDisjoint
  <2>2. g = luts[i].gate
    BY <1>1, <1>2, <1>4, <1>5, <2>1, FaninIsRoot
  <2> QED BY <1>2, <2>2
<1> QED BY <1>6, <1>7

LEMMA IInvPopGate == IInv /\ PopGate => IInv'
<1> SUFFICES ASSUME IInv, PopGate
             PROVE  IInv'
  OBVIOUS
<1>1. /\ queue \in Seq(GateIds) /\ queue # <<>>
      /\ \A i, j \in DOMAIN queue : queue[i] = queue[j] => i = j
  BY DEF IInv, TypeOK, IsInjective, PopGate
<1>2. /\ root' \in GateIds
      /\ queue' \in Seq(GateIds)
      /\ Range(queue) = Range(queue') \cup {root'}
      /\ root' \notin Range(queue')
      /\ IsInjective(queue')
  BY <1>1, PopQueue DEF PopGate, IsInjective
<1>3. Cone(root', inner', leaves')
  BY <1>2, ConeOfOne DEF PopGate
<1>4. \A i \in DOMAIN luts : luts[i].inner_gates \cap inner' = {}
  BY <1>2, RootIsFree DEF PopGate
<1>5. TypeOK'
  BY <1>2, NetlistAssumption DEF IInv, TypeOK, PopGate
<1>6. QueueInv'
  BY <1>2 DEF IInv, QueueInv, PopGate
<1>7. FaninInv' /\ ConeInv' /\ DisjointInv' /\ FaninsAreLuts'
  BY <1>3, <1>4 DEF IInv, FaninInv, ConeInv, DisjointInv, LutsAreDisjoint,
                    FaninsAreLuts, PopGate
<1> QED BY <1>5, <1>6, <1>7 DEF IInv

LEMMA IInvAbsorb ==
  ASSUME IInv, NEW g \in GateIds, Absorb(g)
  PROVE  IInv'
<1>1. /\ pc = "grow" /\ g \in leaves /\ ~Branching(g) /\ g \notin PIs
      /\ Cone(root, inner, leaves)
      /\ \A i \in DOMAIN luts : luts[i].inner_gates \cap inner = {}
  BY DEF IInv, ConeInv, DisjointInv, Absorb, Candidates
<1>2. g \notin Heads /\ Cone(root, inner', leaves')
  BY <1>1, ConeGrows DEF Absorb
<1>3. ASSUME NEW i \in DOMAIN luts, g \in luts[i].inner_gates
      PROVE  FALSE
  <2>1. /\ Cone(luts[i].gate, luts[i].inner_gates, luts[i].fanins)
        /\ inner \cap luts[i].inner_gates = {}
    BY <1>1 DEF IInv, ConeInv
  <2>2. g = luts[i].gate
    BY <1>1, <1>3, <2>1, FaninIsRoot
  <2>3. g \in done
    BY <2>2 DEF IInv, QueueInv
  <2>4. PICK j \in DOMAIN luts : g \in luts[j].fanins
    BY <1>2, <2>3 DEF IInv, FaninInv
  <2>5. /\ Cone(luts[j].gate, luts[j].inner_gates, luts[j].fanins)
        /\ inner \cap luts[j].inner_gates = {}
    BY <1>1 DEF IInv, ConeInv
  <2>6. PICK h1 \in inner : h1 \in Fanouts(g)
    BY <1>1, ConeFanins
  <2>7. PICK h2 \in luts[j].inner_gates : h2 \in Fanouts(g)
    BY <2>4, <2>5, ConeFanins
  <2>8. h1 = h2
    BY <1>1, <2>6, <2>7, SoleReader
  <2> QED BY <2>5, <2>6, <2>7, <2>8
<1>4. \A i \in DOMAIN luts : luts[i].inner_gates \cap inner' = {}
  BY <1>1, <1>3 DEF Absorb
<1>5. TypeOK'
  BY NetlistAssumption DEF IInv, TypeOK, Absorb
<1>6. QueueInv'
  BY DEF IInv, QueueInv, Absorb
<1>7. FaninInv' /\ ConeInv' /\ DisjointInv' /\ FaninsAreLuts'
  BY <1>2, <1>4 DEF IInv, FaninInv, ConeInv, DisjointInv, LutsAreDisjoint,
                    FaninsAreLuts, Absorb
<1> QED BY <1>5, <1>6, <1>7 DEF IInv

\* What a finished LUT adds to the list.
LEMMA FinishAdds ==
  ASSUME IInv, FinishLut
  PROVE  /\ luts' \in Seq(Lut)
         /\ DOMAIN luts' = DOMAIN luts \cup {Len(luts) + 1}
         /\ Len(luts) + 1 \notin DOMAIN luts
         /\ \A i \in DOMAIN luts : luts'[i] = luts[i]
         /\ luts'[Len(luts) + 1]
              = [gate |-> root, inner_gates |-> inner, fanins |-> leaves]
<1>1. luts \in Seq(Lut)
      /\ [gate |-> root, inner_gates |-> inner, fanins |-> leaves] \in Lut
  BY DEF IInv, TypeOK, Lut
<1> QED BY <1>1, AppendOne DEF FinishLut

\* What it adds to the queue.
LEMMA FinishQueues ==
  ASSUME IInv, FinishLut
  PROVE  /\ queue' \in Seq(GateIds)
         /\ Range(queue') = Range(queue) \cup NewHeads
         /\ IsInjective(queue')
<1>1. PICK o \in Orders(NewHeads) : queue' = queue \o o
  BY DEF FinishLut
<1>2. NewHeads \subseteq GateIds /\ IsFiniteSet(NewHeads)
  BY FiniteGates, FS_Subset DEF NewHeads, IInv, TypeOK
<1>3. /\ o \in Seq(NewHeads)
      /\ Range(o) = NewHeads
      /\ \A i, j \in DOMAIN o : o[i] = o[j] => i = j
  BY <1>1, <1>2, OrdersList
<1>4. o \in Seq(GateIds)
  BY <1>2, <1>3, SeqMonotonic
<1>5. Range(queue) \cap Range(o) = {}
  BY <1>3 DEF IInv, QueueInv, NewHeads
<1>6. queue \in Seq(GateIds) /\ \A i, j \in DOMAIN queue : queue[i] = queue[j] => i = j
  BY DEF IInv, TypeOK, IsInjective
<1>7. /\ queue \o o \in Seq(GateIds)
      /\ Range(queue \o o) = Range(queue) \cup Range(o)
      /\ \A i, j \in DOMAIN (queue \o o) :
           (queue \o o)[i] = (queue \o o)[j] => i = j
  BY <1>3, <1>4, <1>5, <1>6, JoinQueues
<1> QED BY <1>1, <1>3, <1>7 DEF IsInjective

LEMMA IInvFinishLut == IInv /\ FinishLut => IInv'
<1> SUFFICES ASSUME IInv, FinishLut
             PROVE  IInv'
  OBVIOUS
<1> DEFINE n == Len(luts) + 1
<1>1. /\ DOMAIN luts' = DOMAIN luts \cup {n}
      /\ n \notin DOMAIN luts
      /\ \A i \in DOMAIN luts : luts'[i] = luts[i]
      /\ luts'[n].gate = root
      /\ luts'[n].inner_gates = inner
      /\ luts'[n].fanins = leaves
      /\ luts' \in Seq(Lut)
  BY FinishAdds
<1>2. /\ queue' \in Seq(GateIds)
      /\ Range(queue') = Range(queue) \cup NewHeads
      /\ IsInjective(queue')
  BY FinishQueues
<1>3. /\ pc = "grow" /\ pc' = "pop"
      /\ done' = done \cup NewHeads
      /\ root' = root /\ inner' = inner /\ leaves' = leaves
      /\ Cone(root, inner, leaves)
  BY DEF FinishLut, IInv, ConeInv
<1> HIDE DEF n
<1>4. /\ NewHeads \subseteq leaves
      /\ NewHeads \cap done = {}
      /\ leaves \subseteq done'
  <2>1. NewHeads \subseteq leaves /\ NewHeads \cap done = {}
    BY DEF NewHeads
  <2>2. ASSUME NEW f \in leaves
        PROVE  f \in done'
    <3>1. f \in GateIds
      BY <1>3, ConeFanins
    <3>2. CASE Branching(f) \/ f \in PIs
      BY <1>3, <3>1, <3>2 DEF Heads, IInv, QueueInv
    <3>3. CASE ~Branching(f) /\ f \notin PIs
      BY <1>3, <3>3 DEF NewHeads
    <3> QED BY <3>2, <3>3
  <2> QED BY <2>1, <2>2
<1>5. TypeOK'
  BY <1>1, <1>2, <1>3, <1>4 DEF IInv, TypeOK
<1>6. QueueInv'
  <2>1. root \in done \ Range(queue) /\ \A i \in DOMAIN luts : luts[i].gate # root
    BY <1>3 DEF IInv, QueueInv
  <2>2. Heads \subseteq done' /\ Range(queue') \subseteq done'
    BY <1>2, <1>3 DEF IInv, QueueInv
  <2>3. ASSUME NEW g \in done'
        PROVE  g \in Range(queue') \/ \E i \in DOMAIN luts' : luts'[i].gate = g
    BY <1>1, <1>2, <1>3, <2>3 DEF IInv, QueueInv
  <2>4. ASSUME NEW i \in DOMAIN luts'
        PROVE  luts'[i].gate \in done' \ Range(queue')
    <3>1. luts'[i].gate \in done \ Range(queue)
      BY <1>1, <2>1 DEF IInv, QueueInv
    <3> QED BY <1>2, <1>3, <1>4, <3>1
  <2>5. \A i, j \in DOMAIN luts' : luts'[i].gate = luts'[j].gate => i = j
    BY <1>1, <2>1 DEF IInv, QueueInv
  <2> QED BY <1>3, <2>2, <2>3, <2>4, <2>5 DEF QueueInv
<1>7. FaninInv'
  <2>1. \A g \in done' \ Heads : \E i \in DOMAIN luts' : g \in luts'[i].fanins
    BY <1>1, <1>3, <1>4 DEF IInv, FaninInv
  <2>2. \A i \in DOMAIN luts' : luts'[i].fanins \subseteq done'
    BY <1>1, <1>3, <1>4 DEF IInv, FaninInv
  <2> QED BY <2>1, <2>2 DEF FaninInv
<1>8. ConeInv'
  BY <1>1, <1>3 DEF IInv, ConeInv
<1>9. DisjointInv' /\ FaninsAreLuts'
  BY <1>1, <1>3 DEF IInv, DisjointInv, LutsAreDisjoint, FaninsAreLuts
<1> QED BY <1>5, <1>6, <1>7, <1>8, <1>9 DEF IInv

LEMMA IInvLink == IInv /\ Link => IInv'
<1> SUFFICES ASSUME IInv, Link
             PROVE  IInv'
  OBVIOUS
<1>1. Range(queue) = {}
  BY DEF Link, Range
<1>2. ASSUME NEW i \in DOMAIN luts, NEW g \in luts[i].fanins
      PROVE  \E j \in DOMAIN luts : luts[j].gate = g
  <2>1. g \in done
    BY DEF IInv, FaninInv
  <2> QED BY <1>1, <2>1 DEF IInv, QueueInv, Link
<1>3. pc' = "linked" /\ pc = "pop" /\ queue = <<>>
  BY <1>2 DEF Link
<1>4. UNCHANGED <<queue, done, root, inner, leaves, luts>>
  BY DEF Link
<1> QED BY <1>1, <1>3, <1>4 DEF IInv, TypeOK, QueueInv, FaninInv, ConeInv,
                                 DisjointInv, LutsAreDisjoint, FaninsAreLuts

LEMMA IInvNext == IInv /\ [Next]_vars => IInv'
<1> SUFFICES ASSUME IInv, [Next]_vars
             PROVE  IInv'
  OBVIOUS
<1>1. CASE UNCHANGED vars
  BY <1>1 DEF vars, IInv, TypeOK, QueueInv, FaninInv, ConeInv, DisjointInv,
              LutsAreDisjoint, FaninsAreLuts, NewHeads
<1>2. CASE Next
  <2>1. CASE PopGate
    BY <2>1, IInvPopGate
  <2>2. ASSUME NEW g \in GateIds, Absorb(g)
        PROVE  IInv'
    BY <2>2, IInvAbsorb
  <2>3. CASE FinishLut
    BY <2>3, IInvFinishLut
  <2>4. CASE Link
    BY <2>4, IInvLink
  <2>5. CASE Linked
    BY <2>5, <1>1 DEF Linked
  <2> QED BY <1>2, <2>1, <2>2, <2>3, <2>4, <2>5 DEF Next
<1> QED BY <1>1, <1>2

LEMMA Inductive == Spec => []IInv
BY IInvInit, IInvNext, PTL DEF Spec

------------------------------------------------------------------------------
\* The builder's variables keep their types, and no gate is queued twice.
THEOREM TypeCorrect == Spec => []TypeOK
<1>1. IInv => TypeOK
  BY DEF IInv
<1> QED BY <1>1, Inductive, PTL

\* The assertion of build_lut_circuit that every fanin has a LUT never fails.
THEOREM NoFaninMissing == Spec => []FaninsAreLuts
<1>1. IInv => FaninsAreLuts
  BY DEF IInv
<1> QED BY <1>1, Inductive, PTL

\* No gate gets into two LUTs, whatever leaves the constructor picks.
THEOREM Disjoint == Spec => []LutsAreDisjoint
<1>1. IInv => LutsAreDisjoint
  BY DEF IInv, DisjointInv
<1> QED BY <1>1, Inductive, PTL

\* The last gate that is in no LUT would have a reader that is in one, and so
\* be a fanin of it: every gate is in a LUT when they are connected.
LEMMA CoverFromIInv == IInv => LutsCoverGates
<1> SUFFICES ASSUME IInv, pc = "linked"
             PROVE  UNION {luts[i].inner_gates : i \in DOMAIN luts} = GateIds
  BY DEF LutsCoverGates
<1> DEFINE Covered == UNION {luts[i].inner_gates : i \in DOMAIN luts}
           Rest == GateIds \ Covered
<1>1. Covered \subseteq GateIds
  BY DEF IInv, ConeInv, Cone
<1>2. SUFFICES ASSUME Rest # {}
               PROVE  FALSE
  BY <1>1
<1>3. \E g \in Rest : \A h \in Rest : h <= g
  BY <1>2, NetlistAssumption, FS_CardinalityType, GreatestGate
<1>4. PICK g \in Rest : \A h \in Rest : h <= g
  BY <1>3
<1>5. \A i \in DOMAIN luts : g \notin luts[i].inner_gates /\ luts[i].gate # g
  BY <1>4 DEF IInv, ConeInv, Cone
<1>6. Range(queue) = {}
  BY DEF IInv, QueueInv, Range
<1>7. g \notin done
  BY <1>5, <1>6 DEF IInv, QueueInv
<1>8. g \notin Heads
  BY <1>7 DEF IInv, QueueInv
<1>9. PICK h \in GateIds : g \in Fanins[h]
  BY <1>4, <1>8, NetlistAssumption DEF Heads, Fanouts
<1>10. g < h /\ g \in Int /\ h \in Int
  BY <1>4, <1>9, NetlistAssumption, FiniteGates
<1>11. h \notin Rest
  BY <1>4, <1>10
<1>12. PICK i \in DOMAIN luts : h \in luts[i].inner_gates
  BY <1>11
<1>13. g \in luts[i].fanins
  BY <1>5, <1>9, <1>12 DEF IInv, ConeInv, Cone
<1> QED BY <1>7, <1>13 DEF IInv, FaninInv

\* ls_main's count of the gates in the LUTs is that of the netlist's gates: no
\* fault is left out of the fault list because its gate is in no LUT.
THEOREM Cover == Spec => []LutsCoverGates
<1> QED BY CoverFromIInv, Inductive, PTL

\* A gate hidden in a LUT has no reader outside it.
THEOREM Private == Spec => []InnerIsPrivate
<1>1. IInv => InnerIsPrivate
  <2> SUFFICES ASSUME IInv, NEW i \in DOMAIN luts,
                      NEW g \in luts[i].inner_gates \ {luts[i].gate}
               PROVE  g \notin PIs /\ Fanouts(g) \subseteq luts[i].inner_gates
    BY DEF InnerIsPrivate
  <2>1. Cone(luts[i].gate, luts[i].inner_gates, luts[i].fanins)
    BY DEF IInv, ConeInv
  <2> QED BY <2>1 DEF Cone, Heads
<1> QED BY <1>1, Inductive, PTL

\* The LUTs partition the netlist, and only their roots are read from outside
\* (Circuit::build_lut_circuit, LUT::LUT).
THEOREM Partition == Spec => []LutsPartitionGates
BY Disjoint, Cover, Private, PTL DEF LutsPartitionGates

\* A LUT's fanins are what its gates read from outside, and its root is the last
\* of its gates: one pass in the order of the ids evaluates it.
THEOREM Closed == Spec => []ConesAreClosed
<1>1. IInv => ConesAreClosed
  <2> SUFFICES ASSUME IInv, NEW i \in DOMAIN luts
               PROVE  LET lut == luts[i] IN
                      /\ lut.fanins = (UNION {Fanins[g] : g \in lut.inner_gates})
                                        \ lut.inner_gates
                      /\ \A g \in lut.inner_gates \ {lut.gate} : g < lut.gate
                      /\ \A f \in lut.fanins : f < lut.gate
    BY DEF ConesAreClosed
  <2>1. Cone(luts[i].gate, luts[i].inner_gates, luts[i].fanins)
    BY DEF IInv, ConeInv
  <2>2. \A f \in luts[i].fanins : f < luts[i].gate
    BY <2>1, ConeFanins
  <2>3. \A g \in luts[i].inner_gates \ {luts[i].gate} : g < luts[i].gate
    <3>1. ASSUME NEW g \in luts[i].inner_gates \ {luts[i].gate}
          PROVE  /\ g \in Int /\ luts[i].gate \in Int
                 /\ g <= luts[i].gate /\ g # luts[i].gate
      BY <2>1, FiniteGates DEF Cone
    <3> QED BY <3>1
  <2> QED BY <2>1, <2>2, <2>3 DEF Cone
<1> QED BY <1>1, Inductive, PTL

------------------------------------------------------------------------------
\* The inputs in a sequence of gates come in the order of their ids.
Ascending(q) == \A i, j \in DOMAIN q : i < j /\ {q[i], q[j]} \subseteq PIs => q[i] < q[j]

\* The inputs that have a LUT come before the one that is getting its LUT, and
\* both before those that are queued: the inputs are queued at the beginning only.
OrderInv ==
  /\ InputOrder
  /\ Ascending(queue)
  /\ \A i \in DOMAIN luts, g \in Range(queue) :
       {luts[i].gate, g} \subseteq PIs => luts[i].gate < g
  /\ pc = "grow" /\ root \in PIs =>
       /\ \A i \in DOMAIN luts : luts[i].gate \in PIs => luts[i].gate < root
       /\ \A g \in Range(queue) \cap PIs : root < g

\* What is left of an ascending queue ascends, and lies above what was taken out.
LEMMA PopAscending ==
  ASSUME NEW q \in Seq(GateIds), q # <<>>, Ascending(q)
  PROVE  /\ Ascending(Tail(q))
         /\ Head(q) \in PIs => \A g \in Range(Tail(q)) \cap PIs : Head(q) < g
<1>1. /\ Tail(q) \in Seq(GateIds)
      /\ Len(Tail(q)) = Len(q) - 1
      /\ \A i \in 1 .. Len(Tail(q)) : Tail(q)[i] = q[i + 1]
  BY HeadTailProperties
<1>2. /\ Len(q) \in Nat /\ Len(q) >= 1
      /\ DOMAIN q = 1 .. Len(q)
      /\ DOMAIN Tail(q) = 1 .. (Len(q) - 1)
      /\ Head(q) = q[1]
  BY <1>1, EmptySeq, LenProperties
<1>3. ASSUME NEW i \in DOMAIN Tail(q)
      PROVE  i + 1 \in DOMAIN q /\ 1 \in DOMAIN q /\ 1 < i + 1 /\ Tail(q)[i] = q[i + 1]
  BY <1>1, <1>2
<1>4. Ascending(Tail(q))
  <2>1. SUFFICES ASSUME NEW i \in DOMAIN Tail(q), NEW j \in DOMAIN Tail(q), i < j,
                        {Tail(q)[i], Tail(q)[j]} \subseteq PIs
                 PROVE  Tail(q)[i] < Tail(q)[j]
    BY DEF Ascending
  <2>2. i + 1 < j + 1
    BY <1>2, <2>1
  <2> QED BY <1>3, <2>1, <2>2 DEF Ascending
<1>5. ASSUME Head(q) \in PIs, NEW g \in Range(Tail(q)) \cap PIs
      PROVE  Head(q) < g
  <2>1. PICK i \in DOMAIN Tail(q) : g = Tail(q)[i]
    BY DEF Range
  <2> QED BY <1>2, <1>3, <1>5, <2>1 DEF Ascending
<1> QED BY <1>4, <1>5

\* A queue still ascends when gates that are no inputs are added to it.
LEMMA JoinAscending ==
  ASSUME NEW q \in Seq(GateIds), Ascending(q), NEW o \in Seq(GateIds \ PIs)
  PROVE  Ascending(q \o o) /\ Range(q \o o) \cap PIs \subseteq Range(q)
<1>1. /\ Len(q \o o) = Len(q) + Len(o)
      /\ \A i \in 1 .. Len(q) + Len(o) : (q \o o)[i] = IF i <= Len(q) THEN q[i] ELSE o[i - Len(q)]
  BY ConcatProperties, SeqMonotonic
<1>2. /\ Len(q) \in Nat /\ Len(o) \in Nat /\ DOMAIN q = 1 .. Len(q)
      /\ DOMAIN (q \o o) = 1 .. Len(q) + Len(o)
      /\ \A i \in 1 .. Len(o) : o[i] \notin PIs
  <2>1. q \o o \in Seq(GateIds)
    BY ConcatProperties, SeqMonotonic
  <2> QED BY <1>1, <2>1, LenProperties, ElementOfSeq
<1>3. ASSUME NEW i \in DOMAIN (q \o o), (q \o o)[i] \in PIs
      PROVE  i \in DOMAIN q /\ (q \o o)[i] = q[i]
  <2>1. CASE i <= Len(q)
    BY <1>1, <1>2, <2>1
  <2>2. CASE ~(i <= Len(q))
    <3>1. i - Len(q) \in 1 .. Len(o) /\ (q \o o)[i] = o[i - Len(q)]
      BY <1>1, <1>2, <2>2
    <3> QED BY <1>2, <1>3, <3>1
  <2> QED BY <2>1, <2>2
<1> QED BY <1>3 DEF Ascending, Range

LEMMA OrderInit == Init => OrderInv
<1> SUFFICES ASSUME Init
             PROVE  OrderInv
  OBVIOUS
<1>1. DOMAIN luts = {}
  BY EmptySeq DEF Init
<1> QED BY <1>1, QueueAssumption DEF Init, OrderInv, InputOrder, Ascending

LEMMA OrderNext == IInv /\ OrderInv /\ [Next]_vars => OrderInv'
<1> SUFFICES ASSUME IInv, OrderInv, [Next]_vars
             PROVE  OrderInv'
  OBVIOUS
<1>1. queue \in Seq(GateIds) /\ \A i, j \in DOMAIN queue : queue[i] = queue[j] => i = j
  BY DEF IInv, TypeOK, IsInjective
<1>2. CASE PopGate
  <2>1. queue # <<>> /\ root' = Head(queue) /\ queue' = Tail(queue) /\ luts' = luts
    BY <1>2 DEF PopGate
  <2>2. /\ Ascending(queue')
        /\ root' \in PIs => \A g \in Range(queue') \cap PIs : root' < g
    BY <1>1, <2>1, PopAscending DEF OrderInv
  <2>3. Range(queue) = Range(queue') \cup {root'}
    BY <1>1, <2>1, PopQueue
  <2> QED BY <2>1, <2>2, <2>3 DEF OrderInv, InputOrder
<1>3. ASSUME NEW g \in GateIds, Absorb(g)
      PROVE  OrderInv'
  BY <1>3 DEF Absorb, OrderInv, InputOrder, Ascending
<1>4. CASE FinishLut
  <2>1. /\ DOMAIN luts' = DOMAIN luts \cup {Len(luts) + 1}
        /\ Len(luts) + 1 \notin DOMAIN luts
        /\ \A i \in DOMAIN luts : luts'[i] = luts[i]
        /\ luts'[Len(luts) + 1].gate = root
    BY <1>4, FinishAdds
  <2>2. Len(luts) \in Nat /\ DOMAIN luts = 1 .. Len(luts)
    BY LenProperties DEF IInv, TypeOK
  <2>3. pc = "grow" /\ pc' = "pop"
    BY <1>4 DEF FinishLut
  <2>4. PICK o \in Orders(NewHeads) : queue' = queue \o o
    BY <1>4 DEF FinishLut
  <2>5. NewHeads \subseteq GateIds \ PIs /\ IsFiniteSet(NewHeads)
    BY FiniteGates, FS_Subset DEF NewHeads, IInv, TypeOK
  <2>6. o \in Seq(GateIds \ PIs)
    <3>1. o \in Seq(NewHeads)
      BY <2>4, <2>5, OrdersList
    <3> QED BY <2>5, <3>1, SeqMonotonic
  <2>7. Ascending(queue') /\ Range(queue') \cap PIs \subseteq Range(queue)
    BY <1>1, <2>4, <2>6, JoinAscending DEF OrderInv
  <2>8. InputOrder'
    <3>1. SUFFICES ASSUME NEW i \in DOMAIN luts', NEW j \in DOMAIN luts', i < j,
                          {luts'[i].gate, luts'[j].gate} \subseteq PIs
                   PROVE  luts'[i].gate < luts'[j].gate
      BY DEF InputOrder
    <3>2. i \in DOMAIN luts
      BY <2>1, <2>2, <3>1
    <3>3. CASE j \in DOMAIN luts
      BY <2>1, <3>1, <3>2, <3>3 DEF OrderInv, InputOrder
    <3>4. CASE j = Len(luts) + 1
      BY <2>1, <2>3, <3>1, <3>2, <3>4 DEF OrderInv
    <3> QED BY <2>1, <3>3, <3>4
  <2>9. ASSUME NEW i \in DOMAIN luts', NEW g \in Range(queue'),
               {luts'[i].gate, g} \subseteq PIs
        PROVE  luts'[i].gate < g
    <3>1. g \in Range(queue) \cap PIs
      BY <2>7, <2>9
    <3>2. CASE i \in DOMAIN luts
      BY <2>1, <2>9, <3>1, <3>2 DEF OrderInv
    <3>3. CASE i = Len(luts) + 1
      BY <2>1, <2>3, <2>9, <3>1, <3>3 DEF OrderInv
    <3> QED BY <2>1, <3>2, <3>3
  <2> QED BY <2>3, <2>7, <2>8, <2>9 DEF OrderInv
<1>5. CASE Link
  BY <1>5 DEF Link, OrderInv, InputOrder, Ascending
<1>6. CASE UNCHANGED vars
  BY <1>6 DEF vars, OrderInv, InputOrder, Ascending
<1> QED BY <1>2, <1>3, <1>4, <1>5, <1>6 DEF Next, Linked

\* The LUTs of the primary inputs come in the order of the inputs, whatever is
\* queued between them: input i of the oracle's vector is LUT i of the inputs.
THEOREM InputsInOrder == Spec => []InputOrder
<1>1. OrderInv => InputOrder
  BY DEF OrderInv
<1> QED BY <1>1, OrderInit, OrderNext, Inductive, IInvNext, PTL DEF Spec
==============================================================================
