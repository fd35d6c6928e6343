--------------------------- MODULE InductionFacts ----------------------------
(***************************************************************************)
(* Induction and recursion with sets and functions as parameters, and      *)
(* facts about finite sets that follow, for the proofs about values that   *)
(* are computed over a circuit; facts about sequences, and about queues    *)
(* without repetitions.                                                    *)
(***************************************************************************)
EXTENDS Integers, Sequences, SequencesExt, FiniteSets, Functions, FiniteSetTheorems,
        SequenceTheorems, WellFoundedInduction, TLAPS

\* A set of naturals that is not empty has a least element.
LEMMA LeastNatural ==
  ASSUME NEW B \in SUBSET Nat, B # {}
  PROVE  \E n \in B : \A m \in B : n <= m
<1>1. PICK n \in B : \A m \in B : ~ (<<m, n>> \in OpToRel(<, Nat))
  BY NatLessThanWellFounded, WFMin
<1>2. \A m \in B : ~ (m < n)
  BY <1>1 DEF OpToRel
<1> QED BY <1>2

\* Induction over the naturals: B is the set of numbers the claim holds for.
LEMMA InductionOverNat ==
  ASSUME NEW B \in SUBSET Nat, 0 \in B, \A n \in B : n + 1 \in B
  PROVE  B = Nat
<1>1. SUFFICES ASSUME Nat \ B # {}
               PROVE  FALSE
  OBVIOUS
<1>2. PICK n \in Nat \ B : \A m \in Nat \ B : n <= m
  BY <1>1, LeastNatural
<1>3. n # 0 /\ n - 1 \in Nat /\ ~(n <= n - 1)
  BY <1>2
<1>4. n - 1 \in B
  BY <1>2, <1>3
<1>5. (n - 1) + 1 = n
  BY <1>3
<1> QED BY <1>2, <1>4, <1>5

\* D[x][f] is what a recursive definition makes of argument x when it reads the
\* values f. It has its values in T, and reads arguments of smaller rank only.
Delivers(D, S, T) == \A x \in S : \A f \in [S -> T] : D[x][f] \in T

ReadsBelow(D, S, T, rank) ==
  \A x \in S : \A g, h \in [S -> T] :
    (\A y \in S : rank[y] < rank[x] => g[y] = h[y]) => D[x][g] = D[x][h]

Solves(f, D, S) == \A x \in S : f[x] = D[x][f]

\* Recursion along the rank: such a definition defines a function.
LEMMA RankedRecursion ==
  ASSUME NEW S, NEW T, T # {}, NEW rank \in [S -> Nat],
         NEW D, Delivers(D, S, T), ReadsBelow(D, S, T, rank)
  PROVE  \E f \in [S -> T] : Solves(f, D, S)
<1>a. \A x \in S : \A f \in [S -> T] : D[x][f] \in T
  BY DEF Delivers
<1>b. \A x \in S : \A g, h \in [S -> T] :
        (\A y \in S : rank[y] < rank[x] => g[y] = h[y]) => D[x][g] = D[x][h]
  BY DEF ReadsBelow
<1> DEFINE F == [S -> T]
           Good(n, f) == \A x \in S : rank[x] < n => f[x] = D[x][f]
           B == {n \in Nat : \E f \in F : Good(n, f)}
           U == {n \in Nat : \A f, g \in F : Good(n, f) /\ Good(n, g) =>
                               \A x \in S : rank[x] < n => f[x] = g[x]}
<1>0. \A x \in S : rank[x] \in Nat
  OBVIOUS
<1>1. 0 \in B
  <2>1. PICK t \in T : TRUE
    OBVIOUS
  <2>2. [x \in S |-> t] \in F
    OBVIOUS
  <2>3. \A x \in S : ~(rank[x] < 0)
    OBVIOUS
  <2> QED BY <2>2, <2>3
<1>2. ASSUME NEW n \in Nat, n \in B
      PROVE  n + 1 \in B
  <2>1. n + 1 \in Nat
    OBVIOUS
  <2>2. PICK f \in F : Good(n, f)
    BY <1>2
  <2> DEFINE g == [x \in S |-> IF rank[x] = n THEN D[x][f] ELSE f[x]]
  <2>3. g \in F
    BY <1>a
  <2>4. \A x \in S : /\ rank[x] = n => g[x] = D[x][f]
                     /\ rank[x] # n => g[x] = f[x]
    OBVIOUS
  <2> HIDE DEF g
  <2> HIDE DEF B, U, F, Good
  <2>5. ASSUME NEW x \in S, rank[x] < n + 1
        PROVE  g[x] = D[x][g]
    <3>1. rank[x] \in Nat /\ rank[x] <= n
      BY <2>1, <2>5
    <3>2. \A y \in S : rank[y] < rank[x] => g[y] = f[y]
      BY <1>0, <2>1, <2>4, <3>1
    <3>3. D[x][g] = D[x][f]
      BY <1>b, <2>3, <3>2 DEF F
    <3>4. CASE rank[x] = n
      BY <2>4, <3>3, <3>4
    <3>5. CASE rank[x] # n
      <4>1. g[x] = f[x]
        BY <1>0, <2>1, <2>4, <3>5
      <4>2. f[x] = D[x][f]
        <5>1. rank[x] < n
          BY <3>1, <3>5
        <5> QED BY <2>2, <5>1 DEF Good
      <4> QED BY <3>3, <4>1, <4>2
    <3> QED BY <3>4, <3>5
  <2>6. Good(n + 1, g)
    BY <2>5 DEF Good
  <2> QED BY <2>1, <2>3, <2>6 DEF B
<1>3. B = Nat
  <2> HIDE DEF B
  <2>1. B \in SUBSET Nat
    BY DEF B
  <2> QED BY <1>1, <1>2, <2>1, InductionOverNat
<1>4. 0 \in U
  <2>1. \A x \in S : ~(rank[x] < 0)
    OBVIOUS
  <2> QED BY <2>1
<1>5. ASSUME NEW n \in U
      PROVE  n + 1 \in U
  <2>1. n \in Nat /\ n + 1 \in Nat
    BY <1>5
  <2>2. ASSUME NEW f \in F, NEW g \in F, Good(n + 1, f), Good(n + 1, g),
               NEW x \in S, rank[x] < n + 1
        PROVE  f[x] = g[x]
    <3>1. Good(n, f) /\ Good(n, g)
      BY <2>1, <2>2
    <3>2. \A y \in S : rank[y] < n => f[y] = g[y]
      BY <1>5, <3>1
    <3>3. \A y \in S : rank[y] < rank[x] => f[y] = g[y]
      BY <2>1, <2>2, <3>2
    <3>4. D[x][f] = D[x][g]
      BY <1>b, <3>3
    <3>5. f[x] = D[x][f] /\ g[x] = D[x][g]
      BY <2>2
    <3> QED BY <3>4, <3>5
  <2> QED BY <2>1, <2>2
<1>6. U = Nat
  <2> HIDE DEF U
  <2>1. U \in SUBSET Nat
    BY DEF U
  <2> QED BY <1>4, <1>5, <2>1, InductionOverNat
<1>7. \A n \in Nat : \E f \in F : Good(n, f)
  BY <1>3
<1>8. \A n \in Nat : \A f, g \in F :
        Good(n, f) /\ Good(n, g) => \A x \in S : rank[x] < n => f[x] = g[x]
  BY <1>6
<1> DEFINE upTo == [n \in Nat |-> CHOOSE f \in F : Good(n, f)]
           f == [x \in S |-> upTo[rank[x] + 1][x]]
<1> HIDE DEF Good, B, U
<1>9. \A n \in Nat : upTo[n] \in F /\ Good(n, upTo[n])
  BY <1>7
<1> HIDE DEF upTo
<1>10. f \in F /\ \A x \in S : f[x] = upTo[rank[x] + 1][x]
  <2>1. \A x \in S : rank[x] + 1 \in Nat
    OBVIOUS
  <2> QED BY <1>9, <2>1
<1> HIDE DEF f
<1>11. ASSUME NEW x \in S
       PROVE  f[x] = D[x][f]
  <2> DEFINE h == upTo[rank[x] + 1]
  <2>1. rank[x] + 1 \in Nat /\ rank[x] < rank[x] + 1
    OBVIOUS
  <2>2. h \in F /\ Good(rank[x] + 1, h)
    BY <1>9, <2>1
  <2>3. f[x] = h[x]
    BY <1>10
  <2> HIDE DEF h
  <2>4. ASSUME NEW y \in S, rank[y] < rank[x]
        PROVE  f[y] = h[y]
    <3> DEFINE k == upTo[rank[y] + 1]
    <3>1. rank[y] + 1 \in Nat /\ rank[y] < rank[y] + 1
      OBVIOUS
    <3>2. k \in F /\ Good(rank[y] + 1, k)
      BY <1>9, <3>1
    <3>3. Good(rank[y] + 1, h)
      BY <2>2, <2>4 DEF Good
    <3>4. f[y] = k[y]
      BY <1>10
    <3> HIDE DEF k
    <3> QED BY <1>8, <2>2, <3>1, <3>2, <3>3, <3>4
  <2>5. D[x][f] = D[x][h]
    BY <1>10, <1>b, <2>2, <2>4
  <2>6. h[x] = D[x][h]
    BY <2>1, <2>2 DEF Good
  <2> QED BY <2>3, <2>5, <2>6
<1> QED BY <1>10, <1>11 DEF Solves

\* What is equal wherever it is equal at all smaller ranks is equal everywhere.
LEMMA RankedUniqueness ==
  ASSUME NEW S, NEW rank \in [S -> Nat], NEW f, NEW g,
         \A x \in S : (\A y \in S : rank[y] < rank[x] => f[y] = g[y]) => f[x] = g[x]
  PROVE  \A x \in S : f[x] = g[x]
<1> DEFINE B == {rank[x] : x \in {y \in S : f[y] # g[y]}}
<1>1. SUFFICES ASSUME B # {} PROVE FALSE
  OBVIOUS
<1>2. B \in SUBSET Nat
  OBVIOUS
<1>3. PICK n \in B : \A m \in B : n <= m
  <2> HIDE DEF B
  <2> QED BY <1>1, <1>2, LeastNatural
<1>4. PICK x \in S : f[x] # g[x] /\ n = rank[x]
  OBVIOUS
<1>5. ASSUME NEW y \in S, rank[y] < rank[x]
      PROVE  f[y] = g[y]
  <2>1. rank[y] \in Nat /\ rank[x] \in Nat
    OBVIOUS
  <2>2. ~(n <= rank[y])
    BY <1>4, <1>5, <2>1
  <2>3. rank[y] \notin B
    <3> HIDE DEF B
    <3> QED BY <1>3, <2>2
  <2> QED BY <2>3
<1> QED BY <1>4, <1>5

------------------------------------------------------------------------------
\* Induction over a finite set: B holds the subsets the claim is true of.
LEMMA InductionOverSet ==
  ASSUME NEW S, IsFiniteSet(S), NEW B, {} \in B,
         \A T \in SUBSET S : \A x \in S \ T : T \in B => T \cup {x} \in B
  PROVE  S \in B
<1> DEFINE C == {n \in Nat : \A T \in SUBSET S : Cardinality(T) = n => T \in B}
<1>1. 0 \in C
  <2>1. ASSUME NEW T \in SUBSET S, Cardinality(T) = 0
        PROVE  T \in B
    <3>1. IsFiniteSet(T)
      BY FS_Subset
    <3>2. T = {}
      BY <2>1, <3>1, FS_EmptySet
    <3> QED BY <3>2
  <2> QED BY <2>1
<1>2. ASSUME NEW n \in C
      PROVE  n + 1 \in C
  <2>1. n \in Nat /\ n + 1 \in Nat
    BY <1>2
  <2>2. ASSUME NEW T \in SUBSET S, Cardinality(T) = n + 1
        PROVE  T \in B
    <3>1. IsFiniteSet(T)
      BY FS_Subset
    <3>2. T # {}
      <4>1. n + 1 # 0
        BY <2>1
      <4>2. Cardinality(T) # 0
        BY <2>2, <4>1
      <4> QED BY <3>1, <4>2, FS_EmptySet
    <3>3. PICK x \in T : TRUE
      BY <3>2
    <3> DEFINE U == T \ {x}
    <3>4. U \in SUBSET S /\ x \in S \ U /\ U \cup {x} = T
      BY <3>3
    <3>5. Cardinality(U) = n
      <4>1. Cardinality(U) = Cardinality(T) - 1
        BY <3>1, <3>3, FS_RemoveElement
      <4>2. (n + 1) - 1 = n
        BY <2>1
      <4> QED BY <2>2, <4>1, <4>2
    <3>6. U \in B
      BY <1>2, <3>4, <3>5
    <3> HIDE DEF U
    <3> QED BY <3>4, <3>6
  <2> QED BY <2>1, <2>2
<1>3. C = Nat
  <2> HIDE DEF C
  <2>1. C \in SUBSET Nat
    BY DEF C
  <2> QED BY <1>1, <1>2, <2>1, InductionOverNat
<1>4. S \in SUBSET S /\ Cardinality(S) \in Nat
  BY FS_CardinalityType
<1> QED BY <1>3, <1>4

\* A finite set of naturals has a greatest element.
LEMMA GreatestNatural ==
  ASSUME NEW S \in SUBSET Nat, IsFiniteSet(S), S # {}
  PROVE  \E n \in S : \A m \in S : n >= m
<1> DEFINE B == {T \in SUBSET S : T # {} => \E n \in T : \A m \in T : n >= m}
<1>1. {} \in B
  OBVIOUS
<1>2. ASSUME NEW T \in SUBSET S, NEW x \in S \ T, T \in B
      PROVE  T \cup {x} \in B
  <2>1. CASE T = {}
    BY <2>1
  <2>2. CASE T # {}
    <3>1. PICK n \in T : \A m \in T : n >= m
      BY <1>2, <2>2
    <3>2. CASE x >= n
      <4>1. \A m \in T \cup {x} : x >= m
        BY <3>1, <3>2
      <4> QED BY <4>1
    <3>3. CASE n >= x
      <4>1. \A m \in T \cup {x} : n >= m
        BY <3>1, <3>3
      <4> QED BY <4>1
    <3>4. x \in Nat /\ n \in Nat
      OBVIOUS
    <3> QED BY <3>2, <3>3, <3>4
  <2> QED BY <2>1, <2>2
<1>3. S \in B
  <2> HIDE DEF B
  <2> QED BY <1>1, <1>2, InductionOverSet
<1> QED BY <1>3

\* The values of a function on a finite set are a finite set.
LEMMA FiniteValues ==
  ASSUME NEW S, IsFiniteSet(S), NEW f
  PROVE  IsFiniteSet({f[x] : x \in S})
<1> DEFINE T == {f[x] : x \in S}
           g == [x \in S |-> f[x]]
<1>1. g \in [S -> T] /\ \A t \in T : \E x \in S : g[x] = t
  OBVIOUS
<1>2. g \in Surjection(S, T)
  BY <1>1 DEF Surjection
<1> HIDE DEF g, T
<1>3. IsFiniteSet(T)
  BY <1>2, FS_Surjection
<1> QED BY <1>3 DEF T

------------------------------------------------------------------------------
\* g has the sums of f over the subsets of S, one element taken off at a time.
First(s) == CHOOSE x \in s : TRUE

SumsUp(g, f, S) ==
  \A s \in SUBSET S : g[s] = IF s = {} THEN 0 ELSE f[First(s)] + g[s \ {First(s)}]

\* The subsets of a finite set, ranked by their size.
LEMMA SizeRank ==
  ASSUME NEW S, IsFiniteSet(S)
  PROVE  /\ [s \in SUBSET S |-> Cardinality(s)] \in [SUBSET S -> Nat]
         /\ \A s \in SUBSET S : \A x \in s :
              s \ {x} \in SUBSET S /\ Cardinality(s \ {x}) < Cardinality(s)
<1>1. ASSUME NEW s \in SUBSET S
      PROVE  IsFiniteSet(s) /\ Cardinality(s) \in Nat
  BY FS_Subset, FS_CardinalityType
<1>2. ASSUME NEW s \in SUBSET S, NEW x \in s
      PROVE  Cardinality(s \ {x}) < Cardinality(s)
  <2>1. Cardinality(s \ {x}) = Cardinality(s) - 1
    BY <1>1, FS_RemoveElement
  <2> QED BY <1>1, <2>1
<1> QED BY <1>1, <1>2

\* There are such sums.
LEMMA SumsExist ==
  ASSUME NEW S, IsFiniteSet(S), NEW f, \A x \in S : f[x] \in Int
  PROVE  \E g \in [SUBSET S -> Int] : SumsUp(g, f, S)
<1> DEFINE rank == [s \in SUBSET S |-> Cardinality(s)]
           V(s, g) == IF s = {} THEN 0 ELSE f[First(s)] + g[s \ {First(s)}]
           D == [s \in SUBSET S |-> [g \in [SUBSET S -> Int] |-> V(s, g)]]
<1>1. rank \in [SUBSET S -> Nat] /\ Int # {}
  BY SizeRank
<1>2. \A s \in SUBSET S : s # {} => First(s) \in s
  BY DEF First
<1>3. ASSUME NEW s \in SUBSET S, NEW g \in [SUBSET S -> Int]
      PROVE  V(s, g) \in Int
  <2>1. CASE s = {}
    BY <2>1
  <2>2. CASE s # {}
    <3>1. First(s) \in s /\ s \ {First(s)} \in SUBSET S
      BY <1>2, <2>2
    <3>2. f[First(s)] \in Int /\ g[s \ {First(s)}] \in Int
      BY <3>1
    <3> QED BY <2>2, <3>2
  <2> QED BY <2>1, <2>2
<1>4. ASSUME NEW s \in SUBSET S, NEW g, NEW h,
             \A r \in SUBSET S : rank[r] < rank[s] => g[r] = h[r]
      PROVE  V(s, g) = V(s, h)
  <2>1. CASE s = {}
    BY <2>1
  <2>2. CASE s # {}
    <3>1. s \ {First(s)} \in SUBSET S /\ rank[s \ {First(s)}] < rank[s]
      BY <1>2, <2>2, SizeRank
    <3> QED BY <1>4, <2>2, <3>1
  <2> QED BY <2>1, <2>2
<1> HIDE DEF V, rank
<1>5. Delivers(D, SUBSET S, Int)
  BY <1>3 DEF Delivers
<1>a. ReadsBelow(D, SUBSET S, Int, rank)
  <2> SUFFICES ASSUME NEW s \in SUBSET S, NEW g \in [SUBSET S -> Int], NEW h \in [SUBSET S -> Int],
                      \A r \in SUBSET S : rank[r] < rank[s] => g[r] = h[r]
               PROVE  D[s][g] = D[s][h]
    BY DEF ReadsBelow
  <2>1. V(s, g) = V(s, h)
    BY <1>4
  <2> QED BY <2>1
<1>6. \A s \in SUBSET S : \A g \in [SUBSET S -> Int] : D[s][g] = V(s, g)
  OBVIOUS
<1>7. \E g \in [SUBSET S -> Int] : Solves(g, D, SUBSET S)
  <2> HIDE DEF D
  <2> QED BY <1>1, <1>5, <1>a, RankedRecursion
<1> QED BY <1>6, <1>7 DEF Solves, SumsUp, V

\* They are unique.
LEMMA SumsAgree ==
  ASSUME NEW S, IsFiniteSet(S), NEW f, NEW g, SumsUp(g, f, S),
         NEW h, NEW k, SumsUp(k, h, S), \A x \in S : f[x] = h[x]
  PROVE  \A s \in SUBSET S : g[s] = k[s]
<1> DEFINE rank == [s \in SUBSET S |-> Cardinality(s)]
<1>1. rank \in [SUBSET S -> Nat]
  BY SizeRank
<1>2. ASSUME NEW s \in SUBSET S,
             \A r \in SUBSET S : rank[r] < rank[s] => g[r] = k[r]
      PROVE  g[s] = k[s]
  <2>1. CASE s = {}
    BY <2>1 DEF SumsUp
  <2>2. CASE s # {}
    <3>1. First(s) \in s
      BY <2>2 DEF First
    <3>2. s \ {First(s)} \in SUBSET S /\ rank[s \ {First(s)}] < rank[s]
      BY <3>1, SizeRank
    <3>3. g[s \ {First(s)}] = k[s \ {First(s)}] /\ f[First(s)] = h[First(s)]
      BY <1>2, <3>1, <3>2
    <3>4. /\ g[s] = f[First(s)] + g[s \ {First(s)}]
          /\ k[s] = h[First(s)] + k[s \ {First(s)}]
      BY <2>2 DEF SumsUp
    <3> QED BY <3>3, <3>4
  <2> QED BY <2>1, <2>2
<1> HIDE DEF rank
<1> QED BY <1>1, <1>2, RankedUniqueness

\* SumFunctionOnSet is one of them.
LEMMA SumIsSumsUp ==
  ASSUME NEW S, IsFiniteSet(S), NEW f, \A x \in S : f[x] \in Int,
         NEW g \in [SUBSET S -> Int], SumsUp(g, f, S)
  PROVE  SumFunctionOnSet(f, S) = g[S]
<1> DEFINE step(h) == [s \in SUBSET S |->
                         IF s = {} THEN 0 ELSE f[First(s)] + h[s \ {First(s)}]]
           k == CHOOSE h : h = step(h)
<1>1. SumFunctionOnSet(f, S) = k[S]
  BY DEF SumFunctionOnSet, FoldFunctionOnSet, MapThenFoldSet, First
<1>2. g = step(g)
  BY DEF SumsUp
<1>3. k = step(k)
  BY <1>2
<1> HIDE DEF k
<1>4. SumsUp(k, f, S)
  BY <1>3 DEF SumsUp
<1> QED BY <1>1, <1>4, SumsAgree

\* f has integers for values on the finite set S.
Summable(f, S) == IsFiniteSet(S) /\ \A x \in S : f[x] \in Int

\* Any element can be taken off first.
LEMMA TakeOff ==
  ASSUME NEW S, NEW f, Summable(f, S), NEW g \in [SUBSET S -> Int], SumsUp(g, f, S)
  PROVE  \A s \in SUBSET S : \A x \in s : g[s] = f[x] + g[s \ {x}]
<1> DEFINE C == {n \in Nat : \A s \in SUBSET S : Cardinality(s) = n =>
                   \A x \in s : g[s] = f[x] + g[s \ {x}]}
<1>0. IsFiniteSet(S) /\ \A x \in S : f[x] \in Int
  BY DEF Summable
<1>1. ASSUME NEW s \in SUBSET S
      PROVE  IsFiniteSet(s) /\ Cardinality(s) \in Nat
  BY <1>0, FS_Subset, FS_CardinalityType
<1>2. 0 \in C
  <2>1. \A s \in SUBSET S : Cardinality(s) = 0 => s = {}
    BY <1>1, FS_EmptySet
  <2> QED BY <2>1
<1>3. ASSUME NEW n \in C
      PROVE  n + 1 \in C
  <2>1. n \in Nat
    BY <1>3
  <2>2. ASSUME NEW s \in SUBSET S, Cardinality(s) = n + 1, NEW x \in s
        PROVE  g[s] = f[x] + g[s \ {x}]
    <3> DEFINE c == First(s)
    <3>1. c \in s
      BY DEF First
    <3>2. g[s] = f[c] + g[s \ {c}]
      BY <3>1 DEF SumsUp
    <3> HIDE DEF c
    <3>3. CASE x = c
      BY <3>2, <3>3
    <3>4. CASE x # c
      <4>1. \A y \in s : s \ {y} \in SUBSET S /\ Cardinality(s \ {y}) = n
        <5>1. \A y \in s : Cardinality(s \ {y}) = Cardinality(s) - 1
          BY <1>1, FS_RemoveElement
        <5>2. (n + 1) - 1 = n
          BY <2>1
        <5> QED BY <2>2, <5>1, <5>2
      <4>2. g[s \ {c}] = f[x] + g[(s \ {c}) \ {x}]
        <5>1. x \in s \ {c}
          BY <3>4
        <5>2. s \ {c} \in SUBSET S /\ Cardinality(s \ {c}) = n
          BY <3>1, <4>1
        <5> QED BY <1>3, <5>1, <5>2
      <4>3. g[s \ {x}] = f[c] + g[(s \ {x}) \ {c}]
        <5>1. c \in s \ {x}
          BY <3>1, <3>4
        <5>2. s \ {x} \in SUBSET S /\ Cardinality(s \ {x}) = n
          BY <4>1
        <5> QED BY <1>3, <5>1, <5>2
      <4>4. (s \ {c}) \ {x} = (s \ {x}) \ {c}
        OBVIOUS
      <4>5. f[x] \in Int /\ f[c] \in Int /\ g[(s \ {x}) \ {c}] \in Int
        BY <1>0, <3>1
      <4> DEFINE a == f[x]
                 b == f[c]
                 r == g[(s \ {x}) \ {c}]
      <4>6. g[s] = b + (a + r) /\ g[s \ {x}] = b + r /\ a \in Int /\ b \in Int /\ r \in Int
        BY <3>2, <4>2, <4>3, <4>4, <4>5
      <4> HIDE DEF a, b, r
      <4>7. g[s] = a + g[s \ {x}]
        BY <4>6
      <4> QED BY <4>7 DEF a
    <3> QED BY <3>3, <3>4
  <2> QED BY <2>1, <2>2
<1>4. C = Nat
  <2> HIDE DEF C
  <2>1. C \in SUBSET Nat
    BY DEF C
  <2> QED BY <1>2, <1>3, <2>1, InductionOverNat
<1> QED BY <1>1, <1>4

\* The sums over the subsets of S are those of SumFunctionOnSet.
SumsOn(g, f, S) ==
  SumsUp(g, f, S) /\ \A T \in SUBSET S : SumFunctionOnSet(f, T) = g[T]

LEMMA SumsOfSubsets ==
  ASSUME NEW S, NEW f, Summable(f, S)
  PROVE  \E g \in [SUBSET S -> Int] : SumsOn(g, f, S)
<1>0. IsFiniteSet(S) /\ \A x \in S : f[x] \in Int
  BY DEF Summable
<1>1. PICK g \in [SUBSET S -> Int] : SumsUp(g, f, S)
  BY <1>0, SumsExist
<1>2. ASSUME NEW T \in SUBSET S
      PROVE  SumFunctionOnSet(f, T) = g[T]
  <2> DEFINE h == [s \in SUBSET T |-> g[s]]
  <2>1. IsFiniteSet(T) /\ \A x \in T : f[x] \in Int
    BY <1>0, FS_Subset
  <2>2. h \in [SUBSET T -> Int]
    OBVIOUS
  <2>3. SumsUp(h, f, T)
    <3>1. \A s \in SUBSET T : s \in SUBSET S /\ s \ {First(s)} \in SUBSET T
      OBVIOUS
    <3> QED BY <1>1, <3>1 DEF SumsUp
  <2>4. h[T] = g[T]
    OBVIOUS
  <2> HIDE DEF h
  <2> QED BY <2>1, <2>2, <2>3, <2>4, SumIsSumsUp
<1> QED BY <1>1, <1>2 DEF SumsOn

LEMMA SumEmpty == \A f : SumFunctionOnSet(f, {}) = 0
<1> SUFFICES ASSUME NEW f PROVE SumFunctionOnSet(f, {}) = 0
  OBVIOUS
<1>1. PICK g \in [SUBSET {} -> Int] : SumsOn(g, f, {})
  BY FS_EmptySet, SumsOfSubsets DEF Summable
<1> QED BY <1>1 DEF SumsOn, SumsUp

LEMMA SumType ==
  ASSUME NEW S, NEW f, Summable(f, S)
  PROVE  SumFunctionOnSet(f, S) \in Int
<1>1. PICK g \in [SUBSET S -> Int] : SumsOn(g, f, S)
  BY SumsOfSubsets
<1> QED BY <1>1 DEF SumsOn

LEMMA SumAddElement ==
  ASSUME NEW S, NEW f, Summable(f, S), NEW T \in SUBSET S, NEW x \in S \ T
  PROVE  SumFunctionOnSet(f, T \cup {x}) = f[x] + SumFunctionOnSet(f, T)
<1>1. PICK g \in [SUBSET S -> Int] : SumsOn(g, f, S)
  BY SumsOfSubsets
<1>2. /\ T \cup {x} \in SUBSET S /\ x \in T \cup {x}
      /\ (T \cup {x}) \ {x} = T
  OBVIOUS
<1>3. g[T \cup {x}] = f[x] + g[(T \cup {x}) \ {x}]
  BY <1>1, <1>2, TakeOff DEF SumsOn
<1> QED BY <1>1, <1>2, <1>3 DEF SumsOn

LEMMA SumSame ==
  ASSUME NEW S, NEW f, NEW h, Summable(f, S), \A x \in S : f[x] = h[x]
  PROVE  SumFunctionOnSet(f, S) = SumFunctionOnSet(h, S)
<1>1. PICK g \in [SUBSET S -> Int] : SumsOn(g, f, S)
  BY SumsOfSubsets
<1>2. Summable(h, S)
  BY DEF Summable
<1>3. PICK k \in [SUBSET S -> Int] : SumsOn(k, h, S)
  BY <1>2, SumsOfSubsets
<1>4. \A U \in SUBSET S : g[U] = k[U]
  BY <1>1, <1>3, SumsAgree DEF Summable, SumsOn
<1> QED BY <1>1, <1>3, <1>4 DEF SumsOn

\* A sum over two disjoint sets.
LEMMA SumUnion ==
  ASSUME NEW S, NEW T, NEW f, Summable(f, S \cup T), S \cap T = {}
  PROVE  SumFunctionOnSet(f, S \cup T) =
           SumFunctionOnSet(f, S) + SumFunctionOnSet(f, T)
<1> DEFINE B == {U \in SUBSET T : SumFunctionOnSet(f, S \cup U) =
                   SumFunctionOnSet(f, S) + SumFunctionOnSet(f, U)}
<1>1. \A U \in SUBSET (S \cup T) : Summable(f, U)
  BY FS_Subset DEF Summable
<1>2. \A U \in SUBSET (S \cup T) : SumFunctionOnSet(f, U) \in Int
  BY <1>1, SumType
<1>3. {} \in B
  <2>1. S \cup {} = S /\ S \in SUBSET (S \cup T)
    OBVIOUS
  <2> QED BY <1>2, <2>1, SumEmpty
<1>4. ASSUME NEW U \in SUBSET T, NEW x \in T \ U, U \in B
      PROVE  U \cup {x} \in B
  <2>1. SumFunctionOnSet(f, U \cup {x}) = f[x] + SumFunctionOnSet(f, U)
    <3>1. U \in SUBSET (S \cup T) /\ x \in (S \cup T) \ U
      OBVIOUS
    <3> QED BY <3>1, SumAddElement
  <2>2. SumFunctionOnSet(f, (S \cup U) \cup {x}) = f[x] + SumFunctionOnSet(f, S \cup U)
    <3>1. S \cup U \in SUBSET (S \cup T) /\ x \in (S \cup T) \ (S \cup U)
      OBVIOUS
    <3> QED BY <3>1, SumAddElement
  <2>3. S \cup (U \cup {x}) = (S \cup U) \cup {x}
    OBVIOUS
  <2>4. SumFunctionOnSet(f, S \cup U) = SumFunctionOnSet(f, S) + SumFunctionOnSet(f, U)
    BY <1>4
  <2>5. SumFunctionOnSet(f, S) \in Int /\ SumFunctionOnSet(f, U) \in Int /\ f[x] \in Int
    BY <1>2 DEF Summable
  <2> DEFINE a == SumFunctionOnSet(f, S)
             b == SumFunctionOnSet(f, U)
             c == f[x]
  <2>6. /\ SumFunctionOnSet(f, S \cup (U \cup {x})) = c + (a + b)
        /\ SumFunctionOnSet(f, U \cup {x}) = c + b
        /\ a \in Int /\ b \in Int /\ c \in Int
    BY <2>1, <2>2, <2>3, <2>4, <2>5
  <2> HIDE DEF a, b, c
  <2>7. SumFunctionOnSet(f, S \cup (U \cup {x})) = a + SumFunctionOnSet(f, U \cup {x})
    BY <2>6
  <2> QED BY <2>7 DEF a
<1>5. IsFiniteSet(T)
  BY FS_Subset DEF Summable
<1>6. T \in B
  <2> HIDE DEF B
  <2> QED BY <1>3, <1>4, <1>5, InductionOverSet
<1> QED BY <1>6

\* The sum of the differences is the difference of the sums.
LEMMA SumDifference ==
  ASSUME NEW S, NEW f, NEW g, NEW d, Summable(f, S), Summable(g, S),
         \A x \in S : d[x] = f[x] - g[x]
  PROVE  SumFunctionOnSet(d, S) = SumFunctionOnSet(f, S) - SumFunctionOnSet(g, S)
<1> DEFINE B == {U \in SUBSET S : SumFunctionOnSet(d, U) =
                   SumFunctionOnSet(f, U) - SumFunctionOnSet(g, U)}
<1>1. Summable(d, S) /\ IsFiniteSet(S)
  BY DEF Summable
<1>2. \A U \in SUBSET S : Summable(f, U) /\ Summable(g, U)
  BY FS_Subset DEF Summable
<1>3. \A U \in SUBSET S : SumFunctionOnSet(f, U) \in Int /\ SumFunctionOnSet(g, U) \in Int
  BY <1>2, SumType
<1>4. {} \in B
  BY SumEmpty
<1>5. ASSUME NEW U \in SUBSET S, NEW x \in S \ U, U \in B
      PROVE  U \cup {x} \in B
  <2>1. SumFunctionOnSet(f, U \cup {x}) = f[x] + SumFunctionOnSet(f, U)
    BY SumAddElement
  <2>2. SumFunctionOnSet(g, U \cup {x}) = g[x] + SumFunctionOnSet(g, U)
    BY SumAddElement
  <2>3. SumFunctionOnSet(d, U \cup {x}) = d[x] + SumFunctionOnSet(d, U)
    BY <1>1, SumAddElement
  <2>4. SumFunctionOnSet(d, U) = SumFunctionOnSet(f, U) - SumFunctionOnSet(g, U)
    BY <1>5
  <2>5. /\ SumFunctionOnSet(f, U) \in Int /\ SumFunctionOnSet(g, U) \in Int
        /\ f[x] \in Int /\ g[x] \in Int /\ d[x] = f[x] - g[x]
    BY <1>3 DEF Summable
  <2>6. SumFunctionOnSet(d, U \cup {x}) =
          SumFunctionOnSet(f, U \cup {x}) - SumFunctionOnSet(g, U \cup {x})
    BY <2>1, <2>2, <2>3, <2>4, <2>5
  <2> QED BY <2>6
<1>6. S \in B
  <2> HIDE DEF B
  <2> QED BY <1>1, <1>4, <1>5, InductionOverSet
<1> QED BY <1>6

LEMMA SumZero ==
  ASSUME NEW S, NEW f, IsFiniteSet(S), \A x \in S : f[x] = 0
  PROVE  SumFunctionOnSet(f, S) = 0
<1>1. Summable(f, S) /\ \A x \in S : f[x] = f[x] - f[x]
  BY DEF Summable
<1> DEFINE a == SumFunctionOnSet(f, S)
<1>2. a = a - a
  BY <1>1, SumDifference
<1>3. a \in Int
  BY <1>1, SumType
<1> HIDE DEF a
<1>4. a = 0
  BY <1>2, <1>3
<1> QED BY <1>4 DEF a

\* What a sum changes by if the values change inside T only.
LEMMA SumChange ==
  ASSUME NEW S, NEW T \in SUBSET S, NEW f, NEW g, NEW d, Summable(f, S), Summable(g, S),
         \A x \in S \ T : g[x] = f[x],
         \A x \in T : d[x] = g[x] - f[x]
  PROVE  SumFunctionOnSet(d, T) = SumFunctionOnSet(g, S) - SumFunctionOnSet(f, S)
<1> DEFINE R == S \ T
           f1 == SumFunctionOnSet(f, T)
           f2 == SumFunctionOnSet(f, R)
           g1 == SumFunctionOnSet(g, T)
           g2 == SumFunctionOnSet(g, R)
<1>1. /\ Summable(f, T) /\ Summable(f, R)
      /\ Summable(g, T) /\ Summable(g, R)
  <2>1. IsFiniteSet(S) /\ R \in SUBSET S
    BY DEF Summable
  <2> HIDE DEF R
  <2>2. IsFiniteSet(T) /\ IsFiniteSet(R)
    BY <2>1, FS_Subset
  <2> QED BY <2>1, <2>2 DEF Summable
<1>2. T \cup R = S /\ T \cap R = {}
  OBVIOUS
<1>3. \A x \in R : f[x] = g[x]
  OBVIOUS
<1> HIDE DEF R
<1>4. SumFunctionOnSet(f, S) = f1 + f2
  <2>1. Summable(f, T \cup R)
    BY <1>2
  <2>2. SumFunctionOnSet(f, T \cup R) = f1 + f2
    BY <1>2, <2>1, SumUnion
  <2> QED BY <1>2, <2>2
<1>5. SumFunctionOnSet(g, S) = g1 + g2
  <2>1. Summable(g, T \cup R)
    BY <1>2
  <2>2. SumFunctionOnSet(g, T \cup R) = g1 + g2
    BY <1>2, <2>1, SumUnion
  <2> QED BY <1>2, <2>2
<1>6. f2 = g2
  BY <1>1, <1>3, SumSame
<1>7. SumFunctionOnSet(d, T) = g1 - f1
  BY <1>1, SumDifference
<1>8. f1 \in Int /\ f2 \in Int /\ g1 \in Int
  BY <1>1, SumType
<1> HIDE DEF f1, f2, g1, g2
<1> QED BY <1>4, <1>5, <1>6, <1>7, <1>8

\* The sum of a function that is given by its values.
LEMMA SumOfValues ==
  ASSUME NEW S, NEW f, Summable(f, S)
  PROVE  SumFunction([x \in S |-> f[x]]) = SumFunctionOnSet(f, S)
<1> DEFINE h == [x \in S |-> f[x]]
<1>1. DOMAIN h = S /\ \A x \in S : f[x] = h[x]
  OBVIOUS
<1>2. SumFunction(h) = SumFunctionOnSet(h, S)
  BY <1>1 DEF SumFunction
<1> HIDE DEF h
<1>3. SumFunctionOnSet(f, S) = SumFunctionOnSet(h, S)
  BY <1>1, SumSame
<1> QED BY <1>2, <1>3 DEF h

------------------------------------------------------------------------------
\* The elements of a sequence.
LEMMA SeqElements ==
  ASSUME NEW T, NEW s \in Seq(T)
  PROVE  DOMAIN s = 1 .. Len(s) /\ Len(s) \in Nat /\ \A k \in DOMAIN s : s[k] \in T
OBVIOUS

\* A function on the first n numbers is a sequence.
LEMMA FunctionIsSeq ==
  ASSUME NEW n \in Nat, NEW v, v = [h \in 1 .. n |-> v[h]]
  PROVE  v \in Seq({v[h] : h \in 1 .. n}) /\ Len(v) = n
<1>1. PICK V : V = {v[h] : h \in 1 .. n}
  OBVIOUS
<1>2. v \in [1 .. n -> V]
  BY <1>1
<1>3. v \in Seq(V) /\ Len(v) = n
  BY <1>2
<1> QED BY <1>1, <1>3

\* What Append adds, to a sequence of anything.
LEMMA AppendAny ==
  ASSUME NEW n \in Nat, NEW T, NEW s \in Seq(T), Len(s) = n, NEW x
  PROVE  /\ Len(Append(s, x)) = n + 1 /\ Append(s, x)[n + 1] = x
         /\ \A h \in 1 .. n : Append(s, x)[h] = s[h]
OBVIOUS

LEMMA AppendIsFunction ==
  ASSUME NEW T, NEW s \in Seq(T), NEW x
  PROVE  Append(s, x) = [k \in 1 .. Len(s) + 1 |-> Append(s, x)[k]]
<1>1. s \in Seq(T \cup {x})
  BY SeqMonotonic
<1>2. Append(s, x) \in Seq(T \cup {x}) /\ Len(Append(s, x)) = Len(s) + 1
  BY <1>1, AppendProperties
<1>3. PICK t : t = Append(s, x)
  OBVIOUS
<1>4. t = [k \in 1 .. Len(t) |-> t[k]]
  BY <1>2, <1>3, LenProperties
<1> QED BY <1>2, <1>3, <1>4

\* Flattening joins the rows one after the other.
LEMMA FlattenHolds ==
  ASSUME NEW T, NEW n \in Nat, NEW rows \in [1 .. n -> Seq(T)]
  PROVE  \E part \in [0 .. n -> Seq(T)] :
           /\ part[0] = <<>>
           /\ \A k \in 1 .. n : part[k] = part[k - 1] \o rows[k]
           /\ FlattenSeq(rows) = part[n]
<1>0. rows \in Seq(Seq(T)) /\ Len(rows) = n
  OBVIOUS
<1>1. CASE n = 0
  <2> DEFINE part == [k \in 0 .. n |-> <<>>]
  <2>1. part \in [0 .. n -> Seq(T)] /\ part[0] = <<>> /\ part[n] = <<>>
    BY <1>1
  <2>2. FlattenSeq(rows) = rows /\ rows = <<>>
    BY <1>0, <1>1 DEF FlattenSeq
  <2>3. \A k \in 1 .. n : FALSE
    BY <1>1
  <2> HIDE DEF part
  <2> QED BY <2>1, <2>2, <2>3
<1>2. CASE n # 0
  <2> DEFINE S == 1 .. n
             Q == Seq(T)
             D == [k \in S |-> [f \in [S -> Q] |-> IF k = 1 THEN rows[k] ELSE f[k - 1] \o rows[k]]]
             rank == [k \in S |-> k]
  <2>1. rank \in [S -> Nat] /\ Q # {}
    <3>1. <<>> \in Q
      OBVIOUS
    <3> QED BY <3>1
  <2>2. \A k \in S : k = 1 \/ k - 1 \in S
    BY <1>2
  <2>3. ASSUME NEW k \in S, NEW f \in [S -> Q]
        PROVE  D[k][f] = (IF k = 1 THEN rows[k] ELSE f[k - 1] \o rows[k]) /\ D[k][f] \in Q
    <3>1. D[k][f] = IF k = 1 THEN rows[k] ELSE f[k - 1] \o rows[k]
      OBVIOUS
    <3>2. CASE k = 1
      BY <3>1, <3>2
    <3>3. CASE k # 1
      <4>1. f[k - 1] \in Q /\ rows[k] \in Q
        BY <2>2, <3>3
      <4>2. f[k - 1] \o rows[k] \in Q
        BY <4>1, ConcatProperties
      <4> QED BY <3>1, <3>3, <4>2
    <3> QED BY <3>1, <3>2, <3>3
  <2>4. ASSUME NEW k \in S, NEW f \in [S -> Q], NEW g \in [S -> Q],
               \A m \in S : rank[m] < rank[k] => f[m] = g[m]
        PROVE  D[k][f] = D[k][g]
    <3>1. CASE k = 1
      BY <2>3, <3>1
    <3>2. CASE k # 1
      <4>1. k - 1 \in S /\ k - 1 < k
        BY <2>2, <3>2
      <4>2. f[k - 1] = g[k - 1]
        BY <2>4, <4>1
      <4> QED BY <2>3, <4>2
    <3> QED BY <3>1, <3>2
  <2>5. Delivers(D, S, Q) /\ ReadsBelow(D, S, Q, rank)
    BY <2>3, <2>4 DEF Delivers, ReadsBelow
  <2>6. \E f \in [S -> Q] : Solves(f, D, S)
    <3> HIDE DEF D, S, Q, rank
    <3> QED BY <2>1, <2>5, RankedRecursion
  <2>7. PICK f \in [S -> Q] : \A k \in S : f[k] = IF k = 1 THEN rows[k] ELSE f[k - 1] \o rows[k]
    BY <2>3, <2>6 DEF Solves
  <2>8. f = [k \in S |-> IF k = 1 THEN rows[k] ELSE f[k - 1] \o rows[k]]
    BY <2>7
  <2> DEFINE c == CHOOSE h : h = [k \in S |-> IF k = 1 THEN rows[k] ELSE h[k - 1] \o rows[k]]
  <2>9. c = [k \in S |-> IF k = 1 THEN rows[k] ELSE c[k - 1] \o rows[k]]
    BY <2>8
  <2>10. FlattenSeq(rows) = c[n]
    <3>1. Len(rows) # 0
      BY <1>0, <1>2
    <3> QED BY <1>0, <3>1 DEF FlattenSeq
  <2> HIDE DEF c
  <2>11. DOMAIN c = S /\ \A k \in S : c[k] = IF k = 1 THEN rows[k] ELSE c[k - 1] \o rows[k]
    BY <2>9
  <2>12. \A k \in S : (k = 1 \/ f[k - 1] = c[k - 1]) => f[k] = c[k]
    BY <2>7, <2>11
  <2> DEFINE B == {k \in Nat : k \in S => f[k] = c[k]}
  <2>13. \A k \in S : f[k] = c[k]
    <3>1. 0 \in B
      OBVIOUS
    <3>2. ASSUME NEW k \in B PROVE k + 1 \in B
      <4>1. k = 0 \/ k + 1 \notin S \/ k \in S
        OBVIOUS
      <4>2. (k + 1) - 1 = k /\ k + 1 \in Nat
        OBVIOUS
      <4> SUFFICES ASSUME k + 1 \in S PROVE f[k + 1] = c[k + 1]
        BY <4>2
      <4>3. PICK m \in S : m = k + 1 /\ m - 1 = k
        BY <4>2
      <4>4. m = 1 \/ f[m - 1] = c[m - 1]
        BY <4>1, <4>3
      <4>5. f[m] = c[m]
        BY <2>12, <4>4, Zenon
      <4> QED BY <4>3, <4>5
    <3>3. B \in SUBSET Nat
      OBVIOUS
    <3>4. B = Nat
      <4> HIDE DEF B
      <4> QED BY <3>1, <3>2, <3>3, InductionOverNat
    <3>5. \A k \in S : k \in Nat
      OBVIOUS
    <3> QED BY <3>4, <3>5, Zenon
  <2> DEFINE part == [k \in 0 .. n |-> IF k = 0 THEN <<>> ELSE f[k]]
  <2>14. part \in [0 .. n -> Seq(T)] /\ part[0] = <<>> /\ \A k \in S : part[k] = f[k]
    <3>1. \A k \in 0 .. n : k = 0 \/ k \in S
      OBVIOUS
    <3>2. <<>> \in Q
      OBVIOUS
    <3> QED BY <2>7, <3>1, <3>2
  <2> HIDE DEF part
  <2>15. ASSUME NEW k \in S PROVE part[k] = part[k - 1] \o rows[k]
    <3>1. CASE k = 1
      <4>1. rows[1] \in Seq(T)
        BY <3>1
      <4>2. <<>> \o rows[1] = rows[1]
        BY <4>1, ConcatEmptySeq
      <4>3. part[1] = f[1] /\ f[1] = rows[1] /\ part[1 - 1] = <<>>
        BY <2>7, <2>14, <3>1
      <4>4. part[1] = part[1 - 1] \o rows[1]
        BY <4>2, <4>3, Zenon
      <4> QED BY <3>1, <4>4
    <3>2. CASE k # 1
      <4>1. k - 1 \in S
        BY <2>2, <3>2
      <4> QED BY <2>7, <2>14, <3>2, <4>1
    <3> QED BY <3>1, <3>2
  <2>16. n \in S
    BY <1>2
  <2>17. FlattenSeq(rows) = part[n]
    BY <2>10, <2>13, <2>14, <2>16
  <2> QED BY <2>14, <2>15, <2>17
<1> QED BY <1>1, <1>2

------------------------------------------------------------------------------
\* What Tail takes out of a queue without repetitions, and what it leaves.
LEMMA PopQueue ==
  ASSUME NEW S, NEW q \in Seq(S), q # <<>>,
         \A i, j \in DOMAIN q : q[i] = q[j] => i = j
  PROVE  /\ Head(q) \in S
         /\ Tail(q) \in Seq(S)
         /\ Range(q) = Range(Tail(q)) \cup {Head(q)}
         /\ Head(q) \notin Range(Tail(q))
         /\ \A i, j \in DOMAIN Tail(q) : Tail(q)[i] = Tail(q)[j] => i = j
<1>1. /\ Head(q) \in S
      /\ Tail(q) \in Seq(S)
      /\ Len(Tail(q)) = Len(q) - 1
      /\ \A i \in 1 .. Len(Tail(q)) : Tail(q)[i] = q[i + 1]
  BY HeadTailProperties
<1>2. /\ Len(q) \in Nat /\ Len(q) >= 1
      /\ DOMAIN q = 1 .. Len(q)
      /\ DOMAIN Tail(q) = 1 .. (Len(q) - 1)
      /\ Head(q) = q[1]
  BY <1>1, EmptySeq, LenProperties
<1>3. Range(q) = Range(Tail(q)) \cup {Head(q)}
  <2>1. ASSUME NEW e \in Range(q), e # q[1]
        PROVE  e \in Range(Tail(q))
    <3>1. PICK i \in 1 .. Len(q) : e = q[i]
      BY <1>2, <2>1 DEF Range
    <3>2. i - 1 \in 1 .. (Len(q) - 1) /\ Tail(q)[i - 1] = q[i]
      BY <1>1, <1>2, <2>1, <3>1
    <3> QED BY <1>2, <3>1, <3>2 DEF Range
  <2>2. ASSUME NEW e \in Range(Tail(q))
        PROVE  e \in Range(q)
    <3>1. PICK i \in 1 .. (Len(q) - 1) : e = Tail(q)[i]
      BY <1>2, <2>2 DEF Range
    <3>2. i + 1 \in 1 .. Len(q) /\ Tail(q)[i] = q[i + 1]
      BY <1>1, <1>2, <3>1
    <3> QED BY <1>2, <3>1, <3>2 DEF Range
  <2>3. q[1] \in Range(q)
    BY <1>2 DEF Range
  <2> QED BY <1>2, <2>1, <2>2, <2>3
<1>4. Head(q) \notin Range(Tail(q))
  <2>1. ASSUME NEW i \in 1 .. (Len(q) - 1), q[1] = Tail(q)[i]
        PROVE  FALSE
    <3>1. 1 \in DOMAIN q /\ i + 1 \in DOMAIN q /\ q[1] = q[i + 1] /\ i + 1 # 1
      BY <1>1, <1>2, <2>1
    <3> QED BY <3>1
  <2> QED BY <1>2, <2>1 DEF Range
<1>5. ASSUME NEW i \in DOMAIN Tail(q), NEW j \in DOMAIN Tail(q),
             Tail(q)[i] = Tail(q)[j]
      PROVE  i = j
  <2>1. /\ i + 1 \in DOMAIN q /\ j + 1 \in DOMAIN q
        /\ q[i + 1] = q[j + 1]
        /\ i \in Int /\ j \in Int
    BY <1>1, <1>2, <1>5
  <2>2. i + 1 = j + 1
    BY <2>1
  <2> QED BY <2>1, <2>2
<1> QED BY <1>1, <1>3, <1>4, <1>5

\* A sequence after one more element.
LEMMA AppendOne ==
  ASSUME NEW ps, NEW S, ps \in Seq(S), NEW p \in S
  PROVE  /\ Append(ps, p) \in Seq(S)
         /\ DOMAIN Append(ps, p) = DOMAIN ps \cup {Len(ps) + 1}
         /\ Len(ps) + 1 \notin DOMAIN ps
         /\ \A i \in DOMAIN ps : Append(ps, p)[i] = ps[i]
         /\ Append(ps, p)[Len(ps) + 1] = p
<1>1. /\ Append(ps, p) \in Seq(S)
      /\ Len(Append(ps, p)) = Len(ps) + 1
      /\ \A i \in 1 .. Len(ps) : Append(ps, p)[i] = ps[i]
      /\ Append(ps, p)[Len(ps) + 1] = p
  BY AppendProperties
<1>2. Len(ps) \in Nat /\ DOMAIN ps = 1 .. Len(ps)
      /\ DOMAIN Append(ps, p) = 1 .. (Len(ps) + 1)
  BY <1>1, LenProperties
<1> QED BY <1>1, <1>2

\* Two lists without repetitions and without a common element, joined.
LEMMA JoinQueues ==
  ASSUME NEW S, NEW q \in Seq(S), NEW o \in Seq(S),
         \A i, j \in DOMAIN q : q[i] = q[j] => i = j,
         \A i, j \in DOMAIN o : o[i] = o[j] => i = j,
         Range(q) \cap Range(o) = {}
  PROVE  /\ q \o o \in Seq(S)
         /\ Range(q \o o) = Range(q) \cup Range(o)
         /\ \A i, j \in DOMAIN (q \o o) : (q \o o)[i] = (q \o o)[j] => i = j
<1> DEFINE n == Len(q)
           r == q \o o
<1>1. /\ r \in Seq(S)
      /\ Len(r) = n + Len(o)
      /\ \A i \in 1 .. n + Len(o) : r[i] = IF i <= n THEN q[i] ELSE o[i - n]
  BY ConcatProperties
<1>2. /\ n \in Nat /\ Len(o) \in Nat
      /\ DOMAIN q = 1 .. n /\ DOMAIN o = 1 .. Len(o)
      /\ DOMAIN r = 1 .. n + Len(o)
  BY <1>1, LenProperties
<1> HIDE DEF n, r
<1>3. \A i \in DOMAIN r : \/ i \in DOMAIN q /\ r[i] = q[i] /\ i <= n
                          \/ i - n \in DOMAIN o /\ r[i] = o[i - n] /\ i > n
  BY <1>1, <1>2
<1>4. \A i \in DOMAIN q : i \in DOMAIN r /\ r[i] = q[i]
  BY <1>1, <1>2
<1>5. \A i \in DOMAIN o : i + n \in DOMAIN r /\ r[i + n] = o[i]
  BY <1>1, <1>2
<1>6. Range(r) = Range(q) \cup Range(o)
  <2>1. Range(r) \subseteq Range(q) \cup Range(o)
    BY <1>3 DEF Range
  <2>2. Range(q) \subseteq Range(r) /\ Range(o) \subseteq Range(r)
    BY <1>4, <1>5 DEF Range
  <2> QED BY <2>1, <2>2
<1>7. ASSUME NEW i \in DOMAIN r, NEW j \in DOMAIN r, r[i] = r[j]
      PROVE  i = j
  <2>1. i \in Int /\ j \in Int
    BY <1>2
  <2>2. CASE i <= n /\ j <= n
    BY <1>2, <1>3, <1>7, <2>1, <2>2
  <2>3. CASE i > n /\ j > n
    <3>1. i - n = j - n
      BY <1>2, <1>3, <1>7, <2>1, <2>3
    <3> QED BY <1>2, <2>1, <3>1
  <2>4. CASE i <= n /\ j > n
    <3>1. q[i] \in Range(q) /\ o[j - n] \in Range(o) /\ q[i] = o[j - n]
      BY <1>2, <1>3, <1>7, <2>1, <2>4 DEF Range
    <3> QED BY <3>1
  <2>5. CASE i > n /\ j <= n
    <3>1. q[j] \in Range(q) /\ o[i - n] \in Range(o) /\ q[j] = o[i - n]
      BY <1>2, <1>3, <1>7, <2>1, <2>5 DEF Range
    <3> QED BY <3>1
  <2> QED BY <1>2, <2>1, <2>2, <2>3, <2>4, <2>5
<1> QED BY <1>1, <1>6, <1>7 DEF r

\* Joining keeps the elements.
LEMMA JoinedRange ==
  ASSUME NEW T, NEW s \in Seq(T), NEW t \in Seq(T)
  PROVE  s \o t \in Seq(T) /\ \A x : x \in Range(s \o t) <=> x \in Range(s) \/ x \in Range(t)
<1>1. s \o t \in Seq(T) /\ Len(s \o t) = Len(s) + Len(t) /\ Len(s) \in Nat /\ Len(t) \in Nat
  OBVIOUS
<1>2. /\ \A i \in 1 .. Len(s) : (s \o t)[i] = s[i]
      /\ \A i \in 1 .. Len(t) : (s \o t)[Len(s) + i] = t[i]
  OBVIOUS
<1>3. PICK u : u = s \o t
  OBVIOUS
<1>4. PICK m \in Nat, n \in Nat : m = Len(s) /\ n = Len(t)
  BY <1>1
<1>5. DOMAIN u = 1 .. m + n /\ DOMAIN s = 1 .. m /\ DOMAIN t = 1 .. n
  BY <1>1, <1>3, <1>4, SeqElements
<1>6. (\A i \in 1 .. m : u[i] = s[i]) /\ (\A i \in 1 .. n : u[m + i] = t[i])
  BY <1>2, <1>3, <1>4
<1>7. ASSUME NEW x \in Range(u)
      PROVE  x \in Range(s) \/ x \in Range(t)
  <2>1. PICK i \in 1 .. m + n : x = u[i]
    BY <1>5 DEF Range
  <2>2. CASE i <= m
    <3>1. i \in 1 .. m
      BY <2>2
    <3> QED BY <1>5, <1>6, <2>1, <3>1 DEF Range
  <2>3. CASE i > m
    <3>1. PICK j \in 1 .. n : i = m + j
      <4>1. i - m \in 1 .. n /\ i = m + (i - m)
        BY <2>3
      <4> QED BY <4>1
    <3> QED BY <1>5, <1>6, <2>1, <3>1 DEF Range
  <2> QED BY <2>2, <2>3
<1>8. ASSUME NEW x \in Range(s)
      PROVE  x \in Range(u)
  <2>1. PICK i \in 1 .. m : x = s[i]
    BY <1>5 DEF Range
  <2>2. i \in 1 .. m + n
    OBVIOUS
  <2> QED BY <1>5, <1>6, <2>1, <2>2 DEF Range
<1>9. ASSUME NEW x \in Range(t)
      PROVE  x \in Range(u)
  <2>1. PICK i \in 1 .. n : x = t[i]
    BY <1>5 DEF Range
  <2>2. m + i \in 1 .. m + n
    OBVIOUS
  <2> QED BY <1>5, <1>6, <2>1, <2>2 DEF Range
<1> QED BY <1>1, <1>3, <1>7, <1>8, <1>9

\* Flattening keeps the elements.
LEMMA FlattenRange ==
  ASSUME NEW T, NEW n \in Nat, NEW rows \in [1 .. n -> Seq(T)]
  PROVE  /\ FlattenSeq(rows) \in Seq(T)
         /\ \A x : x \in Range(FlattenSeq(rows)) <=> \E i \in 1 .. n : x \in Range(rows[i])
<1>1. PICK part \in [0 .. n -> Seq(T)] :
        /\ part[0] = <<>>
        /\ \A k \in 1 .. n : part[k] = part[k - 1] \o rows[k]
        /\ FlattenSeq(rows) = part[n]
  BY FlattenHolds, ZenonT(40)
<1> DEFINE Fine(k) == \A x : x \in Range(part[k]) <=> \E i \in 1 .. k : x \in Range(rows[i])
           B == {k \in Nat : k <= n => Fine(k)}
<1>2. 0 \in B
  <2>1. \A a : ~(a \in 1 .. 0)
    OBVIOUS
  <2>2. \A x : x \notin Range(<<>>)
    BY DEF Range
  <2> QED BY <1>1, <2>1, <2>2
<1>3. ASSUME NEW k \in Nat, k + 1 <= n, Fine(k)
      PROVE  Fine(k + 1)
  <2> HIDE DEF B
  <2>2. k + 1 \in 1 .. n /\ (k + 1) - 1 = k /\ k \in 0 .. n
    BY <1>3
  <2>3. part[k + 1] = part[k] \o rows[k + 1] /\ part[k] \in Seq(T) /\ rows[k + 1] \in Seq(T)
    BY <1>1, <2>2
  <2>4. \A x : x \in Range(part[k + 1]) <=> x \in Range(part[k]) \/ x \in Range(rows[k + 1])
    BY <2>3, JoinedRange
  <2>5. \A i : i \in 1 .. k + 1 <=> i \in 1 .. k \/ i = k + 1
    OBVIOUS
  <2> QED BY <1>3, <2>4, <2>5
<1>6. ASSUME NEW k \in B
      PROVE  k + 1 \in B
  <2> HIDE DEF Fine
  <2> QED BY <1>3
<1>4. n \in B
  <2>1. B \in SUBSET Nat
    OBVIOUS
  <2> HIDE DEF B
  <2> QED BY <1>2, <1>6, <2>1, InductionOverNat
<1>5. Fine(n) /\ n \in 0 .. n
  BY <1>4
<1> QED BY <1>1, <1>5

\* Sequences without repetition and without a common element, one after the other.
LEMMA JoinedInjective ==
  ASSUME NEW T, NEW s \in Seq(T), NEW t \in Seq(T), IsInjective(s), IsInjective(t),
         \A x \in Range(s) : x \notin Range(t)
  PROVE  IsInjective(s \o t)
<1>1. PICK m \in Nat, n \in Nat : m = Len(s) /\ n = Len(t)
  OBVIOUS
<1>2. PICK u : u = s \o t
  OBVIOUS
<1>3. u \in Seq(T)
  BY <1>2
<1>4. Len(s \o t) = Len(s) + Len(t)
  OBVIOUS
<1>5. DOMAIN u = 1 .. m + n /\ DOMAIN s = 1 .. m /\ DOMAIN t = 1 .. n
  BY <1>1, <1>2, <1>3, <1>4, SeqElements
<1>6. \A k \in 1 .. m : u[k] = s[k]
  <2>1. \A k \in 1 .. Len(s) : (s \o t)[k] = s[k]
    OBVIOUS
  <2> QED BY <1>1, <1>2, <2>1
<1>7. \A k \in 1 .. n : u[m + k] = t[k]
  <2>1. \A k \in 1 .. Len(t) : (s \o t)[Len(s) + k] = t[k]
    OBVIOUS
  <2> QED BY <1>1, <1>2, <2>1
<1>8. ASSUME NEW x \in 1 .. m + n, x \notin 1 .. m
      PROVE  \E k \in 1 .. n : x = m + k
  <2>1. x - m \in 1 .. n /\ x = m + (x - m)
    BY <1>8
  <2> QED BY <2>1
<1>9. ASSUME NEW x \in 1 .. m, NEW k \in 1 .. n
      PROVE  u[x] # u[m + k]
  <2>1. s[x] \in Range(s) /\ t[k] \in Range(t)
    BY <1>5 DEF Range
  <2> QED BY <1>6, <1>7, <2>1
<1>10. ASSUME NEW x \in 1 .. m + n, NEW y \in 1 .. m + n, u[x] = u[y]
       PROVE  x = y
  <2>1. CASE x \in 1 .. m /\ y \in 1 .. m
    BY <1>5, <1>6, <1>10, <2>1 DEF IsInjective
  <2>2. CASE x \notin 1 .. m /\ y \notin 1 .. m
    <3>1. PICK k \in 1 .. n : x = m + k
      BY <1>8, <2>2
    <3>2. PICK h \in 1 .. n : y = m + h
      BY <1>8, <2>2
    <3>3. t[k] = t[h]
      BY <1>7, <1>10, <3>1, <3>2
    <3>4. k = h
      BY <1>5, <3>3 DEF IsInjective
    <3> QED BY <3>1, <3>2, <3>4
  <2>3. CASE x \in 1 .. m /\ y \notin 1 .. m
    <3>1. PICK h \in 1 .. n : y = m + h
      BY <1>8, <2>3
    <3> QED BY <1>9, <1>10, <2>3, <3>1
  <2>4. CASE x \notin 1 .. m /\ y \in 1 .. m
    <3>1. PICK k \in 1 .. n : x = m + k
      BY <1>8, <2>4
    <3> QED BY <1>9, <1>10, <2>4, <3>1
  <2> QED BY <2>1, <2>2, <2>3, <2>4
<1> QED BY <1>2, <1>5, <1>10 DEF IsInjective

\* Rows without repetition and without common elements.
LEMMA FlattenInjective ==
  ASSUME NEW T, NEW n \in Nat, NEW rows \in [1 .. n -> Seq(T)],
         \A k \in 1 .. n : IsInjective(rows[k]),
         \A k, m \in 1 .. n : \A x : x \in Range(rows[k]) /\ x \in Range(rows[m]) => k = m
  PROVE  IsInjective(FlattenSeq(rows))
<1>1. PICK part \in [0 .. n -> Seq(T)] :
        /\ part[0] = <<>>
        /\ \A k \in 1 .. n : part[k] = part[k - 1] \o rows[k]
        /\ FlattenSeq(rows) = part[n]
  BY FlattenHolds
<1> DEFINE Fine(k) == /\ \A x : x \in Range(part[k]) => \E m \in 1 .. k : x \in Range(rows[m])
                      /\ IsInjective(part[k])
           B == {k \in Nat : k <= n => Fine(k)}
<1>2. 0 \in B
  <2>1. \A x : x \notin Range(<<>>)
    BY DEF Range
  <2>2. IsInjective(<<>>)
    BY DEF IsInjective
  <2> QED BY <1>1, <2>1, <2>2
<1>3. ASSUME NEW k \in Nat, k + 1 <= n, Fine(k)
      PROVE  Fine(k + 1)
  <2> HIDE DEF B
  <2>1. k + 1 \in 1 .. n /\ (k + 1) - 1 = k /\ k \in 0 .. n
    BY <1>3
  <2>2. PICK s \in Seq(T) : s = part[k]
    BY <1>1, <2>1
  <2>3. PICK t \in Seq(T) : t = rows[k + 1]
    BY <2>1
  <2>4. part[k + 1] = s \o t
    BY <1>1, <2>1, <2>2, <2>3
  <2>5. \A x : x \in Range(s \o t) <=> x \in Range(s) \/ x \in Range(t)
    BY JoinedRange
  <2>6. \A m : m \in 1 .. k + 1 <=> m \in 1 .. k \/ m = k + 1
    OBVIOUS
  <2>7. \A x : x \in Range(s) => \E m \in 1 .. k : x \in Range(rows[m])
    BY <1>3, <2>2
  <2>8. \A x : x \in Range(s \o t) => \E m \in 1 .. k + 1 : x \in Range(rows[m])
    BY <2>3, <2>5, <2>6, <2>7
  <2>9. ASSUME NEW x \in Range(s)
        PROVE  x \notin Range(t)
    <3>1. PICK m \in 1 .. k : x \in Range(rows[m])
      BY <2>7
    <3>2. m \in 1 .. n /\ m # k + 1
      BY <2>1
    <3> QED BY <2>1, <2>3, <3>1, <3>2
  <2>10. IsInjective(s) /\ IsInjective(t)
    BY <1>3, <2>1, <2>2, <2>3
  <2>11. IsInjective(s \o t)
    BY <2>9, <2>10, JoinedInjective
  <2> QED BY <2>4, <2>8, <2>11
<1>4. ASSUME NEW k \in B
      PROVE  k + 1 \in B
  <2> HIDE DEF Fine
  <2> QED BY <1>3
<1>5. n \in B
  <2>1. B \in SUBSET Nat
    OBVIOUS
  <2> HIDE DEF B
  <2> QED BY <1>2, <1>4, <2>1, InductionOverNat
<1>6. Fine(n)
  BY <1>5
<1> QED BY <1>1, <1>6
==============================================================================
